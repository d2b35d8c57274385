------------------------------ MODULE MCBuildFarm ------------------------------
(***************************************************************************)
(* Values for the constants of BuildFarm that a .cfg cannot write down.    *)
(***************************************************************************)
EXTENDS BuildFarm, TLC

\* Every project is built for every platform.
AllCompile == Projects \X Platforms

\* The builder workers are interchangeable.
WorkerSymmetry == Permutations(Builders)
=============================================================================
