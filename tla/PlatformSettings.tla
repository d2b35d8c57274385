---------------------------- MODULE PlatformSettings ----------------------------
(***************************************************************************)
(* The table of platforms and what a setting of a platform is for a build  *)
(* (platforms.py): a plain value, or one per name or class of builds.      *)
(* Of each platform the settings that decide which steps are built are     *)
(* kept; flags and environments are left out.  A list of files is named    *)
(* by its kind, a command by its target.                                   *)
(***************************************************************************)
EXTENDS Sequences, SequencesExt

None == "None"
Plain(v) == [plain |-> v]
Per(f) == [per |-> f]       \* a dictionary, or a collection of keys
IsPlain(data) == "plain" \in DOMAIN data

Builds == {[name |-> "master", type |-> "ScummVMBuild"],
           [name |-> "stable", type |-> "ScummVMStableBuild"],
           [name |-> "tools-master", type |-> "ScummVMToolsBuild"]}

\* The order in which Python looks for the attributes of a class.
Mro(type) ==
    (IF type = "ScummVMStableBuild" THEN <<type, "ScummVMBuild">> ELSE <<type>>)
        \o <<"StandardBuild", "Build", "object">>

\* Mutant: the class itself is looked up, not those it inherits from.
GetFromClass(data, build) ==
    LET found == SelectSeq(<<build.name, build.type, None>>,
                           LAMBDA k : ~IsPlain(data) /\ k \in DOMAIN data.per)
    IN IF IsPlain(data) THEN data.plain
       ELSE IF found = <<>> THEN None ELSE data.per[Head(found)]

\* _getFromBuild: by name, by class, by default.
GetFromBuild(data, build) ==
    LET found == SelectSeq(<<build.name>> \o Mro(build.type) \o <<None>>,
                           LAMBDA k : ~IsPlain(data) /\ k \in DOMAIN data.per)
    IN IF IsPlain(data) THEN data.plain
       ELSE IF found = <<>> THEN None ELSE data.per[Head(found)]

\* _buildInData.
BuildInData(data, build) ==
    IsPlain(data) \/ ({build.name} \cup Range(Mro(build.type))) \cap DOMAIN data.per # {}

Platform(name) ==
    [name |-> name, compatible |-> Plain(None), incompatible |-> Per(<<>>),
     packageable |-> Plain(TRUE), built |-> Plain("no files"),
     packaging |-> Plain(None), strip |-> Plain(None),
     image |-> Plain(name), locked |-> FALSE]

CanBuild(p, build) == BuildInData(p.compatible, build) /\ ~BuildInData(p.incompatible, build)
CanPackage(p, build) == GetFromBuild(p.packageable, build)
BuiltFiles(p, build) == GetFromBuild(p.built, build)
WorkerImage(p, build) == GetFromBuild(p.image, build)

\* register_platform, an empty list being no list.
Registers(p, whitelist, blacklist) ==
    (whitelist # {} => p.name \in whitelist) /\ p.name \notin blacklist

-----------------------------------------------------------------------------
(***************************************************************************)
(* The platforms, in the order of the file.                                *)
(***************************************************************************)
OnlyScummVM(v) == Per([ScummVMBuild |-> v])
Both(v, w) == Per([ScummVMBuild |-> v, ScummVMToolsBuild |-> w])

\* A platform that builds ScummVM only, from its directory of make's target.
Game(name, image, packaging) ==
    [Platform(name) EXCEPT !.image = Plain(image), !.compatible = OnlyScummVM(""),
        !.packaging = packaging, !.built = OnlyScummVM("dist")]
\* One that builds the tools too, which are listed one by one.
WithTools(name, image, packaging) ==
    [Platform(name) EXCEPT !.image = Plain(image), !.packaging = packaging,
        !.built = Both("dist", "tools")]

Dev3ds == <<Game("3ds", "devkit3ds", Plain("dist_3ds"))>>
AmigaOs4 == <<WithTools("amigaos4", "amigaos4", Both("amigaosdist", "amigaosdist"))>>
AndroidOf(suffix) ==
    [Game("android-" \o suffix, "", Plain("androiddistdebug")) EXCEPT
        !.image = OnlyScummVM("android"), !.locked = TRUE]
Android == <<AndroidOf("arm"), AndroidOf("arm64"), AndroidOf("x86"), AndroidOf("x86-64")>>
AppleTv == <<Game("appletv", "appletv", OnlyScummVM("tvosbundle"))>>
Atari ==
    <<Game("atari-full", "atari", OnlyScummVM("atarifulldist")),
      Game("atari-lite", "atari", OnlyScummVM("atarilitedist")),
      Game("firebee", "atari", OnlyScummVM("fbdist"))>>
DebianOf(suffix, imageSuffix, package, tools) ==
    [WithTools("debian-" \o suffix, "debian-" \o imageSuffix, OnlyScummVM("dist-generic")) EXCEPT
        !.compatible = IF tools THEN @ ELSE OnlyScummVM(""), !.packageable = Plain(package)]
Debian ==
    <<DebianOf("i686", "x86", TRUE, TRUE),
      DebianOf("x86-64", "x86_64", TRUE, TRUE),
      DebianOf("x86-64-nullbackend", "x86_64", FALSE, FALSE),
      DebianOf("x86-64-clang", "x86_64-clang", FALSE, FALSE),
      DebianOf("x86-64-plugins", "x86_64", FALSE, FALSE),
      DebianOf("x86-64-dynamic-detection", "x86_64", FALSE, FALSE),
      DebianOf("x86-64-sdl1.2", "x86_64", FALSE, FALSE)>>
Dreamcast == <<Game("dreamcast", "dreamcast", Plain("dcdist"))>>   \* the debug copy is not registered
Gamecube == <<Game("gamecube", "devkitppc", Plain("wiidist"))>>
Ios7 == <<Game("ios7-arm64", "iphone", OnlyScummVM("ios7bundle"))>>
MacOsxOf(cpu) == WithTools("macosx-" \o cpu, "macosx-" \o cpu, Both("bundle", None))
MacOsx == <<MacOsxOf("arm64"), MacOsxOf("x86_64"), MacOsxOf("i386")>>
Miyoo == <<Game("miyoo", "miyoo", Plain("sd-root"))>>
Nds == <<Game("nds", "devkitnds", OnlyScummVM("dsdist"))>>
OpenDinguxOf(target) ==
    Game("opendingux-beta-" \o target, "opendingux-beta", Plain("od-make-opk"))
OpenDingux == <<OpenDinguxOf("gcw0"), OpenDinguxOf("lepus"), OpenDinguxOf("rs90")>>
Ps3 == <<Game("ps3", "ps3", Plain("ps3pkg"))>>
Psp == <<Game("psp", "psp", Plain(None))>>
RaspberryPi == <<WithTools("raspberrypi", "raspberrypi", OnlyScummVM("dist-generic"))>>
RiscOs ==
    <<WithTools("riscos", "riscos", Plain("riscosdist")),
      WithTools("riscos-vfp", "riscos", Plain("riscosdist"))>>
Switch == <<Game("switch", "devkitswitch", Plain("switch_release"))>>
Vita == <<Game("vita", "vita", Plain("psp2vpk"))>>
Wii == <<Game("wii", "devkitppc", Plain("wiidist"))>>
WindowsOf(suffix) ==
    [WithTools("windows-" \o suffix, "mxe", OnlyScummVM("win32dist-mingw")) EXCEPT
        !.strip = OnlyScummVM("${STRIP}")]
Windows == <<WindowsOf("x86"), WindowsOf("x86-64")>>
Win9x == <<WithTools("win9x", "windows-9x", OnlyScummVM("win32dist-mingw"))>>

Platforms ==
    Dev3ds \o AmigaOs4 \o Android \o AppleTv \o Atari \o Debian \o Dreamcast \o Gamecube
        \o Ios7 \o MacOsx \o Miyoo \o Nds \o OpenDingux \o Ps3 \o Psp \o RaspberryPi
        \o RiscOs \o Switch \o Vita \o Wii \o Windows \o Win9x

\* The directories of workers that a Makefile without settings builds images of.
Images ==
    {"amigaos4", "android", "appletv", "atari", "debian-x86", "debian-x86_64",
     "debian-x86_64-clang", "devkit3ds", "devkitnds", "devkitppc", "devkitswitch",
     "dreamcast", "iphone", "macosx-arm64", "macosx-i386", "macosx-x86_64", "miyoo",
     "mxe", "opendingux-beta", "ps3", "psp", "raspberrypi", "riscos", "vita",
     "windows-9x", "caanoo", "fetcher", "m4", "opendingux", "openpandora"}

-----------------------------------------------------------------------------
(***************************************************************************)
(* What the master makes of a platform for a build.                        *)
(***************************************************************************)

\* addPackagingSteps and get_package_steps: the list of files a package step is
\* made of, where adding None to a list ends the reading of the configuration.
PackageSteps(p, build) ==
    IF ~CanPackage(p, build) THEN "no package"
    ELSE IF BuiltFiles(p, build) = None THEN "raises" ELSE "package"

\* getPerPlatformBuilders: the builder of a platform.
BuilderOf(p, build) ==
    [name |-> <<build.name, p.name>>, steps |-> PackageSteps(p, build),
     image |-> WorkerImage(p, build), locked |-> p.locked]

BuildersFor(build, whitelist, blacklist) ==
    LET platforms == SelectSeq(Platforms, LAMBDA p :
            Registers(p, whitelist, blacklist) /\ CanBuild(p, build))
    IN [k \in DOMAIN platforms |-> BuilderOf(platforms[k], build)]
=============================================================================
