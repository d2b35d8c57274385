SPECIFICATION Spec
CHECK_DEADLOCK FALSE
INVARIANTS
    TypeOK
    GetAfterHead
    RequestsAreBounded
    AnswersArePaired
    SocketsAreClosed
PROPERTY CallEnds
