SPECIFICATION Spec
CONSTANTS
    Members = {7, 8}
    Administrators = {7, 8}
    ArgumentLists <- SomeArguments
    Slots = {"a", "b"}
    MaxMessages = 4
    MaxEntry = 3
INVARIANTS
    TypeOK
    NumbersAreShown
    ComplaintsAreRight
PROPERTIES
    OnlyRemovalsLose
    NobodyChangesTheirOwnLog
CHECK_DEADLOCK FALSE
