SPECIFICATION Spec
CONSTANTS
    Far = 1000
    Slots = {"a", "b"}
    Requests = {"Spain", "Colombia", "Australia", "none"}
    Pages <- SomePages
    Lapses = {"page", "download"}
    None = "none"
INVARIANTS
    CacheIsRight
PROPERTIES
    NearestIsSent
    AnsweredRight
