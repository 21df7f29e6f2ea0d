SPECIFICATION Spec
CONSTANTS
    u1 = u1
    u2 = u2
    g1 = g1
    g2 = g2
    r1 = r1
    r2 = r2
    r3 = r3
    None = None
    Users = {u1, u2}
    Guilds = {g1, g2}
    Roles = {r1, r3}
    RoleGuild <- TwoRoles
    Loops = {"loop"}
    Slots = {"cmd"}
    Starts = {2, 8}
    Ops = {"set", "override", "remove", "setRole", "removeRole", "getRole", "deleteRole"}
    Lapses = {"override", "otherGuild", "replaceRole", "http", "busy", "overlap", "slow", "restart"}
    In2021 = FALSE
    MonthToDays <- ShortestYear
    HoursPerDay = 2
INVARIANTS
    TypeOK
    TablesAgree
PROPERTIES
    OnlyLapsesPart
SYMMETRY UserSymmetry
