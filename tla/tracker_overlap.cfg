SPECIFICATION Spec
CONSTANTS
    u1 = u1
    u2 = u2
    g1 = g1
    g2 = g2
    r1 = r1
    r2 = r2
    r3 = r3
    None = None
    Users = {u1, u2}
    Guilds = {g1}
    Roles = {r1}
    RoleGuild <- OneRole
    Loops = {"loop", "loop2"}
    Slots = {"cmd", "cmd2"}
    Starts = {1, 4}
    Ops = {"set", "setRole"}
    Lapses = {"overlap", "busy"}
    In2021 = TRUE
    MonthToDays <- EvenYear
    HoursPerDay = 2
INVARIANTS
    RolesFollowList
