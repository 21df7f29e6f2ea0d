SPECIFICATION FairSpec
CONSTANTS
    u1 = u1
    u2 = u2
    g1 = g1
    g2 = g2
    r1 = r1
    r2 = r2
    r3 = r3
    None = None
    Users = {u1}
    Guilds = {g1}
    Roles = {r1}
    RoleGuild <- OneRole
    Loops = {"loop"}
    Slots = {"cmd"}
    Starts = {8}
    Ops = {"set", "setRole"}
    Lapses = {"overlap"}
    In2021 = FALSE
    MonthToDays <- EvenYear
    HoursPerDay = 2
PROPERTIES
    BirthdayIsCelebrated
