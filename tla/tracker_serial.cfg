SPECIFICATION FairSpec
CONSTANTS
    u1 = u1
    u2 = u2
    g1 = g1
    g2 = g2
    r1 = r1
    r2 = r2
    r3 = r3
    None = None
    Users = {u1}
    Guilds = {g1, g2}
    Roles = {r1, r2, r3}
    RoleGuild <- MCRoleGuild
    Loops = {"loop"}
    Slots = {"cmd"}
    Starts = {0, 4}
    Ops = {"set", "override", "remove", "setRole", "removeRole", "getRole", "deleteRole"}
    Lapses = {"override", "otherGuild", "replaceRole"}
    In2021 = FALSE
    MonthToDays <- EvenYear
    HoursPerDay = 2
INVARIANTS
    RowsOnlyOnBirthday
PROPERTIES
    UpdateGivesRoles
    BirthdayIsCelebrated
