SPECIFICATION FairSpec
CONSTANTS
    m1 = m1
    m2 = m2
    m3 = m3
    g1 = g1
    g2 = g2
    Messages = {m1, m2, m3}
    Guilds = {g1, g2}
    GuildOf <- MCGuildOf
    Posted = {m1, m3}
    ImagesOf <- MCImagesOf
    Exempt = {m2}
    Bots = {}
    StaffGuild = g2
    Slots = {"ban"}
    Servers = {g1}
    RecordingsOf <- MCRecordingsOf
    Links = {m2}
    TotalMaxSize = 3
    AttachmentLimit = 8
    Readies = {"ready"}
    NoCache = NoCache
INVARIANTS
    TypeOK
    CacheFollowsTable
    AnnouncedSizesAreBounded
PROPERTIES
    OnlyBannedImagesArePunished
    BannedImagesArePunished
    ConvertedWhereEnabled
    HandlersEnd
