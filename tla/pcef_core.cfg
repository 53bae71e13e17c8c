CONSTANTS
    s1 = s1  s2 = s2  ip1 = ip1  ip2 = ip2  imsi1 = imsi1  imsi2 = imsi2
    sh1 = sh1  sh2 = sh2
    youtube = youtube  other = other
    Streams = {s1, s2}
    Ips = {ip1, ip2}
    Imsis = {imsi1, imsi2}
    NoImsi = NoImsi
    Bootstrap <- OneSession
    Shards = {sh1, sh2}
    Shard <- OwnShard
    Accounts = {imsi1}
    InitialBalance <- Balances
    Frames <- AllFrames
    Wrap = 16
    Dpi <- Signatures
    MaxFrames = 2
    MaxSessions = 2
    Bounds = {1, 5, 9}
    Values <- EngineValues
    Flags = {"small", "heavy"}
    NoFlag = "none"
    Masks <- RuleMasks
    Actions = {10, 50, 100}
    NoAction = 0
    MaxRanges = 4
SPECIFICATION CoreSpec
CHECK_DEADLOCK FALSE
INVARIANT OverdraftBound
INVARIANT FramesAccounted
INVARIANT VerdictOfARule
INVARIANT RangesFound
PROPERTY ShardIsolation
