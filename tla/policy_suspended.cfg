CONSTANTS
    imsi1 = imsi1  imsi2 = imsi2  ip1 = ip1  ip2 = ip2  sh1 = sh1  sh2 = sh2
    radius1 = radius1  gx1 = gx1  gx2 = gx2
    Imsis = {imsi1, imsi2}
    NoImsi = NoImsi
    Ips = {ip1, ip2}
    Shards = {sh1, sh2}
    Shard <- OwnShard
    Defaults <- Profiles
    Bootstrap <- First
    Boot = Boot
    Calls = {radius1, gx1, gx2}
    Direct = {radius1}
    Offer <- Requests
    Media = {m1}
    Changes <- Stores
    MaxStores = 2
SPECIFICATION Spec
CHECK_DEADLOCK FALSE
INVARIANT SuspendedIsBlocked
