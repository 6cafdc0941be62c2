\* A clip, a torrent and a playlist compete for one slot; clips fail or are missing
\* on the server.
CONSTANTS
    clip = clip
    other = other
    torrent = torrent
    list = list
    stream = stream
    Videos <- ThreeVideos
    ClipCount <- ClipCountDef
    ClipType <- ClipTypeDef
    Playlists <- PlaylistsDef
    Worlds <- CoreWorlds
    MaxDownloads = 1
    MaxAlerts = 8
SPECIFICATION FairSpec
INVARIANTS TypeOK WorkConserving
PROPERTIES ClipLeftToQueue QueuedGetSlots
CHECK_DEADLOCK FALSE
