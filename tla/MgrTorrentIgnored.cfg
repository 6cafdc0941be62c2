\* A clip turns out to be a torrent file.
CONSTANTS
    clip = clip
    other = other
    torrent = torrent
    list = list
    stream = stream
    Videos <- VideosDef
    ClipCount <- ClipCountDef
    ClipType <- ClipTypeDef
    Playlists <- PlaylistsDef
    Worlds <- IgnoredWorlds
    MaxDownloads = 1
    MaxAlerts = 8
SPECIFICATION Spec
PROPERTIES IgnoredWhenFinished
CHECK_DEADLOCK FALSE
