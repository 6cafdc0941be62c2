\* Each property under the liberties it can bear: clips that are refused, gone, moved
\* or of another kind, a full disk, deletions of all kinds, lost and reordered alerts.
CONSTANTS
    clip = clip
    other = other
    torrent = torrent
    list = list
    stream = stream
    Videos <- VideosDef
    ClipCount <- ClipCountDef
    ClipType <- ClipTypeDef
    Playlists <- PlaylistsDef
    Worlds <- FaultWorlds
    MaxDownloads = 1
    MaxAlerts = 8
SPECIFICATION Spec
INVARIANTS QueueAgrees SlotsCounted NothingForgotten DeletedIsErased
PROPERTIES KeptUntilDeleted TorrentFoundWhenFinished
CHECK_DEADLOCK FALSE
