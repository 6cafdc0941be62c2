\* Two clips compete for a session of one torrent; one clip is paused again and again.
CONSTANTS
    file = file
    t1 = t1
    t2 = t2
    None = None
    Files <- OneFile
    Torrents <- TwoTorrents
    Worlds <- CoreWorlds
    MaxTorrents = 1
    HttpCapacity = 8
    MaxAdds = 2
SPECIFICATION FairSpec
INVARIANTS TypeOK OnePlace PauseAgrees SilentAfterRemoval
PROPERTIES LimitYieldsToDownloads EveryClipEnds
CHECK_DEADLOCK FALSE
