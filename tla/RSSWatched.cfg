CONSTANTS
    f1 = f1
    f2 = f2
    film = film
    meta = meta
    rssLink = rssLink
    None = None
    Feeds <- MCFeeds
    Items <- MCItems
    FeedOf <- MCFeedOf
    Kind <- MCKind
    Copies = 3
    MaxActive = 1
    MaxRequests = 2
    MaxValue = 3
    Worlds <- WatchedWorlds
SPECIFICATION Spec
PROPERTIES WatchedWasCounted
CHECK_DEADLOCK FALSE
