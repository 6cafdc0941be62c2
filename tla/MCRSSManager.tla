---------------------------- MODULE MCRSSManager ----------------------------
(* Instances of RSSManager.                                                *)
EXTENDS RSSManager

CONSTANTS f1, f2, film, meta, rssLink

MCFeeds  == {f1, f2}
MCItems  == {film, meta, rssLink}
MCFeedOf == film :> f1 @@ meta :> f1 @@ rssLink :> f2
MCKind   == film :> "media" @@ meta :> "mtti" @@ rssLink :> "feed"

W(known, items, ops, fails, starts, may) ==
    [known |-> known, items |-> items, ops |-> ops, fails |-> fails, starts |-> starts,
     may |-> may]

Both == {film, meta}

CoreWorlds == {
    W({f1, f2}, {rssLink}, 2, 0, 0, {"feeds"}),
    W({f1}, {}, 3, 0, 0, {"feeds", "unsaved"}),
    W({}, {film}, 2, 0, 0, {"feeds", "views"}),
    W({f1}, {film}, 1, 0, 0, {"feeds", "views"}),
    W({f1}, Both, 2, 0, 1, {"watch", "delete", "crash"}),
    W({f1}, {film}, 2, 0, 1, {"twice", "views"}),
    W({f1}, Both, 2, 0, 0, {"watch", "delete", "watched", "late"}),
    W({f1}, Both, 1, 1, 0, {"views", "ids"}),
    W({f1}, Both, 1, 0, 1, {"views", "cancel", "crash"}),
    W({f1}, Both, 1, 0, 1, {"views", "delete"})}

WatchedWorlds == {W({f1}, Both, 1, 0, 0, {"watch", "watched"})}
ReturnsWorlds == {W({f1}, Both, 1, 0, 1, {"delete"})}
==============================================================================
