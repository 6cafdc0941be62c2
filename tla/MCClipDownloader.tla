--------------------------- MODULE MCClipDownloader ---------------------------
(* Model values for the checks of ClipDownloader: two torrents that compete, *)
(* with a pause, or one of them complete; a file and a torrent that cannot   *)
(* be loaded; one clip that is paused and resumed again and again.           *)
EXTENDS ClipDownloader

CONSTANTS file, t1, t2

OneFile      == {file}
TwoTorrents  == {t1, t2}

W(cs, bad, have, n, m) ==
    [clips |-> cs, unreadable |-> bad, stored |-> have, adds |-> n, calls |-> m]

CoreWorlds == {W({t1, t2}, {}, {}, 2, 1), W({t1, t2}, {}, {t1}, 2, 0),
               W({file, t2}, {t2}, {}, 2, 0), W({t1}, {}, {t1}, 1, 3),
               W({file}, {}, {}, 1, 4)}
=============================================================================
