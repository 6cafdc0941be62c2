---------------------------- MODULE MCDownloadMgr ----------------------------
(* Model values and worlds for the checks of DownloadMgr: clips over HTTP, a *)
(* torrent, a playlist of two clips, a stream.                               *)
EXTENDS DownloadMgr, TLC

CONSTANTS clip, other, torrent, list, stream

VideosDef    == {clip, other, torrent, list, stream}
ThreeVideos  == {clip, torrent, list}
ClipCountDef == [v \in Videos |-> IF v = list THEN 2 ELSE 1]
ClipTypeDef  == [v \in Videos |-> IF v = torrent THEN "torrent"
                                    ELSE IF v = stream THEN "stream" ELSE "http"]
PlaylistsDef == {list} \cap Videos

New          == {{}}
NewOrPaused  == {{}, {"PAUSED"}}
Stored       == SUBSET {"FINISHED", "PAUSED"}

Of(videos, may, stored, failures, calling) ==
    [videos |-> videos, bittorrent |-> {}, may |-> may, stored |-> stored,
     fails |-> failures, ops |-> calling]

(* The clip turns out to be a torrent file.                                  *)
Disguised(w) == [w EXCEPT !.bittorrent = {clip}]

CoreWorlds ==
    {Of({clip, torrent, list}, {"gone"}, New, 1, 2),
     Of({clip, torrent}, {}, NewOrPaused, 1, 2)}

(* For each property the liberties under which it holds.                     *)
Refusing  == {"gone", "refuse", "disk"}
Failing   == {"pause-failed", "gone", "disk", "crash", "last-fails"}
Removing  == {"remove-paused", "remove-again", "gone", "refuse", "disk", "rotate"}
Deleting  == {"remove-paused", "remove-again", "pause-failed", "gone", "disk", "rotate",
              "abort", "crash", "last-fails", "moved"}
Anything  == AllLiberties \ {"add-again", "stale-start"}

FaultWorlds == CoreWorlds \cup
    {Of({clip, list}, Refusing, Stored, 2, 3),
     Of({clip, list}, Failing, Stored, 1, 3),
     Disguised(Of({clip, stream}, Failing, Stored, 2, 3)),
     Of({clip, torrent}, Removing, Stored, 1, 3),
     Of({clip, list}, Removing, Stored, 1, 3),
     Of({clip, torrent}, Deleting, Stored, 1, 2),
     Of({clip, torrent}, Anything, NewOrPaused, 1, 2)}

IgnoredWorlds == {Disguised(Of({clip, other}, {}, New, 0, 0))}
=============================================================================
