--------------------------- MODULE MCAsyncDownload ---------------------------
(* Model values and worlds for the checks of AsyncDownload.                  *)
EXTENDS AsyncDownload

CONSTANTS d1, d2

Two == {d1, d2}

W(chained, late, calm, times) ==
    [chained |-> chained, late |-> late, calm |-> calm, pauses |-> times]

CoreWorlds    == {W({d2}, TRUE, FALSE, 1), W({}, FALSE, FALSE, 1),
                  W({}, FALSE, TRUE, 2), W({}, TRUE, TRUE, 1)}
HastyWorlds   == {W({}, FALSE, FALSE, 1)}
ChainedWorlds == {W({d2}, FALSE, TRUE, 0)}
=============================================================================
