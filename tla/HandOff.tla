------------------------------- MODULE HandOff -------------------------------
(***************************************************************************)
(* What FFastSyncSemaStack (common/FTemplates.h) promises to the threads   *)
(* that share it: nothing it took is lost or doubled, the item put last is *)
(* taken first, and a taker comes away empty only as often as an item was  *)
(* refused or forgotten before.  SemaStack implements this.                *)
(***************************************************************************)
EXTENDS Integers, Sequences

CONSTANTS Items,     \* values handed over
          Capacity   \* SetSize(nSize)

VARIABLES
    box,   \* items put and not taken, the one put last at the end
    owed,  \* takers that will come away empty
    open   \* somebody is there to take

vars == <<box, owed, open>>

Init ==
    /\ box = <<>>
    /\ owed = 0
    /\ open \in BOOLEAN

(* An item is taken in, as long as there is room.                            *)
Put(v) ==
    /\ Len(box) < Capacity
    /\ box' = Append(box, v)
    /\ UNCHANGED <<owed, open>>

(* A full box refuses the item; whoever was called for it is called still.   *)
Refuse ==
    /\ Len(box) = Capacity
    /\ owed' = owed + 1
    /\ UNCHANGED <<box, open>>

(* A taker gets the item put last.                                           *)
Take ==
    /\ open
    /\ box # <<>>
    /\ box' = SubSeq(box, 1, Len(box) - 1)
    /\ UNCHANGED <<owed, open>>

(* A taker comes away empty, or a call too many is not counted.              *)
Settle ==
    /\ owed > 0
    /\ owed' = owed - 1
    /\ UNCHANGED <<box, open>>

(* All items are forgotten at once, the calls for them are not.              *)
Forget ==
    /\ box' = <<>>
    /\ owed' = owed + Len(box)
    /\ UNCHANGED open

(* The last taker leaves, and none comes back.                               *)
Close ==
    /\ open
    /\ open' = FALSE
    /\ UNCHANGED <<box, owed>>

Next ==
    \/ \E v \in Items : Put(v)
    \/ Refuse \/ Take \/ Settle \/ Forget \/ Close

Spec == Init /\ [][Next]_vars
=============================================================================
