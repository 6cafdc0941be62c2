------------------------------ MODULE MCUpdater ------------------------------
(* Instances of Updater.  Version 3 is longer than 2 and 4: half of it has   *)
(* their size.                                                               *)
EXTENDS Updater

MCSize == <<1, 2, 3, 2>>
==============================================================================
