------------------------------- MODULE Requests -------------------------------
(***************************************************************************)
(* What FAsyncDownload promises to the receiver of a download (the alert   *)
(* callback of LiberTV/FAsyncHttpDownload.h), while nobody pauses, resumes *)
(* or stops what a worker has not caught up with: one answer at most, none *)
(* while it is paused, and E_ABORT only for a download that was stopped or *)
(* when the program stops.  AsyncDownload implements this.                 *)
(***************************************************************************)
CONSTANTS Downloads, Results, None

VARIABLES
    state,    \* of each request
    answer,   \* what its receiver was told
    asked,    \* the requests somebody wants to be stopped
    shut      \* the program stops

vars == <<state, answer, asked, shut>>

Init ==
    /\ state = [d \in Downloads |-> "new"]
    /\ answer = [d \in Downloads |-> None]
    /\ asked = {}
    /\ shut = FALSE

(* Also when the program stops: the callers do not wait for each other.      *)
Start(d) ==
    /\ state[d] = "new"
    /\ state' = [state EXCEPT ![d] = "running"]
    /\ UNCHANGED <<answer, asked, shut>>

Pause(d) ==
    /\ state[d] = "running"
    /\ ~shut
    /\ state' = [state EXCEPT ![d] = "paused"]
    /\ UNCHANGED <<answer, asked, shut>>

(* A download that is resumed is no longer to be stopped.                    *)
Resume(d) ==
    /\ state[d] = "paused"
    /\ ~shut
    /\ state' = [state EXCEPT ![d] = "running"]
    /\ asked' = asked \ {d}
    /\ UNCHANGED <<answer, shut>>

(* The call may come when the answer is on its way.                          *)
Stop(d) ==
    /\ state[d] \in {"running", "answered"}
    /\ asked' = asked \cup {d}
    /\ UNCHANGED <<state, answer, shut>>

Answer(d, result) ==
    /\ state[d] = "running"
    /\ result = "E_ABORT" => d \in asked \/ shut
    /\ state' = [state EXCEPT ![d] = "answered"]
    /\ answer' = [answer EXCEPT ![d] = result]
    /\ UNCHANGED <<asked, shut>>

(* The program stops: the paused requests are answered, no worker will.      *)
Shut ==
    /\ ~shut
    /\ shut' = TRUE
    /\ state' = [d \in Downloads |-> IF state[d] = "paused" THEN "answered" ELSE state[d]]
    /\ answer' = [d \in Downloads |-> IF state[d] = "paused" THEN "E_ABORT" ELSE answer[d]]
    /\ UNCHANGED asked

(* Those that run then may be dropped, all at once.                          *)
Drop ==
    /\ shut
    /\ state' = [d \in Downloads |-> IF state[d] = "running" THEN "dropped" ELSE state[d]]
    /\ UNCHANGED <<answer, asked, shut>>

Next ==
    \/ \E d \in Downloads :
          \/ Start(d) \/ Pause(d) \/ Resume(d) \/ Stop(d)
          \/ \E result \in Results : Answer(d, result)
    \/ Shut \/ Drop

Spec == Init /\ [][Next]_vars
=============================================================================
