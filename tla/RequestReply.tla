----------------------------- MODULE RequestReply -----------------------------
(***************************************************************************)
(* What a Worker promises the orchestrator, whatever the child process     *)
(* does: calls go out one at a time, a call is answered only by work the   *)
(* process really did for it, and once the session is given up no call     *)
(* reaches the process any more.                                           *)
(***************************************************************************)
CONSTANT Calls

VARIABLES
    status,  \* per call: new, open, answered, failed
    served,  \* the calls the process has handled
    usable   \* the session has not been given up

vars == <<status, served, usable>>

Init ==
    /\ status = [c \in Calls |-> "new"]
    /\ served = {}
    /\ usable = TRUE

\* A call goes out when no other is under way.
Open(c) ==
    /\ usable
    /\ status[c] = "new"
    /\ \A d \in Calls : status[d] # "open"
    /\ status' = [status EXCEPT ![c] = "open"]
    /\ UNCHANGED <<served, usable>>

\* After the session was given up a call fails without reaching the process.
Refuse(c) ==
    /\ ~usable
    /\ status[c] = "new"
    /\ status' = [status EXCEPT ![c] = "failed"]
    /\ UNCHANGED <<served, usable>>

\* The process handles a call that went out, possibly long after it failed.
Serve(c) ==
    /\ status[c] # "new"
    /\ served' = served \cup {c}
    /\ UNCHANGED <<status, usable>>

\* Only a call the process handled is answered, and only while it is usable.
Answer(c) ==
    /\ usable
    /\ status[c] = "open"
    /\ c \in served
    /\ status' = [status EXCEPT ![c] = "answered"]
    /\ UNCHANGED <<served, usable>>

\* A call fails, and may take the session with it.
Fail(c) ==
    /\ status[c] = "open"
    /\ status' = [status EXCEPT ![c] = "failed"]
    /\ usable' \in {usable, FALSE}
    /\ UNCHANGED served

Close ==
    /\ usable
    /\ \A d \in Calls : status[d] # "open"
    /\ usable' = FALSE
    /\ UNCHANGED <<status, served>>

Next ==
    \/ \E c \in Calls : Open(c) \/ Refuse(c) \/ Serve(c) \/ Answer(c) \/ Fail(c)
    \/ Close

Spec == Init /\ [][Next]_vars
=============================================================================
