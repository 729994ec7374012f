------------------------------ MODULE BoundWorker ------------------------------
(***************************************************************************)
(* What a worker promises the runner about binds: the requests that follow  *)
(* one are carried out by the pair it selected or by none, and the status   *)
(* says which.                                                              *)
(***************************************************************************)
CONSTANTS
    Pairs,      \* the (type, format) pairs a bind may name
    Works,      \* serialize, deserialize
    Can,        \* per direction, the pairs it is registered for
    Nil         \* no pair

VARIABLES
    selected,   \* the pair later requests operate on, or Nil
    answer      \* to the last request: [op, status, ran]

vars == <<selected, answer>>

Answer(op, status, ran) == answer' = [op |-> op, status |-> status, ran |-> ran]
Supported(p) == \E op \in Works : p \in Can[op]

Init == selected = Nil /\ answer = [op |-> "none", status |-> "none", ran |-> Nil]

\* A bind that is accepted selects its pair, one that is not supported clears the
\* selection, and one in error leaves it alone.
Select(p) == Answer("bind", "OK", Nil) /\ selected' = IF Supported(p) THEN p ELSE Nil
Clear == Answer("bind", "SKIPPED", Nil) /\ selected' = Nil
Refuse == Answer("bind", "ERROR", Nil) /\ UNCHANGED selected

\* The selected pair answers, or fails.
Work(op) ==
    /\ selected # Nil /\ selected \in Can[op]
    /\ Answer(op, "OK", selected) \/ Answer(op, "ERROR", Nil)
    /\ UNCHANGED selected

\* A direction the selected pair does not have is skipped.
Skip(op) ==
    /\ selected # Nil /\ selected \notin Can[op]
    /\ Answer(op, "SKIPPED", Nil)
    /\ UNCHANGED selected

\* Without a bind nothing works.
Idle(op) ==
    /\ selected = Nil
    /\ Answer(op, "ERROR", Nil)
    /\ UNCHANGED selected

\* A ping, an unknown operation, a line that is not a request.
Other ==
    /\ \/ Answer("ping", "OK", Nil) \/ Answer("other", "ERROR", Nil)
       \/ Answer("none", "none", Nil)
    /\ UNCHANGED selected

Next ==
    \/ \E p \in Pairs : Select(p)
    \/ Clear \/ Refuse \/ Other
    \/ \E op \in Works : Work(op) \/ Skip(op) \/ Idle(op)

Spec == Init /\ [][Next]_vars
=============================================================================
