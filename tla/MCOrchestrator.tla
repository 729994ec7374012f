---------------------------- MODULE MCOrchestrator ----------------------------
(* Small suites for Orchestrator: the reference and one or two other workers. *)
EXTENDS Orchestrator

CONSTANTS ref, w1

BytesGroup == <<[type |-> "T", oracle |-> "bytes"]>>
TwoGroups == <<[type |-> "T", oracle |-> "bytes"], [type |-> "U", oracle |-> "semantic"]>>

OneCase == <<"a">>
TwoCases == <<"a", "b">>
KnownA == {<<w1, 1, "a">>, <<w1, 2, "a">>}
RefSkipsU == {<<ref, "U">>}
SkipsDeserialize == {<<w1, "deserialize", "T">>}

Plain(k, v) == [kind |-> k, value |-> v, audit |-> FALSE]
OkReplies == {Plain("ok", "good"), Plain("ok", "other")}
SuiteReplies == OkReplies \cup {Plain(k, "empty") : k \in {"skipped", "error", "fatal"}}
MatrixReplies == OkReplies \cup {Plain(k, "empty") : k \in {"ok", "fatal"}}
                 \cup {[kind |-> "ok", value |-> "good", audit |-> TRUE]}
=============================================================================
