----------------------------- MODULE ReportLedger -----------------------------
(***************************************************************************)
(* What a run of the suite promises whoever reads its report: a verdict     *)
(* that was recorded stands, the coverage check at the end fails exactly    *)
(* the skips nobody allowed, and the exit code is given once, after the     *)
(* last row, and says whether a row failed.                                 *)
(***************************************************************************)
CONSTANTS
    Enforce,    \* skips have to be allowed
    Allowed     \* the keys whose skip is

VARIABLES
    rows,       \* the verdict of every key that has one
    code        \* none, zero, one

vars == <<rows, code>>

Failed == \E k \in DOMAIN rows : rows[k] \in {"FAIL", "ERROR"}
Charged == {k \in DOMAIN rows : Enforce /\ rows[k] = "SKIP" /\ k \notin Allowed}

Init == rows = [k \in {} |-> "SKIP"] /\ code = "none"

\* New keys get a verdict, the others keep theirs.
Record ==
    /\ code = "none"
    /\ DOMAIN rows \subseteq DOMAIN rows'
    /\ \A k \in DOMAIN rows : rows'[k] = rows[k]
    /\ UNCHANGED code

\* The run is over, and the skips are charged.
Close ==
    /\ code = "none"
    /\ rows' = [k \in DOMAIN rows |-> IF k \in Charged THEN "FAIL" ELSE rows[k]]
    /\ code' = IF Failed' THEN "one" ELSE "zero"

\* The run ends in error: before its first row, or with a row that says so.
Abort ==
    /\ code = "none"
    /\ DOMAIN rows = {} \/ Failed
    /\ code' = "one"
    /\ UNCHANGED rows

Next == Record \/ Close \/ Abort

Spec == Init /\ [][Next]_vars
=============================================================================
