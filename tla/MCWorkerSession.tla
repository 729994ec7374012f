--------------------------- MODULE MCWorkerSession ---------------------------
(* Small instances of WorkerSession: calls are named after their op, and the *)
(* serialize and deserialize rounds of a case share its id.                  *)
EXTENDS WorkerSession

CONSTANTS ping, bind1, bind2, ser, des, mat

\* Op and id of every call any instance uses.
OpTable ==
    [c \in Calls |-> CASE c = ping -> "ping"
                       [] c \in {bind1, bind2} -> "bind"
                       [] c = ser -> "serialize"
                       [] OTHER -> "deserialize"]

IdTable ==
    [c \in Calls |-> CASE c \in {ser, des} -> "case"
                       [] c = mat -> "case/matrix"
                       [] OTHER -> NoId]
=============================================================================
