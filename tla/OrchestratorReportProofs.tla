----------------------- MODULE OrchestratorReportProofs -----------------------
(* The rows of a run, for every suite whose case names are distinct: which are *)
(* there at each point of it, and what the report makes of them.               *)
EXTENDS OrchestratorMatchProofs

InGroup == {"case", "ser", "compare", "des", "matrix"}
RoundKeys == (DOMAIN Groups) \X Names \X Langs \X Rounds

\* The keys of the current group that are settled because the worker is not bound.
Away(k, ls) == k[1] = g /\ k[4] # "matrix" /\ k[3] \notin ls

\* The keys whose row the run has had reason to write.
Due(k) ==
    \/ stage \in {"finish", "done"}
    \/ stage = "bind" /\ (k[1] < g \/ Away(k, sub \cup todo))
    \/ stage \in InGroup /\ (Past(k) \/ Away(k, sub))
    \/ /\ stage = "ser" /\ Now(k) /\ k[3] \in sub \ todo
       /\ \/ k[4] = "audit-serialize"
          \/ k[4] = "serialize" /\ (k[3] = Ref \/ hex[k[3]] = "none")
    \/ /\ stage = "compare" /\ Now(k)
       /\ k[4] = "audit-serialize" \/ (k[4] = "serialize" /\ k[3] \notin todo)
    \/ /\ stage = "des" /\ Now(k)
       /\ \/ k[4] \in {"serialize", "audit-serialize"}
          \/ k[4] \in {"deserialize", "audit-deserialize"} /\ k[3] \notin todo
    \/ stage = "matrix" /\ Now(k) /\ (k[4] # "matrix" \/ k[3] \notin todo)

\* No row comes early, and in a run nobody interrupts no row of the two rounds is
\* missing.
RowsInv ==
    /\ \A k \in DOMAIN results : Due(k)
    /\ MayCancel \/ exit = "one" \/ \A k \in RoundKeys : Due(k) => k \in DOMAIN results

\* What was recorded stays.
Kept == \A k \in DOMAIN results : k \in DOMAIN results' /\ results'[k] = results[k]

\* Failures is what a reader of Results would count.
FailInv == failures = {k \in DOMAIN results : results[k] \in {"FAIL", "ERROR"}}

\* Rows written when they fall due keep the invariants and what was recorded.
LEMMA Written ==
    ASSUME RowsInv, FailInv, NEW rows, Add(rows), DOMAIN rows \subseteq Keys, exit' = exit,
           DOMAIN results \subseteq Keys, RoundKeys \subseteq Keys,
           \A k \in Keys : Due(k) => Due(k)',
           \A k \in DOMAIN rows : ~Due(k) /\ Due(k)',
           MayCancel \/ \A k \in RoundKeys : Due(k)' => Due(k) \/ k \in DOMAIN rows
    PROVE  RowsInv' /\ FailInv' /\ Kept
<1>1. /\ DOMAIN results' = DOMAIN rows \cup DOMAIN results
      /\ \A k \in DOMAIN rows : results'[k] = rows[k]
      /\ \A k \in DOMAIN results \ DOMAIN rows : results'[k] = results[k]
      /\ failures' = failures \cup {k \in DOMAIN rows : rows[k] \in {"FAIL", "ERROR"}}
  BY AddRows
<1>2. DOMAIN rows \cap DOMAIN results = {}
  BY DEF RowsInv
<1>3. Kept
  BY <1>1, <1>2 DEF Kept
<1>4. FailInv'
  BY <1>1, <1>2 DEF FailInv
<1>5. \A k \in DOMAIN results' : Due(k)'
  BY <1>1 DEF RowsInv
<1>6. (MayCancel \/ exit = "one" \/ \A k \in RoundKeys : Due(k) => k \in DOMAIN results)'
  BY <1>1 DEF RowsInv, RoundKeys
<1> QED
  BY <1>3, <1>4, <1>5, <1>6 DEF RowsInv

\* So does a step that writes nothing when nothing falls due.
LEMMA NotWritten ==
    ASSUME RowsInv, FailInv, UNCHANGED <<results, failures>>, exit' = exit,
           DOMAIN results \subseteq Keys, RoundKeys \subseteq Keys,
           \A k \in Keys : Due(k) => Due(k)',
           MayCancel \/ \A k \in RoundKeys : Due(k)' => Due(k)
    PROVE  RowsInv' /\ FailInv' /\ Kept
<1>1. (MayCancel \/ exit = "one" \/ \A k \in RoundKeys : Due(k) => k \in DOMAIN results)'
  BY DEF RowsInv, RoundKeys
<1>2. \A k \in DOMAIN results' : Due(k)'
  BY DEF RowsInv
<1> QED
  BY <1>1, <1>2 DEF RowsInv, FailInv, Kept

\* The keys of the two rounds are keys of the suite.
LEMMA RoundKeysType == RoundKeys \subseteq Keys
  BY DEF RoundKeys, Keys, Rounds

\* What is past after a case is what was past, and the case.
LEMMA PastGrows ==
    ASSUME ControlOK, NextCase, NEW k \in Keys, k[2] \in Names
    PROVE  /\ stage' \in {"bind", "case", "finish"}
           /\ stage' = "case" => (Past(k)' <=> Past(k) \/ Now(k)) /\ g' = g /\ sub' = sub
           /\ stage' # "case" => (k[1] <= g => Past(k) \/ Now(k))
           /\ stage' = "bind" => g' = g + 1 /\ todo' = Langs /\ sub' = {}
           /\ stage' = "finish" => k[1] <= g
<1> USE KeyParts, Indices DEF ControlOK
<1>1. PICK m \in DOMAIN CaseNames : k[2] = CaseNames[m]
  BY DEF Names
<1>2. CASE i < Len(CaseNames)
  <2>1. stage' = "case" /\ i' = i + 1 /\ g' = g /\ sub' = sub
    BY <1>2 DEF NextCase
  <2>2. Past(k)' <=> Past(k) \/ Now(k)
    BY <2>1 DEF Past, Now, Case
  <2> QED
    BY <2>1, <2>2
<1>3. CASE ~(i < Len(CaseNames))
  <2>1. NextGroup /\ i = Len(CaseNames)
    BY <1>3 DEF NextCase
  <2>2. k[1] <= g => Past(k) \/ Now(k)
    BY <1>1, <2>1 DEF Past, Now, Case
  <2> QED
    BY <2>1, <2>2 DEF NextGroup
<1> QED
  BY <1>2, <1>3

-----------------------------------------------------------------------------
(* Every step keeps it.  A row is written once, but for the coverage check.   *)

\* How a case ends, with rows or without: what they leave due.
LEMMA CaseEnds ==
    ASSUME TypeOK, Flow, stage \in InGroup, NextCase, NEW keys, keys \subseteq Keys,
           \A k \in keys : Now(k) /\ k[2] \in Names,
           \A k \in Keys : Due(k) => Past(k) \/ Now(k) \/ Away(k, sub),
           \A k \in RoundKeys : Now(k) /\ k[3] \in sub => Due(k) \/ k \in keys
    PROVE  /\ \A k \in Keys : Due(k) => Due(k)'
           /\ \A k \in keys : Due(k)'
           /\ \A k \in RoundKeys : Due(k)' => Due(k) \/ k \in keys
<1>1. ControlOK
  BY TypeParts
<1>2. \A k \in Keys : k[2] \in Names /\ k[1] \in Nat
  BY Indices DEF Keys
<1>3. stage \notin {"bind", "start", "finish", "done"} /\ g \in Nat
  BY <1>1, Indices DEF InGroup, ControlOK
<1>4. ASSUME NEW k \in Keys, Past(k) \/ Now(k) \/ Away(k, sub) PROVE Due(k)'
  <2>1. k[1] <= g
    BY <1>2, <1>3, <1>4 DEF Past, Now, Away
  <2>2. CASE stage' = "case"
    BY <1>1, <1>2, <1>4, <2>2, PastGrows DEF Due, Away, InGroup
  <2>3. CASE stage' = "bind"
    BY <1>1, <1>2, <1>3, <2>1, <2>3, PastGrows DEF Due
  <2>4. CASE stage' = "finish"
    BY <2>4 DEF Due
  <2> QED
    BY <1>1, <1>2, <2>2, <2>3, <2>4, PastGrows
<1>5. ASSUME NEW k \in RoundKeys, Due(k)' PROVE Due(k) \/ k \in keys
  <2>1. k \in Keys /\ k[3] \in Langs /\ k[4] # "matrix"
    BY RoundKeysType DEF RoundKeys, Rounds
  <2>2. Past(k) \/ Now(k) \/ Away(k, sub)
    <3>1. CASE stage' = "case"
      BY <1>1, <1>2, <1>5, <2>1, <3>1, PastGrows DEF Due, Away, InGroup
    <3>2. CASE stage' = "bind"
      BY <1>1, <1>2, <1>3, <1>5, <2>1, <3>2, PastGrows DEF Due, Away, InGroup
    <3>3. CASE stage' = "finish"
      BY <1>1, <1>2, <2>1, <3>3, PastGrows
    <3> QED
      BY <1>1, <1>2, <2>1, <3>1, <3>2, <3>3, PastGrows
  <2>3. CASE Past(k) \/ Away(k, sub)
    BY <2>3 DEF Due
  <2>4. CASE Now(k) /\ ~Away(k, sub)
    <3>1. k[3] \in sub
      BY <2>1, <2>4 DEF Now, Away
    <3> QED
      BY <2>4, <3>1
  <2> QED
    BY <2>2, <2>3, <2>4
<1> QED
  BY <1>4, <1>5

\* The keys of one worker in the group, which markType writes.
LEMMA TypeRowsDom ==
    ASSUME NEW ls, NEW s
    PROVE  DOMAIN TypeRows(ls, s) = {<<g, n, l, op>> : n \in Names, l \in ls, op \in Rounds}
  BY DEF TypeRows, Rows

\* No rows have no keys.
LEMMA NoRowsDom == DOMAIN NoRows = {}
  BY DEF NoRows, Rows

RowsStep == RowsInv' /\ FailInv' /\ Kept

\* A worker that is not bound has the rows of the group written for it.
LEMMA BindRows ==
    ASSUME TypeOK, Flow, RowsInv, FailInv, NEW l \in Langs, NEW r, Bind(l, r)
    PROVE  RowsStep
<1>1. /\ ControlOK /\ DOMAIN results \subseteq Keys /\ stage = "bind" /\ l \in todo /\ l \notin sub
      /\ UNCHANGED <<stage, g, exit>> /\ todo' = todo \ {l}
  BY TypeParts DEF Flow, Bind, ReportOK, endVars
<1>2. CASE sub' = sub \cup {l} /\ Add(NoRows)
  <2>1. \A k : Due(k)' <=> Due(k)
    BY <1>1, <1>2 DEF Due, Away, InGroup
  <2> QED
    BY <1>1, <1>2, <2>1, RoundKeysType, NoRowsDom, Written DEF RowsStep
<1>3. ASSUME NEW s, Add(TypeRows({l}, s)), sub' = sub PROVE RowsStep
  <2> DEFINE keys == {<<g, n, m, op>> : n \in Names, m \in {l}, op \in Rounds}
  <2>1. DOMAIN TypeRows({l}, s) = keys
    BY TypeRowsDom
  <2>2. keys \subseteq Keys /\ \A k \in keys : k[1] = g /\ k[3] = l /\ k[4] # "matrix"
    BY <1>1 DEF Keys, Rounds, ControlOK
  <2>3. \A k \in Keys : Due(k) => Due(k)'
    BY <1>1, <1>3 DEF Due, Away, InGroup
  <2>4. \A k \in keys : ~Due(k) /\ Due(k)'
    BY <1>1, <1>3, <2>2, Indices DEF Due, Away, InGroup, ControlOK
  <2>5. ASSUME NEW k \in RoundKeys, Due(k)' PROVE Due(k) \/ k \in keys
    <3>1. Due(k) \/ (k[1] = g /\ k[3] = l)
      BY <1>1, <1>3, <2>5 DEF Due, Away, InGroup
    <3>2. k = <<k[1], k[2], k[3], k[4]>> /\ k[2] \in Names /\ k[4] \in Rounds
      BY DEF RoundKeys
    <3> QED
      BY <3>1, <3>2
  <2> HIDE DEF keys
  <2> QED
    BY <1>1, <1>3, <2>1, <2>2, <2>3, <2>4, <2>5, RoundKeysType, Written DEF RowsStep
<1> QED
  BY <1>2, <1>3 DEF Bind

\* Without the reference the rows of all the others are written.
LEMMA BoundRows ==
    ASSUME TypeOK, Flow, RowsInv, FailInv, Bound
    PROVE  RowsStep
<1>1. /\ ControlOK /\ DOMAIN results \subseteq Keys /\ stage = "bind" /\ todo = {} /\ i = 1
      /\ UNCHANGED exit
  BY TypeParts DEF Flow, Bound, ReportOK, endVars
<1>2. CASE stage' = "case" /\ Add(NoRows) /\ UNCHANGED <<g, i, sub, todo>>
  <2>1. \A k \in Keys : Past(k)' <=> k[1] < g
    BY <1>1, <1>2, Indices DEF Past
  <2>2. \A k \in Keys : Due(k)' <=> Due(k)
    BY <1>1, <1>2, <2>1 DEF Due, Away, InGroup
  <2> QED
    BY <1>1, <1>2, <2>2, RoundKeysType, NoRowsDom, Written DEF RowsStep
<1>3. CASE Add(TypeRows(sub, "CASCADE")) /\ NextGroup
  <2> DEFINE keys == {<<g, n, m, op>> : n \in Names, m \in sub, op \in Rounds}
  <2>1. DOMAIN TypeRows(sub, "CASCADE") = keys
    BY TypeRowsDom
  <2>2. keys \subseteq Keys /\ \A k \in keys : k[1] = g /\ k[3] \in sub
    BY <1>1 DEF Keys, Rounds, ControlOK
  <2>3. \A k \in Keys : k[1] \in Nat /\ k[1] <= Len(Groups) /\ g \in Nat
    BY <1>1, Indices DEF Keys, ControlOK
  <2>4. \A k \in Keys : Due(k) => Due(k)'
    BY <1>1, <1>3, <2>3 DEF Due, Away, InGroup, NextGroup
  <2>5. \A k \in keys : ~Due(k) /\ Due(k)'
    BY <1>1, <1>3, <2>2, <2>3 DEF Due, Away, InGroup, NextGroup
  <2>6. ASSUME NEW k \in RoundKeys, Due(k)' PROVE Due(k) \/ k \in keys
    <3>1. k = <<k[1], k[2], k[3], k[4]>> /\ k[2] \in Names /\ k[3] \in Langs /\ k[4] \in Rounds
          /\ k[1] \in 1..Len(Groups) /\ k[4] # "matrix"
      BY Indices DEF RoundKeys, Rounds
    <3>2. k[1] < g \/ k[1] = g
      BY <1>1, <1>3, <2>6, <3>1, Indices DEF Due, Away, NextGroup, ControlOK, InGroup
    <3>3. Due(k) \/ (k[1] = g /\ k[3] \in sub)
      BY <1>1, <3>1, <3>2 DEF Due, Away, InGroup
    <3> QED
      BY <3>1, <3>3
  <2> HIDE DEF keys
  <2> QED
    BY <1>1, <1>3, <2>1, <2>2, <2>4, <2>5, <2>6, RoundKeysType, Written DEF RowsStep
<1> QED
  BY <1>2, <1>3 DEF Bound

\* A case that cannot be encoded has its rows written at once.
LEMMA StartCaseRows ==
    ASSUME TypeOK, Flow, RowsInv, FailInv, Distinct, StartCase
    PROVE  RowsStep
<1>1. ControlOK /\ DOMAIN results \subseteq Keys /\ stage = "case" /\ UNCHANGED exit
  BY TypeParts DEF StartCase, ReportOK, endVars
<1> DEFINE keys == {Key(l, op) : l \in sub, op \in Rounds}
<1>2. CASE NextCase /\ Add(Rows(keys, "ERROR"))
  <2>1. keys \subseteq Keys /\ \A k \in keys : Now(k) /\ k[3] \in sub /\ k[4] # "matrix" /\ k[2] \in Names
    <3>1. keys \subseteq Keys
      BY <1>1, KeyType DEF ControlOK, Ops, Rounds
    <3>2. Case \in Names
      BY <1>1 DEF ControlOK, Case, Names
    <3> QED
      BY <3>1, <3>2 DEF Key, Now, Rounds
  <2>2. \A k \in Keys : Due(k) => Past(k) \/ Now(k) \/ Away(k, sub)
    BY <1>1 DEF Due
  <2>3. ASSUME NEW k \in RoundKeys, Now(k), k[3] \in sub PROVE k \in keys
    <3>1. k = <<k[1], k[2], k[3], k[4]>> /\ k[4] \in Rounds
      BY DEF RoundKeys
    <3> QED
      BY <2>3, <3>1 DEF Now, Key
  <2>4. \A k \in keys : ~Due(k)
    BY <1>1, <2>1, PastNotNow DEF Due, Away
  <2>5. DOMAIN Rows(keys, "ERROR") = keys
    BY DEF Rows
  <2> HIDE DEF keys
  <2>6. /\ \A k \in Keys : Due(k) => Due(k)'
        /\ \A k \in keys : Due(k)'
        /\ \A k \in RoundKeys : Due(k)' => Due(k) \/ k \in keys
    BY <1>1, <1>2, <2>1, <2>2, <2>3, CaseEnds DEF InGroup
  <2> QED
    BY <1>1, <1>2, <2>1, <2>4, <2>5, <2>6, RoundKeysType, Written DEF RowsStep
<1>3. CASE stage' = "ser" /\ todo' = sub /\ UNCHANGED <<g, i, sub, reportVars>>
  <2>1. \A k \in Keys : Due(k) => Due(k)'
    BY <1>1, <1>3 DEF Due, Past, Away, InGroup
  <2>2. \A k \in RoundKeys : Due(k)' => Due(k)
    BY <1>1, <1>3 DEF Due, Past, Now, Case, Away, InGroup, RoundKeys, Rounds
  <2> QED
    BY <1>1, <1>3, <2>1, <2>2, RoundKeysType, NotWritten DEF RowsStep, reportVars
<1>4. (NextCase /\ Add(Rows(keys, "ERROR")))
      \/ (stage' = "ser" /\ todo' = sub /\ UNCHANGED <<g, i, sub, reportVars>>)
  BY DEF StartCase
<1> QED
  BY <1>2, <1>3, <1>4

\* Round 1 writes the row of the reference and of whoever gave no bytes.
LEMMA SerRecordRows ==
    ASSUME TypeOK, Flow, RowsInv, FailInv, Distinct, NEW l \in Langs, SerRecord(l)
    PROVE  RowsStep
<1> SUFFICES ASSUME NEW own, own = Key(l, "serialize"), NEW aud, aud = Key(l, "audit-serialize")
             PROVE  RowsStep
  OBVIOUS
<1>1. /\ ControlOK /\ DOMAIN results \subseteq Keys /\ stage = "ser" /\ l \in todo /\ l \in sub
      /\ hex[l] = "none" /\ UNCHANGED <<stage, g, i, sub, exit>> /\ todo' = todo \ {l}
  BY TypeParts DEF Flow, SerRecord, Recorded, ReportOK, endVars
<1>2. \A m \in Langs \ {l} : hex'[m] = hex[m]
  BY <1>1 DEF SerRecord, ControlOK
<1>3. own \in Keys /\ aud \in Keys /\ Now(own) /\ Now(aud) /\ own # aud
      /\ own[3] = l /\ aud[3] = l /\ own[4] = "serialize" /\ aud[4] = "audit-serialize"
  BY <1>1, KeyType DEF Ops, Key, Now
<1>4. \A k \in Keys : Due(k) => Due(k)'
  <2>1. ASSUME NEW k \in Keys, Due(k), Now(k), k[3] \in sub \ todo, k[4] = "serialize",
               k[3] = Ref \/ hex[k[3]] = "none"
        PROVE  k[3] = Ref \/ hex'[k[3]] = "none"
    <3>1. hex' = hex \/ \E v : hex' = [hex EXCEPT ![l] = v]
      BY DEF SerRecord
    <3>2. k[3] # l
      BY <1>1, <2>1
    <3>3. hex'[k[3]] = hex[k[3]]
      BY <1>1, <2>1, <3>1, <3>2 DEF ControlOK
    <3> QED
      BY <2>1, <3>3
  <2> QED
    BY <1>1, <2>1 DEF Due, Past, Now, Case, Away, InGroup
<1>5. ~Due(own) /\ ~Due(aud)
  BY <1>1, <1>3, PastNotNow DEF Due, Away, InGroup
<1>6. CASE cancelled
  <2>1. MayCancel /\ UNCHANGED <<results, failures>>
    BY <1>6 DEF Flow, SerRecord, reportVars
  <2> QED
    BY <1>1, <1>4, <2>1, RoundKeysType, NotWritten DEF RowsStep
<1>7. CASE ~cancelled
  <2> DEFINE lone == inbox[l].kind = "ok" /\ l # Ref
             row == IF lone THEN NoRows ELSE Rows({own}, ResolveResult(inbox[l], Known(l)))
             rows == Over(AuditRows(l, "audit-serialize"), row)
  <2>1. Add(rows)
    BY <1>7 DEF SerRecord
  <2>2. DOMAIN rows \subseteq {own, aud} /\ (own \in DOMAIN rows <=> ~lone)
    BY <1>3 DEF Over, Rows, NoRows, AuditRows
  <2>3. hex'[l] = IF inbox[l].kind = "ok" THEN inbox[l].value ELSE "none"
    BY <1>1, <1>7 DEF SerRecord, ControlOK
  <2>4. inbox[l].value # "none"
    BY <1>1 DEF ControlOK, Reply, Values
  <2>5. Due(aud)' /\ (~lone => Due(own)')
    BY <1>1, <1>3, <2>3 DEF Due, Now, Case
  <2>6. ASSUME NEW k \in RoundKeys, Due(k)' PROVE Due(k) \/ k \in DOMAIN rows
    <3>1. k = <<k[1], k[2], k[3], k[4]>> /\ k[3] \in Langs /\ k[4] \in Rounds
      BY DEF RoundKeys
    <3>2. CASE k[3] = l /\ Now(k) /\ k[4] = "serialize"
      <4>1. k = own
        BY <3>1, <3>2 DEF Now, Key
      <4>2. ~lone \/ Due(k)
        BY <1>1, <2>3, <2>4, <2>6, <3>2 DEF Due, Past, Now, Case, Away, InGroup
      <4> QED
        BY <2>2, <4>1, <4>2
    <3>3. CASE ~(k[3] = l /\ Now(k) /\ k[4] = "serialize")
      <4>1. k[4] # "audit-serialize"
        BY <3>1 DEF Rounds
      <4> QED
        BY <1>1, <1>2, <2>6, <3>1, <3>3, <4>1 DEF Due, Past, Now, Case, Away, InGroup
    <3> QED
      BY <3>2, <3>3
  <2> HIDE DEF rows, lone
  <2>7. DOMAIN rows \subseteq Keys /\ \A k \in DOMAIN rows : ~Due(k) /\ Due(k)'
    BY <1>3, <1>5, <2>2, <2>5
  <2> QED
    BY <1>1, <1>4, <2>1, <2>6, <2>7, RoundKeysType, Written DEF RowsStep
<1> QED
  BY <1>6, <1>7

\* The rows still missing after round 1 are those of the candidates with bytes.
LEMMA SerDoneRows ==
    ASSUME TypeOK, Flow, RowsInv, FailInv, SerDone
    PROVE  RowsStep
<1>1. /\ ControlOK /\ DOMAIN results \subseteq Keys /\ stage = "ser" /\ stage' = "compare" /\ todo = {}
      /\ todo' = {l \in sub \ {Ref} : hex[l] # "none"}
      /\ UNCHANGED <<g, i, sub, exit, results, failures>>
  BY TypeParts DEF SerDone, ReportOK, endVars, reportVars
<1>2. \A k \in Keys : Due(k) => Due(k)'
  BY <1>1 DEF Due, Past, Now, Case, Away, InGroup
<1>3. ASSUME NEW k \in RoundKeys, Due(k)' PROVE Due(k)
  <2>1. k[3] \in Langs /\ k[4] \in Rounds
    BY DEF RoundKeys
  <2> QED
    BY <1>1, <1>3, <2>1 DEF Due, Past, Now, Case, Away, InGroup, Rounds
<1> QED
  BY <1>1, <1>2, <1>3, RoundKeysType, NotWritten DEF RowsStep

\* Each comparison writes the row of one candidate.
LEMMA CompareRows ==
    ASSUME TypeOK, Flow, RowsInv, FailInv, Distinct, NEW l \in Langs, Compare(l)
    PROVE  RowsStep
<1> SUFFICES ASSUME NEW own, own = Key(l, "serialize") PROVE RowsStep
  OBVIOUS
<1>1. /\ ControlOK /\ DOMAIN results \subseteq Keys /\ stage = "compare" /\ l \in todo /\ l \in sub
      /\ UNCHANGED <<stage, g, i, sub, exit>> /\ todo' = todo \ {l}
  BY TypeParts DEF Flow, Compare, ReportOK, endVars
<1>2. own \in Keys /\ Now(own) /\ own[3] = l /\ own[4] = "serialize"
  BY <1>1, KeyType DEF Ops, Key, Now
<1>3. \E s : Add(Rows({own}, s))
  BY DEF Compare
<1>4. \A k \in Keys : Due(k) => Due(k)'
  BY <1>1 DEF Due, Past, Now, Case, Away, InGroup
<1>5. ~Due(own) /\ Due(own)'
  BY <1>1, <1>2, PastNotNow DEF Due, Now, Case, Away, InGroup
<1>6. ASSUME NEW k \in RoundKeys, Due(k)' PROVE Due(k) \/ k = own
  <2>1. k = <<k[1], k[2], k[3], k[4]>>
    BY DEF RoundKeys
  <2>2. Due(k) \/ (Now(k) /\ k[3] = l /\ k[4] = "serialize")
    BY <1>1, <1>6 DEF Due, Past, Now, Case, Away, InGroup
  <2> QED
    BY <2>1, <2>2 DEF Now, Key
<1>7. \A s : DOMAIN Rows({own}, s) = {own}
  BY DEF Rows
<1> QED
  BY <1>1, <1>2, <1>3, <1>4, <1>5, <1>6, <1>7, RoundKeysType, Written DEF RowsStep

\* Without the reference's bytes the rows of round 2 are written unasked.
LEMMA CompareDoneRows ==
    ASSUME TypeOK, Flow, RowsInv, FailInv, Distinct, CompareDone
    PROVE  RowsStep
<1>1. ControlOK /\ DOMAIN results \subseteq Keys /\ stage = "compare" /\ todo = {} /\ UNCHANGED exit
  BY TypeParts DEF CompareDone, ReportOK, endVars
<1> DEFINE keys == {Key(l, "deserialize") : l \in sub}
<1>2. CASE NextCase /\ Add(Rows(keys, "CASCADE"))
  <2>1. keys \subseteq Keys /\ \A k \in keys : Now(k) /\ k[3] \in sub /\ k[4] = "deserialize" /\ k[2] \in Names
    <3>1. keys \subseteq Keys
      BY <1>1, KeyType DEF ControlOK, Ops
    <3>2. Case \in Names
      BY <1>1 DEF ControlOK, Case, Names
    <3> QED
      BY <3>1, <3>2 DEF Key, Now
  <2>2. \A k \in Keys : Due(k) => Past(k) \/ Now(k) \/ Away(k, sub)
    BY <1>1 DEF Due
  <2>3. ASSUME NEW k \in RoundKeys, Now(k), k[3] \in sub PROVE Due(k) \/ k \in keys
    <3>1. k = <<k[1], k[2], k[3], k[4]>> /\ k[4] \in Rounds
      BY DEF RoundKeys
    <3>2. CASE k[4] = "serialize"
      BY <1>1, <2>3, <3>2 DEF Due
    <3>3. CASE k[4] = "deserialize"
      BY <2>3, <3>1, <3>3 DEF Now, Key
    <3> QED
      BY <3>1, <3>2, <3>3 DEF Rounds
  <2>4. \A k \in keys : ~Due(k)
    BY <1>1, <2>1, PastNotNow DEF Due, Away, InGroup
  <2>5. DOMAIN Rows(keys, "CASCADE") = keys
    BY DEF Rows
  <2> HIDE DEF keys
  <2>6. /\ \A k \in Keys : Due(k) => Due(k)'
        /\ \A k \in keys : Due(k)'
        /\ \A k \in RoundKeys : Due(k)' => Due(k) \/ k \in keys
    BY <1>1, <1>2, <2>1, <2>2, <2>3, CaseEnds DEF InGroup
  <2> QED
    BY <1>1, <1>2, <2>1, <2>4, <2>5, <2>6, RoundKeysType, Written DEF RowsStep
<1>3. CASE stage' = "des" /\ todo' = sub /\ UNCHANGED <<g, i, sub, reportVars>>
  <2>1. \A k \in Keys : Due(k) => Due(k)'
    BY <1>1, <1>3 DEF Due, Past, Now, Case, Away, InGroup
  <2>2. \A k \in RoundKeys : Due(k)' => Due(k)
    BY <1>1, <1>3 DEF Due, Past, Now, Case, Away, InGroup, RoundKeys, Rounds
  <2> QED
    BY <1>1, <1>3, <2>1, <2>2, RoundKeysType, NotWritten DEF RowsStep, reportVars
<1>4. (NextCase /\ Add(Rows(keys, "CASCADE")))
      \/ (stage' = "des" /\ todo' = sub /\ UNCHANGED <<g, i, sub, reportVars>>)
  BY DEF CompareDone
<1> QED
  BY <1>2, <1>3, <1>4

\* Round 2 writes the row of every worker that was asked.
LEMMA DesRecordRows ==
    ASSUME TypeOK, Flow, RowsInv, FailInv, Distinct, NEW l \in Langs, DesRecord(l)
    PROVE  RowsStep
<1> SUFFICES ASSUME NEW own, own = Key(l, "deserialize"), NEW aud, aud = Key(l, "audit-deserialize")
             PROVE  RowsStep
  OBVIOUS
<1>1. /\ ControlOK /\ DOMAIN results \subseteq Keys /\ stage = "des" /\ l \in todo /\ l \in sub
      /\ UNCHANGED <<stage, g, i, sub, exit>> /\ todo' = todo \ {l}
  BY TypeParts DEF Flow, DesRecord, Recorded, ReportOK, endVars
<1>2. own \in Keys /\ aud \in Keys /\ Now(own) /\ Now(aud) /\ own # aud
      /\ own[3] = l /\ aud[3] = l /\ own[4] = "deserialize" /\ aud[4] = "audit-deserialize"
  BY <1>1, KeyType DEF Ops, Key, Now
<1>3. \A k \in Keys : Due(k) => Due(k)'
  BY <1>1 DEF Due, Past, Now, Case, Away, InGroup
<1>4. ~Due(own) /\ ~Due(aud) /\ Due(own)' /\ Due(aud)'
  BY <1>1, <1>2, PastNotNow DEF Due, Now, Case, Away, InGroup
<1>5. CASE cancelled
  <2>1. MayCancel /\ UNCHANGED <<results, failures>>
    BY <1>5 DEF Flow, DesRecord, reportVars
  <2> QED
    BY <1>1, <1>3, <2>1, RoundKeysType, NotWritten DEF RowsStep
<1>6. CASE ~cancelled
  <2>1. PICK s : Add(Over(AuditRows(l, "audit-deserialize"), Rows({own}, s)))
    BY <1>6 DEF DesRecord
  <2> DEFINE rows == Over(AuditRows(l, "audit-deserialize"), Rows({own}, s))
  <2>2. DOMAIN rows \subseteq {own, aud} /\ own \in DOMAIN rows
    BY DEF Over, Rows, NoRows, AuditRows
  <2>3. ASSUME NEW k \in RoundKeys, Due(k)' PROVE Due(k) \/ k = own
    <3>1. k = <<k[1], k[2], k[3], k[4]>> /\ k[4] # "audit-deserialize"
      BY DEF RoundKeys, Rounds
    <3>2. Due(k) \/ (Now(k) /\ k[3] = l /\ k[4] = "deserialize")
      BY <1>1, <2>3, <3>1 DEF Due, Past, Now, Case, Away, InGroup
    <3> QED
      BY <3>1, <3>2 DEF Now, Key
  <2> HIDE DEF rows
  <2>4. DOMAIN rows \subseteq Keys /\ \A k \in DOMAIN rows : ~Due(k) /\ Due(k)'
    BY <1>2, <1>4, <2>2
  <2>5. Add(rows)
    BY <2>1 DEF rows
  <2> QED
    BY <1>1, <1>3, <2>2, <2>3, <2>4, <2>5, RoundKeysType, Written DEF RowsStep
<1> QED
  BY <1>5, <1>6

\* A round whose rows are all there, and a case that ends with it.
LEMMA CaseEndsQuietly ==
    ASSUME TypeOK, Flow, RowsInv, FailInv, stage \in {"des", "matrix"}, todo = {}, NextCase,
           UNCHANGED <<exit, results, failures>>
    PROVE  RowsStep
<1>1. DOMAIN results \subseteq Keys
  BY TypeParts DEF ReportOK
<1>2. \A k \in Keys : Due(k) => Past(k) \/ Now(k) \/ Away(k, sub)
  BY DEF Due
<1>3. \A k \in RoundKeys : Now(k) /\ k[3] \in sub => Due(k)
  BY DEF RoundKeys, Rounds, Due
<1>4. /\ \A k \in Keys : Due(k) => Due(k)'
      /\ \A k \in RoundKeys : Due(k)' => Due(k)
  <2> SUFFICES ASSUME NEW keys, keys = {}
               PROVE  /\ \A k \in Keys : Due(k) => Due(k)'
                      /\ \A k \in RoundKeys : Due(k)' => Due(k) \/ k \in keys
    OBVIOUS
  <2>1. keys \subseteq Keys /\ \A k \in keys : Now(k) /\ k[2] \in Names
    OBVIOUS
  <2> QED
    BY <1>2, <1>3, <2>1, CaseEnds DEF InGroup
<1> QED
  BY <1>1, <1>4, RoundKeysType, NotWritten DEF RowsStep

\* The pairs without a source have their rows written before the others are asked.
LEMMA DesDoneRows ==
    ASSUME TypeOK, Flow, RowsInv, FailInv, Distinct, DesDone
    PROVE  RowsStep
<1>1. /\ ControlOK /\ DOMAIN results \subseteq Keys /\ stage = "des" /\ todo = {} /\ sub \subseteq Langs
      /\ UNCHANGED exit
  BY TypeParts DEF DesDone, ReportOK, ControlOK, endVars
<1> DEFINE mute == {l \in sub : hex[l] \in {"none", "empty"}}
           keys == {Key(p, "matrix") : p \in mute \X sub}
<1>2. CASE NextCase /\ UNCHANGED reportVars
  BY <1>1, <1>2, CaseEndsQuietly DEF reportVars
<1>3. CASE /\ Add(Rows(keys, "SKIP")) /\ todo' = (sub \ mute) \X sub
           /\ stage' = "matrix" /\ UNCHANGED <<g, i, sub>>
  <2>1. keys \subseteq Keys
    BY <1>1, KeyType DEF Ops
  <2>2. \A k \in keys : Now(k) /\ k[4] = "matrix" /\ k[3] \notin todo'
    BY <1>1, <1>3 DEF Key, Now
  <2>3. \A k \in keys : ~Due(k) /\ Due(k)'
    BY <1>1, <1>3, <2>1, <2>2, PastNotNow DEF Due, Now, Case, Away, InGroup
  <2>4. \A k \in Keys : Due(k) => Due(k)'
    BY <1>1, <1>3 DEF Due, Past, Now, Case, Away, InGroup
  <2>5. \A k \in RoundKeys : Due(k)' => Due(k)
    BY <1>1, <1>3 DEF Due, Past, Now, Case, Away, InGroup, RoundKeys, Rounds
  <2>6. DOMAIN Rows(keys, "SKIP") = keys
    BY DEF Rows
  <2> HIDE DEF keys
  <2> QED
    BY <1>1, <1>3, <2>1, <2>3, <2>4, <2>5, <2>6, RoundKeysType, Written DEF RowsStep
<1> QED
  BY <1>2, <1>3 DEF DesDone

\* The matrix writes the row of every pair that was asked.
LEMMA MatrixRows ==
    ASSUME TypeOK, Flow, RowsInv, FailInv, Distinct, NEW p \in Langs \X Langs, NEW r, Matrix(p, r)
    PROVE  RowsStep
<1> SUFFICES ASSUME NEW own, own = Key(p, "matrix") PROVE RowsStep
  OBVIOUS
<1>1. /\ ControlOK /\ DOMAIN results \subseteq Keys /\ stage = "matrix" /\ p \in todo
      /\ UNCHANGED <<stage, g, i, sub, exit>> /\ todo' = todo \ {p}
  BY TypeParts DEF Matrix, ReportOK, endVars
<1>2. own \in Keys /\ Now(own) /\ own[3] = p /\ own[4] = "matrix"
  BY <1>1, KeyType DEF Ops, Key, Now
<1>3. \E s : Add(Rows({own}, s))
  BY DEF Matrix
<1>4. \A k \in Keys : Due(k) => Due(k)'
  BY <1>1 DEF Due, Past, Now, Case, Away, InGroup
<1>5. ~Due(own) /\ Due(own)'
  BY <1>1, <1>2, PastNotNow DEF Due, Now, Case, Away, InGroup
<1>6. \A k \in RoundKeys : Due(k)' => Due(k)
  BY <1>1 DEF Due, Past, Now, Case, Away, InGroup, RoundKeys, Rounds
<1>7. \A s : DOMAIN Rows({own}, s) = {own}
  BY DEF Rows
<1> QED
  BY <1>1, <1>2, <1>3, <1>4, <1>5, <1>6, <1>7, RoundKeysType, Written DEF RowsStep

\* The coverage check turns rows that were SKIP into failures, and adds none.
LEMMA FinishRows ==
    ASSUME TypeOK, Flow, RowsInv, FailInv, Finish
    PROVE  RowsInv' /\ FailInv' /\ DOMAIN results' = DOMAIN results
<1>1. stage = "finish" /\ stage' = "done" /\ exit = "none"
  BY DEF Finish, Flow
<1>2. DOMAIN results' = DOMAIN results /\ FailInv'
  <2>1. CASE UNCHANGED reportVars
    BY <2>1 DEF reportVars, FailInv
  <2>2. ASSUME NEW keys, keys \subseteq Skips, Add(Rows(keys, "FAIL"))
        PROVE  DOMAIN results' = DOMAIN results /\ FailInv'
    <3> DEFINE rows == Rows(keys, "FAIL")
    <3>1. DOMAIN rows = keys /\ \A k \in keys : rows[k] = "FAIL"
      BY DEF Rows
    <3> HIDE DEF rows
    <3>2. /\ DOMAIN results' = keys \cup DOMAIN results
          /\ \A k \in keys : results'[k] = "FAIL"
          /\ \A k \in DOMAIN results \ keys : results'[k] = results[k]
          /\ failures' = failures \cup keys
      BY <2>2, <3>1, AddRows DEF rows
    <3> QED
      BY <2>2, <3>2 DEF Skips, FailInv
  <2>3. CASE Add(NoRows)
    <3>1. {} \subseteq Skips /\ Add(Rows({}, "FAIL"))
      BY <2>3 DEF NoRows, Rows, Add, Over
    <3> QED
      BY <2>2, <3>1
  <2>4. Undeclared \subseteq Skips
    BY DEF Undeclared
  <2>5. UNCHANGED reportVars \/ Add(Rows(Undeclared, "FAIL")) \/ Add(NoRows)
    BY DEF Finish
  <2> QED
    BY <2>1, <2>2, <2>3, <2>4, <2>5
<1>3. \A k : Due(k) /\ Due(k)'
  BY <1>1 DEF Due
<1> QED
  BY <1>1, <1>2, <1>3 DEF RowsInv, RoundKeys

\* A row is written once: only the coverage check changes one.
LEMMA NextRows ==
    ASSUME TypeOK, Flow, RowsInv, FailInv, Distinct, [Next]_vars
    PROVE  RowsInv' /\ FailInv' /\ (Kept \/ Finish)
<1>a. DOMAIN results \subseteq Keys
  BY TypeParts DEF ReportOK
<1>b. ASSUME UNCHANGED <<stage, g, i, sub, todo, hex, exit, reportVars>> PROVE RowsStep
  <2>1. \A k : Due(k)' <=> Due(k)
    BY <1>b DEF Due, Past, Now, Case, Away
  <2> QED
    BY <1>a, <1>b, <2>1, RoundKeysType, NotWritten DEF RowsStep, reportVars
<1>1. ASSUME NEW l \in Langs, StartWorker(l) PROVE RowsStep
  <2>1. stage = "start" /\ DOMAIN results = {} /\ exit' = exit /\ UNCHANGED <<results, failures>>
    BY <1>1 DEF StartWorker, RowsInv, Due, InGroup, endVars, reportVars
  <2>2. \A k \in Keys : ~Due(k)
    BY <2>1 DEF Due, InGroup
  <2>3. \A k \in RoundKeys : ~Due(k)'
    <3>1. /\ stage' = "start" \/ (stage' = "bind" /\ todo' = Langs)
          /\ g' = 1
      BY <1>1 DEF StartWorker, Flow
    <3>2. \A k \in RoundKeys : k[1] \in Nat \ {0} /\ k[3] \in Langs
      BY Indices DEF RoundKeys
    <3> QED
      BY <3>1, <3>2 DEF Due, Away, InGroup
  <2> QED
    BY <1>a, <2>1, <2>2, <2>3, RoundKeysType, NotWritten DEF RowsStep
<1>2. CASE StartFails
  BY <1>2 DEF StartFails, RowsInv, FailInv, Due, Kept, RowsStep, InGroup, reportVars
<1>3. ASSUME NEW l \in Langs, NEW r, Bind(l, r) PROVE RowsStep
  BY <1>3, BindRows
<1>4. CASE Bound
  BY <1>4, BoundRows DEF RowsStep
<1>5. CASE StartCase
  BY <1>5, StartCaseRows DEF RowsStep
<1>6. ASSUME NEW l \in Langs, NEW r, Replied(l, r) PROVE RowsStep
  BY <1>6, <1>b DEF Replied, endVars
<1>7. ASSUME NEW l \in Langs, SerRecord(l) PROVE RowsStep
  BY <1>7, SerRecordRows
<1>8. CASE SerDone
  BY <1>8, SerDoneRows DEF RowsStep
<1>9. ASSUME NEW l \in Langs, Compare(l) PROVE RowsStep
  BY <1>9, CompareRows
<1>10. CASE CompareDone
  BY <1>10, CompareDoneRows DEF RowsStep
<1>11. ASSUME NEW l \in Langs, DesRecord(l) PROVE RowsStep
  BY <1>11, DesRecordRows
<1>12. CASE DesDone
  BY <1>12, DesDoneRows DEF RowsStep
<1>13. ASSUME NEW p \in Langs \X Langs, NEW r, Matrix(p, r) PROVE RowsStep
  BY <1>13, MatrixRows
<1>14. CASE MatrixDone
  BY <1>14, CaseEndsQuietly DEF RowsStep, MatrixDone, endVars, reportVars
<1>15. CASE Finish
  BY <1>15, FinishRows
<1>16. CASE Cancel
  BY <1>16, <1>b DEF RowsStep, Cancel, endVars
<1>17. CASE UNCHANGED vars
  BY <1>17, <1>b DEF RowsStep, vars, endVars
<1> QED
  BY <1>1, <1>2, <1>3, <1>4, <1>5, <1>6, <1>7, <1>8, <1>9, <1>10, <1>11, <1>12, <1>13, <1>14,
<1>15, <1>16, <1>17 DEF Next, Step, Terminated, RowsStep

\* Before anything has begun nothing is due and nothing has failed.
LEMMA InitRows == Init => RowsInv /\ FailInv
<1> SUFFICES ASSUME Init PROVE RowsInv /\ FailInv
  OBVIOUS
<1>1. DOMAIN results = {} /\ failures = {} /\ stage = "start"
  BY DEF Init, NoRows, Rows
<1> QED
  BY <1>1 DEF RowsInv, FailInv, Due, InGroup

-----------------------------------------------------------------------------
(* What the report makes of the rows. *)

\* A run nobody interrupts leaves nothing out in silence: with exit code 0 every
\* worker has a row for both rounds of every case of every group (orch.go:99-100).
THEOREM ExitZeroCompleteCorrect ==
    ASSUME Distinct, ~MayCancel
    PROVE  Spec => []ExitZeroComplete
<1>1. RowsInv /\ FailInv /\ TypeOK /\ Flow /\ [Next]_vars => RowsInv' /\ FailInv'
  BY NextRows
<1>2. RowsInv /\ Flow => ExitZeroComplete
  <2> SUFFICES ASSUME RowsInv, Flow, exit = "zero", NEW k \in RoundKeys PROVE k \in DOMAIN results
    BY DEF ExitZeroComplete, RoundKeys
  <2>1. stage = "done"
    BY DEF Flow
  <2> QED
    BY <2>1 DEF RowsInv, Due
<1> QED
  BY <1>1, <1>2, InitRows, InitType, NextType, InitFlow, NextFlow, PTL DEF Spec

\* Rows outside the two rounds are findings of the audit, or the matrix's.
OpsInv == \A k \in DOMAIN results : results[k] = "WARN" \/ k[4] \in Rounds \/ FullMatrix

\* Adding rows of the two rounds or findings keeps the kinds of rows.
LEMMA AddOps ==
    ASSUME OpsInv, NEW rows, Add(rows),
           \A k \in DOMAIN rows : rows[k] = "WARN" \/ k[4] \in Rounds \/ FullMatrix
    PROVE  OpsInv'
<1>1. /\ DOMAIN results' = DOMAIN rows \cup DOMAIN results
      /\ \A k \in DOMAIN rows : results'[k] = rows[k]
      /\ \A k \in DOMAIN results \ DOMAIN rows : results'[k] = results[k]
  BY AddRows
<1> QED
  BY <1>1 DEF OpsInv

\* The same for rows of one status.
LEMMA RowsOps ==
    ASSUME OpsInv, NEW keys, NEW s, Add(Rows(keys, s)),
           \A k \in keys : k[4] \in Rounds \/ FullMatrix
    PROVE  OpsInv'
<1>1. DOMAIN Rows(keys, s) = keys
  BY DEF Rows
<1> QED
  BY <1>1, AddOps

\* Every step keeps the kinds of rows.
LEMMA NextOps ==
    ASSUME TypeOK, Flow, OpsInv, [Next]_vars
    PROVE  OpsInv'
<1>a. ASSUME UNCHANGED results PROVE OpsInv'
  BY <1>a DEF OpsInv
<1>b. ASSUME Add(NoRows) PROVE OpsInv'
  BY <1>b, NoRowsDom, AddOps
<1>c. ASSUME NEW ls, NEW s, Add(TypeRows(ls, s)) PROVE OpsInv'
  <2> DEFINE keys == {<<g, n, l, op>> : n \in Names, l \in ls, op \in Rounds}
  <2>1. Add(Rows(keys, s))
    BY <1>c DEF TypeRows
  <2>2. \A k \in keys : k[4] \in Rounds
    OBVIOUS
  <2> HIDE DEF keys
  <2> QED
    BY <2>1, <2>2, RowsOps
<1>d. ASSUME NEW l, NEW op, NEW row, DOMAIN row \subseteq {<<g, Case, l, "serialize">>, <<g, Case, l, "deserialize">>},
             Add(Over(AuditRows(l, op), row))
      PROVE  OpsInv'
  <2>1. \A k \in DOMAIN AuditRows(l, op) : AuditRows(l, op)[k] = "WARN"
    BY DEF AuditRows, NoRows, Rows
  <2> DEFINE rows == Over(AuditRows(l, op), row)
  <2>2. \A k \in DOMAIN rows : rows[k] = "WARN" \/ k[4] \in Rounds
    BY <1>d, <2>1 DEF Over, Rounds
  <2>3. Add(rows)
    BY <1>d
  <2> HIDE DEF rows
  <2> QED
    BY <2>2, <2>3, AddOps
<1>1. ASSUME NEW l \in Langs, StartWorker(l) PROVE OpsInv'
  BY <1>1, <1>a DEF StartWorker, reportVars
<1>2. CASE StartFails
  BY <1>2, <1>a DEF StartFails, reportVars
<1>3. ASSUME NEW l \in Langs, NEW r, Bind(l, r) PROVE OpsInv'
  <2>1. Add(NoRows) \/ Add(TypeRows({l}, "SKIP")) \/ Add(TypeRows({l}, "ERROR"))
    BY <1>3 DEF Bind
  <2> QED
    BY <2>1, <1>b, <1>c
<1>4. CASE Bound
  <2>1. Add(NoRows) \/ Add(TypeRows(sub, "CASCADE"))
    BY <1>4 DEF Bound
  <2> QED
    BY <2>1, <1>b, <1>c
<1>5. CASE StartCase
  <2> DEFINE keys == {Key(l, op) : l \in sub, op \in Rounds}
  <2>1. Add(Rows(keys, "ERROR")) \/ UNCHANGED results
    BY <1>5 DEF StartCase, reportVars
  <2>2. \A k \in keys : k[4] \in Rounds
    BY DEF Key
  <2> HIDE DEF keys
  <2> QED
    BY <2>1, <2>2, <1>a, RowsOps
<1>6. ASSUME NEW l \in Langs, NEW r, Replied(l, r) PROVE OpsInv'
  BY <1>6, <1>a DEF Replied, reportVars
<1>7. ASSUME NEW l \in Langs, SerRecord(l) PROVE OpsInv'
  <2>1. CASE UNCHANGED results
    BY <2>1, <1>a
  <2>2. CASE ~cancelled
    <3> DEFINE row == IF inbox[l].kind = "ok" /\ l # Ref THEN NoRows
                      ELSE Rows({Key(l, "serialize")}, ResolveResult(inbox[l], Known(l)))
    <3>1. Add(Over(AuditRows(l, "audit-serialize"), row))
      BY <1>7, <2>2 DEF SerRecord
    <3>2. DOMAIN row \subseteq {<<g, Case, l, "serialize">>}
      BY DEF Rows, NoRows, Key
    <3> HIDE DEF row
    <3> QED
      BY <3>1, <3>2, <1>d
  <2> QED
    BY <1>7, <2>1, <2>2 DEF SerRecord, reportVars
<1>8. CASE SerDone
  BY <1>8, <1>a DEF SerDone, reportVars
<1>9. ASSUME NEW l \in Langs, Compare(l) PROVE OpsInv'
  <2>1. \E s : Add(Rows({Key(l, "serialize")}, s))
    BY <1>9 DEF Compare
  <2>2. \A k \in {Key(l, "serialize")} : k[4] \in Rounds
    BY DEF Key, Rounds
  <2> QED
    BY <2>1, <2>2, RowsOps
<1>10. CASE CompareDone
  <2> DEFINE keys == {Key(l, "deserialize") : l \in sub}
  <2>1. Add(Rows(keys, "CASCADE")) \/ UNCHANGED results
    BY <1>10 DEF CompareDone, reportVars
  <2>2. \A k \in keys : k[4] \in Rounds
    BY DEF Key, Rounds
  <2> HIDE DEF keys
  <2> QED
    BY <2>1, <2>2, <1>a, RowsOps
<1>11. ASSUME NEW l \in Langs, DesRecord(l) PROVE OpsInv'
  <2>1. CASE UNCHANGED results
    BY <2>1, <1>a
  <2>2. CASE ~cancelled
    <3>1. PICK s : Add(Over(AuditRows(l, "audit-deserialize"), Rows({Key(l, "deserialize")}, s)))
      BY <1>11, <2>2 DEF DesRecord
    <3>2. DOMAIN Rows({Key(l, "deserialize")}, s) \subseteq {<<g, Case, l, "deserialize">>}
      BY DEF Rows, Key
    <3> QED
      BY <3>1, <3>2, <1>d
  <2> QED
    BY <1>11, <2>1, <2>2 DEF DesRecord, reportVars
<1>12. CASE DesDone
  <2>1. UNCHANGED results \/ (FullMatrix /\ \E keys : Add(Rows(keys, "SKIP")))
    BY <1>12 DEF DesDone, reportVars
  <2> QED
    BY <2>1, <1>a, RowsOps
<1>13. ASSUME NEW p \in Langs \X Langs, NEW r, Matrix(p, r) PROVE OpsInv'
  <2>1. FullMatrix /\ \E s : Add(Rows({Key(p, "matrix")}, s))
    BY <1>13 DEF Matrix, Flow
  <2> QED
    BY <2>1, RowsOps
<1>14. CASE MatrixDone
  BY <1>14, <1>a DEF MatrixDone, reportVars
<1>15. CASE Finish
  <2>1. UNCHANGED results \/ Add(Rows(Undeclared, "FAIL")) \/ Add(NoRows)
    BY <1>15 DEF Finish, reportVars
  <2>2. \A k \in Undeclared : k[4] \in Rounds \/ FullMatrix
    BY DEF Undeclared, Skips, OpsInv
  <2> QED
    BY <2>1, <2>2, <1>a, <1>b, RowsOps
<1>16. CASE Cancel
  BY <1>16, <1>a DEF Cancel, reportVars
<1>17. CASE UNCHANGED vars
  BY <1>17, <1>a DEF vars, reportVars
<1> QED
  BY <1>1, <1>2, <1>3, <1>4, <1>5, <1>6, <1>7, <1>8, <1>9, <1>10, <1>11, <1>12, <1>13, <1>14,
<1>15, <1>16, <1>17 DEF Next, Step, Terminated

\* The exit code of a run that printed its report.
ExitInv == printed => exit = IF failures = {} THEN "zero" ELSE "one"

\* A run that has ended does nothing more.
LEMMA DoneStays ==
    ASSUME stage = "done", [Next]_vars
    PROVE  UNCHANGED vars
  BY DEF Next, Step, Terminated, StartWorker, StartFails, Bind, Bound, StartCase, Replied,
     SerRecord, SerDone, Compare, CompareDone, DesRecord, DesDone, Matrix, MatrixDone, Finish, Cancel

\* Only the end of a run prints the report.
LEMMA OnlyFinishPrints ==
    ASSUME [Next]_vars, ~Finish
    PROVE  printed' = printed
<1>1. ASSUME NEW l \in Langs, NEW r, StartWorker(l) \/ Bind(l, r) \/ Replied(l, r)
      PROVE  printed' = printed
  BY <1>1 DEF StartWorker, Bind, Replied, endVars
<1>2. ASSUME NEW l \in Langs, SerRecord(l) \/ Compare(l) \/ DesRecord(l) PROVE printed' = printed
  BY <1>2 DEF SerRecord, Compare, DesRecord, Recorded, endVars
<1>3. ASSUME NEW p \in Langs \X Langs, NEW r, Matrix(p, r) PROVE printed' = printed
  BY <1>3 DEF Matrix, endVars
<1>4. ASSUME StartFails \/ Bound \/ StartCase PROVE printed' = printed
  BY <1>4 DEF StartFails, Bound, StartCase, endVars
<1>5. ASSUME SerDone \/ CompareDone \/ DesDone \/ MatrixDone \/ Cancel PROVE printed' = printed
  BY <1>5 DEF SerDone, CompareDone, DesDone, MatrixDone, Cancel, endVars
<1>6. ASSUME UNCHANGED vars PROVE printed' = printed
  BY <1>6 DEF vars, endVars
<1> QED
  BY <1>1, <1>2, <1>3, <1>4, <1>5, <1>6 DEF Next, Step, Terminated

\* Every step keeps the exit code in line with Failures.
LEMMA NextExit ==
    ASSUME Flow, ExitInv, [Next]_vars
    PROVE  ExitInv'
<1>1. CASE Finish
  <2>1. CASE firstErr
    BY <1>1, <2>1 DEF Finish, Flow, ExitInv
  <2>2. CASE ~firstErr
    BY <1>1, <2>2 DEF Finish, ExitInv
  <2> QED
    BY <2>1, <2>2
<1>2. CASE stage = "done"
  BY <1>2, DoneStays DEF vars, reportVars, endVars, ExitInv
<1>3. CASE stage # "done" /\ ~Finish
  BY <1>3, OnlyFinishPrints DEF Flow, ExitInv
<1> QED
  BY <1>1, <1>2, <1>3

\* The exit code is the one printTable announces from the rows, and the JUnit
\* report, which leaves the matrix out, shows a failure exactly when it is 1
\* (report.go:205-229, 270-272, 316-345).
THEOREM ReportsAgreeCorrect ==
    ASSUME Distinct
    PROVE  Spec => []ReportsAgree
<1>1. RowsInv /\ FailInv /\ TypeOK /\ Flow /\ [Next]_vars => RowsInv' /\ FailInv'
  BY NextRows
<1>2. OpsInv /\ TypeOK /\ Flow /\ [Next]_vars => OpsInv'
  BY NextOps
<1>3. ExitInv /\ Flow /\ [Next]_vars => ExitInv'
  BY NextExit
<1>4. Init => OpsInv /\ ExitInv
  <2>1. Init => DOMAIN results = {} /\ printed = FALSE
    BY DEF Init, NoRows, Rows
  <2> QED
    BY <2>1 DEF OpsInv, ExitInv
<1>5. ExitInv /\ FailInv /\ OpsInv => ReportsAgree
  <2> SUFFICES ASSUME ExitInv, FailInv, OpsInv, printed
               PROVE  /\ exit = Announced
                      /\ ~FullMatrix => (exit = "one" <=> JUnitFailures # {})
    BY DEF ReportsAgree
  <2>1. exit = IF failures = {} THEN "zero" ELSE "one"
    BY DEF ExitInv
  <2>2. failures # {} <=> \E k \in DOMAIN results : results[k] \in {"FAIL", "ERROR"}
    BY DEF FailInv
  <2>3. ~FullMatrix => JUnitFailures = failures
    BY DEF JUnitFailures, FailInv, OpsInv
  <2> QED
    BY <2>1, <2>2, <2>3 DEF Announced
<1> QED
  BY <1>1, <1>2, <1>3, <1>4, <1>5, InitRows, InitType, NextType, InitFlow, NextFlow, PTL DEF Spec

\* A skipped request of either round is a SKIP row until the coverage check.
SkipInv ==
    stage # "done" =>
        \A k \in DOMAIN answers :
            /\ FullMatrix \/ k[4] \in Rounds \cup {"semantic"}
            /\ k[4] \in Rounds /\ answers[k].kind = "skipped" =>
                  k \in DOMAIN results /\ results[k] = "SKIP"

\* No new answer and every row kept: skips stay SKIP rows.
LEMMA SameAnswers ==
    ASSUME SkipInv, Kept, UNCHANGED answers, stage # "done"
    PROVE  SkipInv'
  BY DEF SkipInv, Kept

\* A skip that is recorded is written as a SKIP row.
LEMMA NewAnswer ==
    ASSUME SkipInv, Kept, stage # "done", NEW j, NEW r, answers' = Over(Rows({j}, r), answers),
           FullMatrix \/ j[4] \in Rounds \cup {"semantic"},
           j[4] \in Rounds /\ r.kind = "skipped" => j \in DOMAIN results' /\ results'[j] = "SKIP"
    PROVE  SkipInv'
<1>1. /\ DOMAIN answers' = {j} \cup DOMAIN answers /\ answers'[j] = r
      /\ \A k \in DOMAIN answers \ {j} : answers'[k] = answers[k]
  BY DEF Over, Rows
<1> QED
  BY <1>1 DEF SkipInv, Kept

\* The row of an answer that was skipped.
LEMMA SkippedRow ==
    ASSUME NEW l, NEW op, NEW own, own # Key(l, op), NEW s,
           Add(Over(AuditRows(l, op), Rows({own}, s)))
    PROVE  own \in DOMAIN results' /\ results'[own] = s
<1> DEFINE rows == Over(AuditRows(l, op), Rows({own}, s))
<1>1. own \in DOMAIN rows /\ rows[own] = s
  BY DEF Over, Rows, AuditRows, NoRows
<1>2. Add(rows)
  OBVIOUS
<1> HIDE DEF rows
<1>3. DOMAIN results' = DOMAIN rows \cup DOMAIN results
      /\ \A k \in DOMAIN rows : results'[k] = rows[k]
  BY <1>2, AddRows
<1> QED
  BY <1>1, <1>3

\* Every step up to the coverage check keeps the skips.
LEMMA NextSkip ==
    ASSUME TypeOK, Flow, SkipInv, Kept \/ Finish, [Next]_vars
    PROVE  SkipInv'
<1>a. CASE Finish
  BY <1>a DEF Finish, SkipInv
<1>b. ASSUME Kept, UNCHANGED answers, stage' = "done" \/ stage # "done" PROVE SkipInv'
  BY <1>b, SameAnswers DEF SkipInv
<1> SUFFICES ASSUME Kept, ~Finish PROVE SkipInv'
  BY <1>a
<1>1. ASSUME NEW l \in Langs, NEW r, StartWorker(l) \/ Bind(l, r) \/ Replied(l, r) PROVE SkipInv'
  BY <1>1, <1>b DEF StartWorker, Bind, Replied
<1>2. ASSUME StartFails \/ Bound \/ StartCase PROVE SkipInv'
  BY <1>2, <1>b DEF StartFails, Bound, StartCase
<1>3. ASSUME SerDone \/ CompareDone \/ DesDone \/ MatrixDone \/ Cancel PROVE SkipInv'
  BY <1>3, <1>b DEF SerDone, CompareDone, DesDone, MatrixDone, Cancel
<1>4. ASSUME NEW l \in Langs, SerRecord(l) PROVE SkipInv'
  <2>1. CASE cancelled
    BY <1>4, <1>b, <2>1 DEF SerRecord
  <2>2. CASE ~cancelled
    <3> SUFFICES ASSUME NEW own, own = Key(l, "serialize") PROVE SkipInv'
      OBVIOUS
    <3>1. answers' = Over(Rows({own}, inbox[l]), answers) /\ stage # "done"
      BY <1>4, <2>2 DEF SerRecord
    <3>2. own[4] \in Rounds /\ own # Key(l, "audit-serialize")
      BY DEF Key, Rounds
    <3>3. ASSUME inbox[l].kind = "skipped" PROVE own \in DOMAIN results' /\ results'[own] = "SKIP"
      <4>1. ResolveResult(inbox[l], Known(l)) = "SKIP"
        BY <3>3 DEF ResolveResult
      <4>2. Add(Over(AuditRows(l, "audit-serialize"), Rows({own}, "SKIP")))
        BY <1>4, <2>2, <3>3, <4>1 DEF SerRecord
      <4> QED
        BY <3>2, <4>2, SkippedRow
    <3> QED
      BY <3>1, <3>2, <3>3, NewAnswer
  <2> QED
    BY <2>1, <2>2
<1>5. ASSUME NEW l \in Langs, Compare(l) PROVE SkipInv'
  <2>1. CASE UNCHANGED answers
    BY <1>5, <1>b, <2>1 DEF Compare
  <2>2. ASSUME NEW r, answers' = Over(Rows({Key(l, "semantic")}, r), answers) PROVE SkipInv'
    <3> SUFFICES ASSUME NEW own, own = Key(l, "semantic") PROVE SkipInv'
      OBVIOUS
    <3>1. own[4] \in Rounds \cup {"semantic"} /\ own[4] \notin Rounds
      BY DEF Key, Rounds
    <3> QED
      BY <1>5, <2>2, <3>1, NewAnswer DEF Compare
  <2> QED
    BY <1>5, <2>1, <2>2 DEF Compare
<1>6. ASSUME NEW l \in Langs, DesRecord(l) PROVE SkipInv'
  <2>1. CASE cancelled
    BY <1>6, <1>b, <2>1 DEF DesRecord
  <2>2. CASE ~cancelled
    <3> SUFFICES ASSUME NEW own, own = Key(l, "deserialize") PROVE SkipInv'
      OBVIOUS
    <3>1. answers' = Over(Rows({own}, inbox[l]), answers) /\ stage # "done"
      BY <1>6, <2>2 DEF DesRecord
    <3>2. own[4] \in Rounds /\ own # Key(l, "audit-deserialize")
      BY DEF Key, Rounds
    <3>3. ASSUME inbox[l].kind = "skipped" PROVE own \in DOMAIN results' /\ results'[own] = "SKIP"
      <4>1. ResolveResult(inbox[l], Known(l)) = "SKIP" /\ inbox[l].kind # "ok"
        BY <3>3 DEF ResolveResult
      <4>2. Add(Over(AuditRows(l, "audit-deserialize"), Rows({own}, "SKIP")))
        BY <1>6, <2>2, <4>1 DEF DesRecord
      <4> QED
        BY <3>2, <4>2, SkippedRow
    <3> QED
      BY <3>1, <3>2, <3>3, NewAnswer
  <2> QED
    BY <2>1, <2>2
<1>7. ASSUME NEW p \in Langs \X Langs, NEW r, Matrix(p, r) PROVE SkipInv'
  <2> SUFFICES ASSUME NEW own, own = Key(p, "matrix") PROVE SkipInv'
    OBVIOUS
  <2>1. own[4] \notin Rounds /\ FullMatrix /\ stage # "done"
        /\ answers' = Over(Rows({own}, r), answers)
    BY <1>7 DEF Key, Rounds, Matrix, Flow
  <2> QED
    BY <2>1, NewAnswer
<1>8. ASSUME UNCHANGED vars PROVE SkipInv'
  BY <1>8 DEF vars, reportVars, SkipInv
<1> QED
  BY <1>1, <1>2, <1>3, <1>4, <1>5, <1>6, <1>7, <1>8 DEF Next, Step, Terminated

\* The coverage check fails exactly the skips that no entry allows.
LEMMA FinishEnforces ==
    ASSUME SkipInv, Flow, FailInv', ~FullMatrix, Finish
    PROVE  SkipsEnforced'
<1> SUFFICES ASSUME Enforce, printed', ~firstErr PROVE SkipsEnforced'
  BY DEF Finish, Flow, SkipsEnforced
<1>1. Add(Rows(Undeclared, "FAIL")) /\ UNCHANGED answers
  BY DEF Finish
<1>2. /\ DOMAIN results' = Undeclared \cup DOMAIN results
      /\ \A k \in Undeclared : results'[k] = "FAIL"
      /\ \A k \in DOMAIN results \ Undeclared : results'[k] = results[k]
  BY <1>1 DEF Add, Over, Rows
<1>3. \A k : Declared(k) <=> Gap(k[3], k[4], TypeOf(k))
  BY DEF Declared, Gap
<1>4. \A k \in Skips' : Gap(k[3], k[4], TypeOf(k))
  BY <1>2, <1>3 DEF Skips, Undeclared
<1>5. ASSUME NEW k \in DOMAIN answers', answers'[k].kind = "skipped", k[4] # "semantic",
             Gap(IF k[4] = "matrix" THEN k[3][2] ELSE k[3],
                 IF k[4] = "serialize" THEN k[4] ELSE "deserialize", TypeOf(k))
      PROVE  k \notin failures'
  <2>1. k[4] \in Rounds /\ k \in DOMAIN results /\ results[k] = "SKIP"
    BY <1>1, <1>5 DEF SkipInv, Finish
  <2>2. Gap(k[3], k[4], TypeOf(k))
    BY <1>5, <2>1 DEF Rounds
  <2>3. k \notin Undeclared
    BY <1>3, <2>2 DEF Undeclared
  <2>4. results'[k] = "SKIP"
    BY <1>2, <2>1, <2>3
  <2> QED
    BY <2>4 DEF FailInv
<1> QED
  BY <1>4, <1>5 DEF SkipsEnforced, TypeOf

\* With enforcement a run is green only if every worker's own skips were declared,
\* and a gap that was declared fails nothing (coverage.go:38-47), without the matrix.
THEOREM SkipsEnforcedCorrect ==
    ASSUME Distinct, ~FullMatrix
    PROVE  Spec => []SkipsEnforced
<1>1. RowsInv /\ FailInv /\ TypeOK /\ Flow /\ [Next]_vars => RowsInv' /\ FailInv' /\ (Kept \/ Finish)
  BY NextRows
<1>2. SkipInv /\ TypeOK /\ Flow /\ (Kept \/ Finish) /\ [Next]_vars => SkipInv'
  BY NextSkip
<1>3. Init => SkipInv /\ SkipsEnforced
  <2>1. Init => DOMAIN answers = {} /\ printed = FALSE
    BY DEF Init, NoRows, Rows
  <2> QED
    BY <2>1 DEF SkipInv, SkipsEnforced
<1>4. ASSUME SkipsEnforced, SkipInv, Flow, FailInv', [Next]_vars PROVE SkipsEnforced'
  <2>1. CASE Finish
    BY <1>4, <2>1, FinishEnforces
  <2>2. CASE ~Finish /\ stage # "done"
    <3>1. ~printed'
      BY <1>4, <2>2, OnlyFinishPrints DEF Flow
    <3> QED
      BY <3>1 DEF SkipsEnforced
  <2>3. CASE stage = "done"
    <3>1. UNCHANGED vars
      BY <1>4, <2>3, DoneStays
    <3> QED
      BY <1>4, <3>1 DEF vars, reportVars, endVars, SkipsEnforced, Skips
  <2> QED
    BY <2>1, <2>2, <2>3
<1> QED
  BY <1>1, <1>2, <1>3, <1>4, InitRows, InitType, NextType, InitFlow, NextFlow, PTL DEF Spec

-----------------------------------------------------------------------------
(* A run implements ReportLedger. *)

\* RunSuite returns an error only with a row that says so.
ErrInv == firstErr => failures # {}

\* Every step keeps the error in the report.
LEMMA NextErr ==
    ASSUME TypeOK, Flow, FailInv, FailInv', ErrInv, Kept \/ Finish, [Next]_vars
    PROVE  ErrInv'
<1>1. CASE Finish
  BY <1>1 DEF Finish, ErrInv, reportVars
<1> SUFFICES ASSUME Kept PROVE ErrInv'
  BY <1>1
<1>2. failures \subseteq failures'
  BY DEF FailInv, Kept
<1>3. ASSUME UNCHANGED firstErr PROVE ErrInv'
  BY <1>2, <1>3 DEF ErrInv
<1>4. CASE StartCase
  <2>1. CASE UNCHANGED firstErr
    BY <2>1, <1>3
  <2>2. CASE Add(Rows({Key(l, op) : l \in sub, op \in Rounds}, "ERROR"))
    <3> DEFINE keys == {Key(l, op) : l \in sub, op \in Rounds}
    <3>1. Key(Ref, "serialize") \in keys
      BY <1>4 DEF StartCase, Flow, Rounds
    <3>2. Add(Rows(keys, "ERROR"))
      BY <2>2
    <3> HIDE DEF keys
    <3>3. failures' = failures \cup keys
      BY <3>2 DEF Add, Rows
    <3> QED
      BY <3>1, <3>2, <3>3 DEF ErrInv
  <2> QED
    BY <1>4, <2>1, <2>2 DEF StartCase
<1>5. ASSUME NEW l \in Langs, NEW r, StartWorker(l) \/ Bind(l, r) \/ Replied(l, r) PROVE ErrInv'
  BY <1>5, <1>3 DEF StartWorker, Bind, Replied
<1>6. ASSUME NEW l \in Langs, SerRecord(l) \/ Compare(l) \/ DesRecord(l) PROVE ErrInv'
  BY <1>6, <1>3 DEF SerRecord, Compare, DesRecord, Recorded
<1>7. ASSUME NEW p \in Langs \X Langs, NEW r, Matrix(p, r) PROVE ErrInv'
  BY <1>7, <1>3 DEF Matrix
<1>8. CASE StartFails \/ Bound \/ SerDone \/ CompareDone
  BY <1>8, <1>3 DEF StartFails, Bound, SerDone, CompareDone
<1>9. CASE DesDone \/ MatrixDone \/ Cancel \/ UNCHANGED vars
  BY <1>9, <1>3 DEF DesDone, MatrixDone, Cancel, vars
<1> QED
  BY <1>1, <1>4, <1>5, <1>6, <1>7, <1>8, <1>9 DEF Next, Step, Terminated

\* Only two steps give an exit code.
LEMMA OnlyEndsExit ==
    ASSUME [Next]_vars, ~Finish, ~StartFails
    PROVE  exit' = exit
<1>1. ASSUME NEW l \in Langs, NEW r, StartWorker(l) \/ Bind(l, r) \/ Replied(l, r)
      PROVE  exit' = exit
  BY <1>1 DEF StartWorker, Bind, Replied, endVars
<1>2. ASSUME NEW l \in Langs, SerRecord(l) \/ Compare(l) \/ DesRecord(l) PROVE exit' = exit
  BY <1>2 DEF SerRecord, Compare, DesRecord, Recorded, endVars
<1>3. ASSUME NEW p \in Langs \X Langs, NEW r, Matrix(p, r) PROVE exit' = exit
  BY <1>3 DEF Matrix, endVars
<1>4. ASSUME Bound \/ StartCase PROVE exit' = exit
  BY <1>4 DEF Bound, StartCase, endVars
<1>5. ASSUME SerDone \/ CompareDone \/ DesDone \/ MatrixDone \/ Cancel PROVE exit' = exit
  BY <1>5 DEF SerDone, CompareDone, DesDone, MatrixDone, Cancel, endVars
<1>6. ASSUME UNCHANGED vars PROVE exit' = exit
  BY <1>6 DEF vars, endVars
<1> QED
  BY <1>1, <1>2, <1>3, <1>4, <1>5, <1>6 DEF Next, Step, Terminated

\* The keys whose skip no entry allows are those the ledger charges.
LEMMA ChargedKeys ==
    ASSUME TypeOK
    PROVE  Ledger!Charged = IF Enforce THEN Undeclared ELSE {}
<1>1. DOMAIN results \subseteq Keys
  BY TypeParts DEF ReportOK
<1>2. \A k : Declared(k) <=> Gap(k[3], k[4], TypeOf(k))
  BY DEF Declared, Gap
<1> QED
  BY <1>1, <1>2 DEF Ledger!Charged, Undeclared, Skips

\* The coverage check charges the skips the ledger charges.
LEMMA CloseRows ==
    ASSUME TypeOK, Add(IF Enforce THEN Rows(Undeclared, "FAIL") ELSE NoRows)
    PROVE  results' = [k \in DOMAIN results |->
                          IF k \in Ledger!Charged THEN "FAIL" ELSE results[k]]
<1>1. Ledger!Charged \subseteq DOMAIN results
  BY DEF Ledger!Charged
<1>2. Add(Rows(Ledger!Charged, "FAIL"))
  BY ChargedKeys DEF NoRows, Rows, Add, Over
<1>3. results' = Over(Rows(Ledger!Charged, "FAIL"), results)
  BY <1>2 DEF Add
<1> QED
  BY <1>1, <1>3 DEF Over, Rows

\* Every step of a run is a step of the ledger, or none.
LEMMA LedgerStep ==
    ASSUME TypeOK, Flow, RowsInv, FailInv, FailInv', ErrInv, Kept \/ Finish, [Next]_vars
    PROVE  [Ledger!Next]_(Ledger!vars)
<1>1. CASE stage = "done"
  BY <1>1, DoneStays DEF vars, reportVars, endVars, Ledger!vars
<1>2. CASE Finish
  <2>0. exit = "none"
    BY <1>2 DEF Finish, Flow
  <2>1. CASE firstErr
    <3>1. Ledger!Failed
      BY <2>1 DEF ErrInv, FailInv, Ledger!Failed
    <3>2. exit' = "one" /\ UNCHANGED results
      BY <1>2, <2>1 DEF Finish, reportVars
    <3>3. Ledger!Abort
      BY <2>0, <3>1, <3>2 DEF Ledger!Abort
    <3> QED
      BY <3>3 DEF Ledger!Next
  <2>2. CASE ~firstErr
    <3>1. /\ Add(IF Enforce THEN Rows(Undeclared, "FAIL") ELSE NoRows)
          /\ exit' = IF failures' = {} THEN "zero" ELSE "one"
      BY <1>2, <2>2 DEF Finish
    <3>2. results' = [k \in DOMAIN results |->
                         IF k \in Ledger!Charged THEN "FAIL" ELSE results[k]]
      BY <3>1, CloseRows
    <3>3. failures' # {} <=> \E k \in DOMAIN results' : results'[k] \in {"FAIL", "ERROR"}
      BY DEF FailInv
    <3>4. Ledger!Close
      BY <2>0, <3>1, <3>2, <3>3 DEF Ledger!Close, Ledger!Failed
    <3> QED
      BY <3>4 DEF Ledger!Next
  <2> QED
    BY <2>1, <2>2
<1>3. CASE StartFails
  <2>1. stage = "start" /\ exit' = "one" /\ UNCHANGED results
    BY <1>3 DEF StartFails, reportVars
  <2>2. DOMAIN results = {}
    BY <2>1 DEF RowsInv, Due, InGroup
  <2>3. exit = "none"
    BY <2>1, TypeParts DEF Flow
  <2>4. Ledger!Abort
    BY <2>1, <2>2, <2>3 DEF Ledger!Abort
  <2> QED
    BY <2>4 DEF Ledger!Next
<1>4. CASE stage # "done" /\ ~Finish /\ ~StartFails
  <2>1. exit = "none" /\ exit' = exit /\ Kept
    BY <1>4, OnlyEndsExit DEF Flow
  <2>2. Ledger!Record
    BY <2>1 DEF Ledger!Record, Kept
  <2> QED
    BY <2>2 DEF Ledger!Next
<1> QED
  BY <1>1, <1>2, <1>3, <1>4

\* A run implements the ledger, for every suite whose case names are distinct and
\* whatever the workers answer, interrupted or not: no verdict is overwritten but
\* by the coverage check, which fails exactly the skips no entry allows, and the
\* exit code follows the last row (coverage.go:38-47, run.go:182-214).
THEOREM LedgerCorrect ==
    ASSUME Distinct
    PROVE  Spec => ImplementsLedger
<1>1. RowsInv /\ FailInv /\ TypeOK /\ Flow /\ [Next]_vars
          => RowsInv' /\ FailInv' /\ (Kept \/ Finish)
  BY NextRows
<1>2. TypeOK /\ Flow /\ FailInv /\ FailInv' /\ ErrInv /\ (Kept \/ Finish) /\ [Next]_vars => ErrInv'
  BY NextErr
<1>3. TypeOK /\ Flow /\ RowsInv /\ FailInv /\ FailInv' /\ ErrInv /\ (Kept \/ Finish) /\ [Next]_vars
          => [Ledger!Next]_(Ledger!vars)
  BY LedgerStep
<1>4. Init => ErrInv
  BY DEF Init, ErrInv
<1>5. Init => Ledger!Init
  BY DEF Init, NoRows, Rows, Ledger!Init
<1> QED
  BY <1>1, <1>2, <1>3, <1>4, <1>5, InitRows, InitType, NextType, InitFlow, NextFlow, PTL
     DEF Spec, ImplementsLedger, Ledger!Spec
=============================================================================
