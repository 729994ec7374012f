----------------------- MODULE OrchestratorMatchProofs -----------------------
(* A passing row stands for a comparison, of what the functions it names made: *)
(* PassMeansMatch of Orchestrator and PassedByItsPair of BoundRun, for every    *)
(* suite whose case names are distinct.                                        *)
EXTENDS OrchestratorProofs, BoundRun

Distinct == \A m, n \in DOMAIN CaseNames : CaseNames[m] = CaseNames[n] => m = n

\* Where a key stands in the order of the run.
Past(k) == \/ k[1] < g
           \/ k[1] = g /\ \E n \in DOMAIN CaseNames : n < i /\ k[2] = CaseNames[n]
Now(k) == k[1] = g /\ k[2] = Case

Passed == {k \in DOMAIN results : results[k] \in {"PASS", "XPASS"}}

\* Groups and case names are counted from 1, and there is at least one of each.
LEMMA Indices ==
    /\ DOMAIN Groups = 1..Len(Groups) /\ DOMAIN CaseNames = 1..Len(CaseNames)
    /\ Len(Groups) \in Nat \ {0} /\ Len(CaseNames) \in Nat \ {0}
<1>1. /\ DOMAIN Groups = 1..Len(Groups) /\ DOMAIN CaseNames = 1..Len(CaseNames)
      /\ Len(Groups) \in Nat /\ Len(CaseNames) \in Nat
  BY SuiteAssumption
<1> QED
  BY <1>1, SuiteAssumption

\* A key is a group, a case name, a worker or pair, and an operation.
LEMMA KeyParts ==
    ASSUME NEW k \in Keys
    PROVE  k = <<k[1], k[2], k[3], k[4]>> /\ k[1] \in Nat /\ k[1] \in DOMAIN Groups
  BY Indices DEF Keys

\* With distinct names no key of the current case belongs to an earlier one.
LEMMA PastNotNow ==
    ASSUME Distinct, ControlOK, NEW k \in Keys, Past(k)
    PROVE  ~Now(k)
  BY KeyParts, Indices DEF Distinct, ControlOK, Past, Now, Case

\* The current case is past once the run has moved on.
LEMMA MovesOn ==
    ASSUME ControlOK, NextCase, NEW k \in Keys, Past(k) \/ Now(k)
    PROVE  /\ stage' = "case" => Past(k)'
           /\ stage' = "bind" => k[1] < g'
<1> USE KeyParts, Indices DEF ControlOK
<1>1. CASE i < Len(CaseNames)
  <2>1. stage' = "case" /\ i' = i + 1 /\ g' = g
    BY <1>1 DEF NextCase
  <2>2. Past(k)'
    BY <2>1 DEF Past, Now, Case
  <2> QED
    BY <2>1, <2>2
<1>2. CASE ~(i < Len(CaseNames))
  BY <1>2 DEF NextCase, NextGroup, Past, Now
<1> QED
  BY <1>1, <1>2

\* The keys of a group lie behind the run once it leaves the group.
LEMMA NextGroupMovesOn ==
    ASSUME ControlOK, NextGroup, NEW k \in Keys, k[1] <= g
    PROVE  stage' \in {"bind", "finish"} /\ (stage' = "bind" => k[1] < g')
  BY KeyParts, Indices DEF ControlOK, NextGroup

\* Which rows pass once some rows were added.
LEMMA AddPassed ==
    ASSUME NEW rows, Add(rows)
    PROVE  Passed' \subseteq (Passed \ DOMAIN rows)
                             \cup {k \in DOMAIN rows : rows[k] \in {"PASS", "XPASS"}}
  BY AddRows DEF Passed

\* A new answer leaves the judgement of the rows it does not concern alone.
LEMMA ConformsFrame ==
    ASSUME NEW j, NEW r, answers' = Over(Rows({j}, r), answers), NEW k, Conforms(k),
           k # j, <<k[1], k[2], Ref, "serialize">> # j, <<k[1], k[2], k[3], "semantic">> # j
    PROVE  Conforms(k)'
<1>1. DOMAIN answers' = {j} \cup DOMAIN answers
      /\ \A x \in DOMAIN answers \ {j} : answers'[x] = answers[x]
  BY DEF Over, Rows
<1> DEFINE refKey == <<k[1], k[2], Ref, "serialize">>
           semantic == <<k[1], k[2], k[3], "semantic">>
<1>2. k \in DOMAIN answers /\ k \in DOMAIN answers' /\ answers'[k] = answers[k]
  BY <1>1 DEF Conforms
<1>3. /\ refKey \in DOMAIN answers' <=> refKey \in DOMAIN answers
      /\ refKey \in DOMAIN answers => answers'[refKey] = answers[refKey]
      /\ semantic \in DOMAIN answers =>
            semantic \in DOMAIN answers' /\ answers'[semantic] = answers[semantic]
  BY <1>1
<1> QED
  BY <1>2, <1>3 DEF Conforms, Good

-----------------------------------------------------------------------------
(* The inductive invariant. *)

Match == \A k \in Passed : Conforms(k)

\* Rows of the current case pass only once the stage that judges them is reached.
PassPlaced ==
    \A k \in Passed :
        /\ stage # "start"
        /\ stage = "bind" => k[1] < g
        /\ stage = "case" => Past(k)
        /\ stage = "ser" => Past(k) \/ (k = Key(Ref, "serialize") /\ Ref \notin todo)
        /\ stage = "compare" => Past(k) \/ (Now(k) /\ k[4] = "serialize")
        /\ stage = "des" => Past(k) \/ (Now(k) /\ k[4] \in Rounds)
        /\ stage = "matrix" => Past(k) \/ Now(k)

\* Nothing was answered yet of what the run has not reached.
AnswersPlaced ==
    \A k \in DOMAIN answers :
        /\ stage # "start"
        /\ stage = "bind" => k[1] < g
        /\ stage = "case" => Past(k)
        /\ stage \in {"ser", "compare", "des", "matrix"} => Past(k) \/ Now(k)

\* The outputs of round 1 are those of the answers, and the reference has none only
\* if it did not answer with one.
HexInv ==
    stage \in {"ser", "compare", "des", "matrix"} =>
        /\ \A l \in Langs : hex[l] # "none" =>
              /\ Key(l, "serialize") \in DOMAIN answers
              /\ answers[Key(l, "serialize")].kind = "ok"
              /\ answers[Key(l, "serialize")].value = hex[l]
        /\ hex[Ref] = "none" =>
              ~(/\ Key(Ref, "serialize") \in DOMAIN answers
                /\ answers[Key(Ref, "serialize")].kind = "ok")

MatchInv == Match /\ PassPlaced /\ AnswersPlaced /\ HexInv

\* The invariant implies the property.
LEMMA MatchParts ==
    /\ MatchInv => PassMeansMatch
    /\ ReportOK => Passed \subseteq Keys
    /\ AnswersOK => DOMAIN answers \subseteq Keys
  BY DEF MatchInv, Match, PassMeansMatch, Passed, ReportOK, AnswersOK

\* What conformed goes on to, as long as the answers stay.
LEMMA KeepConforms ==
    ASSUME UNCHANGED answers, NEW k, Conforms(k)
    PROVE  Conforms(k)'
  BY DEF Conforms, Good

\* No new pass and no new answer: what passes conforms.
LEMMA KeepMatch ==
    ASSUME MatchInv, UNCHANGED answers, Passed' \subseteq Passed
    PROVE  Match'
  BY KeepConforms DEF MatchInv, Match

\* Rows none of which passes.
LEMMA NoPass ==
    ASSUME NEW rows, Add(rows), \A k \in DOMAIN rows : rows[k] \notin {"PASS", "XPASS"}
    PROVE  Passed' \subseteq Passed
  BY AddPassed

\* A report that is left alone passes what it passed.
LEMMA KeepPassed ==
    ASSUME UNCHANGED reportVars
    PROVE  Passed' = Passed
  BY DEF Passed, reportVars

\* Rows with a status that is no pass pass nothing.
LEMMA NoPassRows ==
    ASSUME NEW keys, NEW s \in {"SKIP", "ERROR", "CASCADE", "FAIL"}, Add(Rows(keys, s))
    PROVE  Passed' \subseteq Passed
<1>1. \A k \in DOMAIN Rows(keys, s) : Rows(keys, s)[k] \notin {"PASS", "XPASS"}
  BY DEF Rows
<1> QED
  BY <1>1, NoPass

\* Adding nothing passes nothing.
LEMMA NoPassNoRows ==
    ASSUME Add(NoRows)
    PROVE  Passed' \subseteq Passed
  BY NoPassRows DEF NoRows

\* A case that ends in any way but a pass leaves what is past as it was.
LEMMA AfterCase ==
    ASSUME TypeOK, MatchInv, stage \in {"case", "ser", "compare", "des", "matrix"}, NextCase,
           UNCHANGED answers, Passed' \subseteq Passed
    PROVE  MatchInv'
<1>1. ControlOK /\ Passed \subseteq Keys /\ DOMAIN answers \subseteq Keys
  BY TypeParts, MatchParts
<1>2. stage' \in {"bind", "case", "finish"}
  BY <1>1, AdvanceFlow
<1>3. Match'
  BY KeepMatch
<1>4. ASSUME NEW k \in Keys, Past(k) \/ Now(k)
      PROVE  (stage' = "case" => Past(k)') /\ (stage' = "bind" => k[1] < g')
  BY <1>1, <1>4, MovesOn
<1>5. \A k \in Passed : Past(k) \/ Now(k)
  BY DEF MatchInv, PassPlaced, Key, Now
<1>6. \A k \in DOMAIN answers : Past(k) \/ Now(k)
  BY DEF MatchInv, AnswersPlaced
<1>7. PassPlaced'
  BY <1>1, <1>2, <1>4, <1>5 DEF PassPlaced
<1>8. AnswersPlaced'
  BY <1>1, <1>2, <1>4, <1>6 DEF AnswersPlaced
<1>9. HexInv'
  BY <1>2 DEF HexInv
<1> QED
  BY <1>3, <1>7, <1>8, <1>9 DEF MatchInv

\* Nothing the invariant speaks of changed, but for rows that do not pass.
LEMMA Quiet ==
    ASSUME MatchInv, UNCHANGED <<stage, g, i, hex, answers>>, todo' \subseteq todo,
           Passed' \subseteq Passed
    PROVE  MatchInv'
<1>1. Match'
  BY KeepMatch
<1>2. PassPlaced'
  BY DEF MatchInv, PassPlaced, Past, Now, Key, Case
<1>3. AnswersPlaced'
  BY DEF MatchInv, AnswersPlaced, Past, Now, Case
<1>4. HexInv'
  BY DEF MatchInv, HexInv, Key, Case
<1> QED
  BY <1>1, <1>2, <1>3, <1>4 DEF MatchInv

-----------------------------------------------------------------------------
(* Every step keeps it. *)

\* One new answer for the current case, and rows of which only its own can pass.
LEMMA Judged ==
    ASSUME TypeOK, MatchInv, Distinct, stage \in {"ser", "compare", "des", "matrix"},
           UNCHANGED <<stage, g, i>>, todo' \subseteq todo,
           NEW j \in Keys, Now(j), NEW r, answers' = Over(Rows({j}, r), answers),
           NEW own \in Keys, Now(own), Passed' \subseteq Passed \cup {own},
           own \in Passed' => Conforms(own)',
           \A k \in Passed \ {own} : Now(k) =>
              /\ k # j
              /\ <<k[1], k[2], Ref, "serialize">> # j
              /\ <<k[1], k[2], k[3], "semantic">> # j,
           own \in Passed' =>
              /\ stage = "ser" => own = Key(Ref, "serialize") /\ Ref \notin todo'
              /\ stage = "compare" => own[4] = "serialize"
              /\ stage = "des" => own[4] \in Rounds,
           HexInv'
    PROVE  MatchInv'
<1>1. ControlOK /\ Passed \subseteq Keys /\ DOMAIN answers \subseteq Keys
  BY TypeParts, MatchParts
<1>2. ASSUME NEW k \in Passed \ {own} PROVE Conforms(k)'
  <2>1. k # j /\ <<k[1], k[2], Ref, "serialize">> # j /\ <<k[1], k[2], k[3], "semantic">> # j
    <3>1. CASE Now(k)
      BY <3>1, <1>2
    <3>2. CASE ~Now(k)
      BY <3>2 DEF Now
    <3> QED
      BY <3>1, <3>2
  <2>2. Conforms(k)
    BY <1>2 DEF MatchInv, Match
  <2> QED
    BY <2>1, <2>2, ConformsFrame
<1>3. Match'
  BY <1>2 DEF Match
<1>4. PassPlaced'
  <2>1. ASSUME NEW k \in Passed \ {own} PROVE
          /\ stage = "ser" => Past(k) \/ (k = Key(Ref, "serialize") /\ Ref \notin todo)
          /\ stage = "compare" => Past(k) \/ (Now(k) /\ k[4] = "serialize")
          /\ stage = "des" => Past(k) \/ (Now(k) /\ k[4] \in Rounds)
          /\ stage = "matrix" => Past(k) \/ Now(k)
    BY <2>1 DEF MatchInv, PassPlaced
  <2>2. \A k : (Past(k)' <=> Past(k)) /\ (Now(k)' <=> Now(k))
    BY DEF Past, Now, Case
  <2>3. Key(Ref, "serialize")' = Key(Ref, "serialize")
    BY DEF Key, Case
  <2> QED
    BY <2>1, <2>2, <2>3 DEF PassPlaced
<1>5. AnswersPlaced'
  <2>1. DOMAIN answers' = {j} \cup DOMAIN answers
    BY DEF Over, Rows
  <2>2. \A k : (Past(k)' <=> Past(k)) /\ (Now(k)' <=> Now(k))
    BY DEF Past, Now, Case
  <2> QED
    BY <2>1, <2>2 DEF MatchInv, AnswersPlaced
<1> QED
  BY <1>3, <1>4, <1>5 DEF MatchInv

\* A row that a goroutine records, with the audit findings that came along.
LEMMA RecordedRow ==
    ASSUME NEW l, NEW op \in {"audit-serialize", "audit-deserialize"}, NEW own, NEW s,
           own # Key(l, op), Add(Over(AuditRows(l, op), Rows({own}, s)))
    PROVE  /\ Passed' \subseteq Passed \cup {own}
           /\ own \in Passed' => s \in {"PASS", "XPASS"}
<1> DEFINE rows == Over(AuditRows(l, op), Rows({own}, s))
<1>1. DOMAIN rows = DOMAIN AuditRows(l, op) \cup {own}
  BY DEF Over, Rows
<1>2. DOMAIN AuditRows(l, op) \subseteq {Key(l, op)}
      /\ \A k \in DOMAIN AuditRows(l, op) : AuditRows(l, op)[k] = "WARN"
  BY DEF AuditRows, NoRows, Rows
<1>3. rows[own] = s /\ \A k \in DOMAIN AuditRows(l, op) : rows[k] = "WARN"
  BY <1>2 DEF Over, Rows
<1>4. Add(rows)
  OBVIOUS
<1> HIDE DEF rows
<1> QED
  BY <1>1, <1>2, <1>3, <1>4, AddPassed

\* The same without the row: only findings.
LEMMA RecordedFindings ==
    ASSUME NEW l, NEW op, Add(Over(AuditRows(l, op), NoRows))
    PROVE  Passed' \subseteq Passed
<1> DEFINE rows == Over(AuditRows(l, op), NoRows)
<1>1. \A k \in DOMAIN AuditRows(l, op) : AuditRows(l, op)[k] = "WARN"
  BY DEF AuditRows, NoRows, Rows
<1>2. \A k \in DOMAIN rows : rows[k] = "WARN"
  BY <1>1 DEF Over, NoRows, Rows
<1> QED
  BY <1>2, NoPass

\* Round 1 passes only the reference's own row, which its answer settles.
LEMMA SerRecordMatch ==
    ASSUME TypeOK, Flow, MatchInv, Distinct, NEW l \in Langs, SerRecord(l)
    PROVE  MatchInv'
<1> SUFFICES ASSUME NEW own, own = Key(l, "serialize") PROVE MatchInv'
  OBVIOUS
<1>1. /\ ControlOK /\ Passed \subseteq Keys /\ stage = "ser" /\ l \in todo /\ hex[l] = "none"
      /\ UNCHANGED <<stage, g, i>> /\ todo' = todo \ {l}
  BY TypeParts, MatchParts DEF Flow, SerRecord, Recorded
<1>2. CASE cancelled
  BY <1>1, <1>2, KeepPassed, Quiet DEF SerRecord
<1>3. CASE ~cancelled
  <2>1. own \in Keys /\ Now(own) /\ inbox[l] \in Reply
    BY <1>1, KeyType DEF Ops, Key, Now, ControlOK
  <2>2. answers' = Over(Rows({own}, inbox[l]), answers)
    BY <1>3 DEF SerRecord
  <2>3. own \in DOMAIN answers' /\ answers'[own] = inbox[l]
        /\ DOMAIN answers' = {own} \cup DOMAIN answers
        /\ \A k \in DOMAIN answers \ {own} : answers'[k] = answers[k]
    BY <2>2 DEF Over, Rows
  <2>4. \A k \in Passed : Now(k) => k = Key(Ref, "serialize") /\ Ref \notin todo
    BY <1>1, PastNotNow DEF MatchInv, PassPlaced
  <2>5. own \notin Passed
    BY <1>1, <2>1, <2>4 DEF Key
  <2>6. Passed' \subseteq Passed \cup {own} /\ (own \in Passed' => l = Ref /\ inbox[l].kind = "ok")
    <3>1. CASE inbox[l].kind = "ok" /\ l # Ref
      <4>1. Add(Over(AuditRows(l, "audit-serialize"), NoRows))
        BY <1>3, <3>1 DEF SerRecord
      <4> QED
        BY <2>5, <4>1, RecordedFindings
    <3>2. CASE ~(inbox[l].kind = "ok" /\ l # Ref)
      <4>1. Add(Over(AuditRows(l, "audit-serialize"), Rows({own}, ResolveResult(inbox[l], Known(l)))))
        BY <1>3, <3>2 DEF SerRecord
      <4>2. own # Key(l, "audit-serialize")
        BY DEF Key
      <4>3. ResolveResult(inbox[l], Known(l)) \in {"PASS", "XPASS"} => inbox[l].kind = "ok"
        BY DEF ResolveResult
      <4> QED
        BY <3>2, <4>1, <4>2, <4>3, RecordedRow
    <3> QED
      BY <3>1, <3>2
  <2>7. own \in Passed' => Conforms(own)'
    BY <2>3, <2>6 DEF Conforms, Key
  <2>8. \A k \in Passed \ {own} : Now(k) =>
           k # own /\ <<k[1], k[2], Ref, "serialize">> # own /\ <<k[1], k[2], k[3], "semantic">> # own
    BY <1>1, <2>4 DEF Key
  <2>9. hex' = IF inbox[l].kind = "ok" THEN [hex EXCEPT ![l] = inbox[l].value] ELSE hex
    BY <1>3 DEF SerRecord
  <2>10. HexInv'
    <3>1. \A m \in Langs \ {l} : hex'[m] = hex[m] /\ Key(m, "serialize") # own
      BY <2>9 DEF ControlOK, Key
    <3>2. hex'[l] = IF inbox[l].kind = "ok" THEN inbox[l].value ELSE "none"
      BY <1>1, <2>9 DEF ControlOK
    <3>3. inbox[l].value # "none"
      BY <2>1 DEF Reply, Values
    <3>4. \A m : Key(m, "serialize")' = Key(m, "serialize")
      BY <1>1 DEF Key, Case
    <3>5. ASSUME NEW m \in Langs, hex'[m] # "none"
          PROVE  /\ Key(m, "serialize") \in DOMAIN answers'
                 /\ answers'[Key(m, "serialize")].kind = "ok"
                 /\ answers'[Key(m, "serialize")].value = hex'[m]
      BY <1>1, <2>3, <3>1, <3>2, <3>5 DEF MatchInv, HexInv
    <3>6. hex'[Ref] = "none" =>
             ~(/\ Key(Ref, "serialize") \in DOMAIN answers'
               /\ answers'[Key(Ref, "serialize")].kind = "ok")
      BY <1>1, <2>3, <3>1, <3>2, <3>3, SuiteAssumption DEF MatchInv, HexInv
    <3> QED
      BY <3>4, <3>5, <3>6 DEF HexInv
  <2>11. own \in Passed' => own = Key(Ref, "serialize") /\ Ref \notin todo'
    BY <1>1, <2>6
  <2> QED
    BY <1>1, <2>1, <2>2, <2>6, <2>7, <2>8, <2>10, <2>11, Judged
<1> QED
  BY <1>2, <1>3

\* A candidate's bytes pass when they are the reference's or the reference decodes them
\* to the data of the case.
LEMMA CompareMatch ==
    ASSUME TypeOK, Flow, MatchInv, Distinct, NEW l \in Langs, Compare(l)
    PROVE  MatchInv'
<1> SUFFICES ASSUME NEW own, own = Key(l, "serialize") PROVE MatchInv'
  OBVIOUS
<1>1. /\ ControlOK /\ Passed \subseteq Keys /\ stage = "compare" /\ l # Ref /\ hex[l] # "none"
      /\ UNCHANGED <<stage, g, i, hex>> /\ todo' = todo \ {l}
  BY TypeParts, MatchParts DEF Flow, Compare
<1>2. own \in Keys /\ Now(own)
  BY <1>1, KeyType DEF Ops, Key, Now
<1>3. own \in DOMAIN answers /\ answers[own].kind = "ok" /\ answers[own].value = hex[l]
  BY <1>1 DEF MatchInv, HexInv
<1>4. \A k \in Passed : Now(k) => k[4] = "serialize"
  BY <1>1, PastNotNow DEF MatchInv, PassPlaced
<1>5. ASSUME NEW s, Add(Rows({own}, s))
      PROVE  Passed' \subseteq Passed \cup {own} /\ (own \in Passed' => s \in {"PASS", "XPASS"})
  BY <1>5, AddPassed DEF Rows
<1>6. ASSUME NEW s, Add(Rows({own}, s)), UNCHANGED answers,
             s \in {"PASS", "XPASS"} => Conforms(own)
      PROVE  MatchInv'
  <2>1. Match'
    BY <1>5, <1>6, KeepConforms DEF MatchInv, Match
  <2>2. PassPlaced'
    BY <1>1, <1>2, <1>5, <1>6 DEF MatchInv, PassPlaced, Past, Now, Case, Key
  <2>3. AnswersPlaced'
    BY <1>1, <1>6 DEF MatchInv, AnswersPlaced, Past, Now, Case
  <2>4. HexInv'
    BY <1>1, <1>6 DEF MatchInv, HexInv, Key, Case
  <2> QED
    BY <2>1, <2>2, <2>3, <2>4 DEF MatchInv
<1>7. CASE hex[Ref] = "none"
  <2>1. Conforms(own)
    BY <1>1, <1>3, <1>7 DEF MatchInv, HexInv, Conforms, Key
  <2> QED
    BY <1>6, <1>7, <2>1 DEF Compare
<1>8. CASE hex[Ref] # "none" /\ Groups[g].oracle = "bytes"
  <2>1. Add(Rows({own}, Verdict(hex[l] # hex[Ref], Known(l)))) /\ UNCHANGED answers
    BY <1>8 DEF Compare
  <2>2. Verdict(hex[l] # hex[Ref], Known(l)) \in {"PASS", "XPASS"} => hex[l] = hex[Ref]
    BY DEF Verdict
  <2>3. answers[Key(Ref, "serialize")].value = hex[Ref]
    BY <1>1, <1>8, SuiteAssumption DEF MatchInv, HexInv
  <2>4. hex[l] = hex[Ref] => Conforms(own)
    BY <1>3, <1>8, <2>3 DEF Conforms, Key
  <2> QED
    BY <1>6, <2>1, <2>2, <2>4
<1>9. CASE hex[Ref] # "none" /\ Groups[g].oracle # "bytes"
  <2>1. PICK r : /\ Sends(Ref, r)
                 /\ Add(Rows({own}, Verdict(~Good(r), Known(l))))
                 /\ answers' = Over(Rows({Key(l, "semantic")}, r), answers)
    BY <1>9 DEF Compare
  <2> SUFFICES ASSUME NEW j, j = Key(l, "semantic") PROVE MatchInv'
    OBVIOUS
  <2>2. j \in Keys /\ Now(j) /\ answers' = Over(Rows({j}, r), answers)
    BY <1>1, <2>1, KeyType DEF Ops, Key, Now
  <2>3. /\ DOMAIN answers' = {j} \cup DOMAIN answers /\ answers'[j] = r
        /\ \A k \in DOMAIN answers \ {j} : answers'[k] = answers[k]
    BY <2>2 DEF Over, Rows
  <2>4. Verdict(~Good(r), Known(l)) \in {"PASS", "XPASS"} => Good(r)
    BY DEF Verdict
  <2>5. Passed' \subseteq Passed \cup {own} /\ (own \in Passed' => Good(r))
    BY <1>5, <2>1, <2>4
  <2>6. own[4] = "serialize" /\ own # j /\ <<own[1], own[2], own[3], "semantic">> = j
        /\ <<own[1], own[2], Ref, "serialize">> # j /\ Groups[own[1]].oracle # "bytes"
    BY <1>9 DEF Key
  <2>7. own \in Passed' => Conforms(own)'
    BY <1>3, <2>3, <2>5, <2>6 DEF Conforms, Good
  <2>8. ASSUME NEW k \in Passed \ {own}, Now(k)
        PROVE  k # j /\ <<k[1], k[2], Ref, "serialize">> # j /\ <<k[1], k[2], k[3], "semantic">> # j
    <3>1. k[4] = "serialize" /\ k = <<k[1], k[2], k[3], k[4]>> /\ k[1] = g /\ k[2] = Case
      BY <1>1, <1>4, <2>8, KeyParts DEF Now
    <3>2. k[3] # l
      BY <2>8, <3>1 DEF Key
    <3> QED
      BY <3>1, <3>2 DEF Key
  <2>9. HexInv'
    <3>1. \A m : Key(m, "serialize")' = Key(m, "serialize") /\ Key(m, "serialize") # j
      BY <1>1 DEF Key, Case
    <3> QED
      BY <1>1, <2>3, <3>1 DEF MatchInv, HexInv
  <2> QED
    BY <1>1, <1>2, <2>2, <2>5, <2>6, <2>7, <2>8, <2>9, Judged
<1> QED
  BY <1>7, <1>8, <1>9

\* Round 2 passes a worker that returned the data of the case.
LEMMA DesRecordMatch ==
    ASSUME TypeOK, Flow, MatchInv, Distinct, NEW l \in Langs, DesRecord(l)
    PROVE  MatchInv'
<1> SUFFICES ASSUME NEW own, own = Key(l, "deserialize") PROVE MatchInv'
  OBVIOUS
<1>1. /\ ControlOK /\ Passed \subseteq Keys /\ stage = "des"
      /\ UNCHANGED <<stage, g, i, hex>> /\ todo' = todo \ {l}
  BY TypeParts, MatchParts DEF Flow, DesRecord, Recorded
<1>2. CASE cancelled
  BY <1>1, <1>2, KeepPassed, Quiet DEF DesRecord
<1>3. CASE ~cancelled
  <2>1. own \in Keys /\ Now(own)
    BY <1>1, KeyType DEF Ops, Key, Now
  <2>2. answers' = Over(Rows({own}, inbox[l]), answers)
    BY <1>3 DEF DesRecord
  <2>3. own \in DOMAIN answers' /\ answers'[own] = inbox[l]
        /\ DOMAIN answers' = {own} \cup DOMAIN answers
        /\ \A k \in DOMAIN answers \ {own} : answers'[k] = answers[k]
    BY <2>2 DEF Over, Rows
  <2>4. \A k \in Passed : Now(k) => k[4] \in Rounds
    BY <1>1, PastNotNow DEF MatchInv, PassPlaced
  <2> DEFINE s == IF inbox[l].kind = "ok" THEN Verdict(~Good(inbox[l]), Known(l))
                  ELSE ResolveResult(inbox[l], Known(l))
  <2>5. Add(Over(AuditRows(l, "audit-deserialize"), Rows({own}, s)))
    BY <1>3 DEF DesRecord
  <2>6. s \in {"PASS", "XPASS"} => Good(inbox[l])
    BY DEF Verdict, ResolveResult
  <2>7. own # Key(l, "audit-deserialize")
    BY DEF Key
  <2>8. Passed' \subseteq Passed \cup {own} /\ (own \in Passed' => Good(inbox[l]))
    <3> HIDE DEF s
    <3> QED
      BY <2>5, <2>6, <2>7, RecordedRow
  <2>9. own \in Passed' => Conforms(own)'
    BY <2>3, <2>8 DEF Conforms, Key, Good
  <2>10. \A k \in Passed \ {own} : Now(k) =>
           k # own /\ <<k[1], k[2], Ref, "serialize">> # own /\ <<k[1], k[2], k[3], "semantic">> # own
    BY DEF Key
  <2>11. HexInv'
    <3>1. \A m : Key(m, "serialize")' = Key(m, "serialize") /\ Key(m, "serialize") # own
      BY <1>1 DEF Key, Case
    <3> QED
      BY <1>1, <2>3, <3>1 DEF MatchInv, HexInv
  <2>12. own[4] \in Rounds
    BY DEF Key, Rounds
  <2> QED
    BY <1>1, <2>1, <2>2, <2>8, <2>9, <2>10, <2>11, <2>12, Judged
<1> QED
  BY <1>2, <1>3

\* The matrix passes a pair whose destination returned the data of the case.
LEMMA MatrixMatch ==
    ASSUME TypeOK, Flow, MatchInv, Distinct, FullMatrix => KnownFails = {},
           NEW p \in Langs \X Langs, NEW r, Matrix(p, r)
    PROVE  MatchInv'
<1> SUFFICES ASSUME NEW own, own = Key(p, "matrix") PROVE MatchInv'
  OBVIOUS
<1>1. /\ ControlOK /\ Passed \subseteq Keys /\ stage = "matrix" /\ FullMatrix
      /\ UNCHANGED <<stage, g, i, hex>> /\ todo' = todo \ {p}
  BY TypeParts, MatchParts DEF Flow, Matrix
<1>2. own \in Keys /\ Now(own)
  BY <1>1, KeyType DEF Ops, Key, Now
<1>3. answers' = Over(Rows({own}, r), answers) /\ Add(Rows({own}, MatrixStatus(r, Known(p[2]))))
  BY DEF Matrix
<1>4. own \in DOMAIN answers' /\ answers'[own] = r
      /\ DOMAIN answers' = {own} \cup DOMAIN answers
      /\ \A k \in DOMAIN answers \ {own} : answers'[k] = answers[k]
  BY <1>3 DEF Over, Rows
<1>5. ~Known(p[2])
  BY <1>1 DEF Known
<1>6. MatrixStatus(r, Known(p[2])) \in {"PASS", "XPASS"} => Good(r)
  BY <1>5 DEF MatrixStatus, ResolveResult
<1>7. Passed' \subseteq Passed \cup {own}
      /\ (own \in Passed' => MatrixStatus(r, Known(p[2])) \in {"PASS", "XPASS"})
  BY <1>3, AddPassed DEF Rows
<1>8. own \in Passed' => Conforms(own)'
  BY <1>4, <1>6, <1>7 DEF Conforms, Key, Good
<1>9. \A k \in Passed \ {own} : Now(k) =>
         k # own /\ <<k[1], k[2], Ref, "serialize">> # own /\ <<k[1], k[2], k[3], "semantic">> # own
  BY DEF Key
<1>10. HexInv'
  <2>1. \A m : Key(m, "serialize")' = Key(m, "serialize") /\ Key(m, "serialize") # own
    BY <1>1 DEF Key, Case
  <2> QED
    BY <1>1, <1>4, <2>1 DEF MatchInv, HexInv
<1> QED
  BY <1>1, <1>2, <1>3, <1>7, <1>8, <1>9, <1>10, Judged

\* Before the first group, and after the last, rows of the past are all there is.
LEMMA Ended ==
    ASSUME MatchInv, UNCHANGED answers, Passed' \subseteq Passed, stage' \in {"finish", "done"}
    PROVE  MatchInv'
  BY KeepMatch DEF MatchInv, PassPlaced, AnswersPlaced, HexInv

\* Every step keeps the invariant.
LEMMA NextMatch ==
    ASSUME TypeOK, Flow, MatchInv, Distinct, FullMatrix => KnownFails = {}, [Next]_vars
    PROVE  MatchInv'
<1>a. ControlOK /\ Passed \subseteq Keys /\ DOMAIN answers \subseteq Keys
  BY TypeParts, MatchParts
<1>1. ASSUME NEW l \in Langs, StartWorker(l) PROVE MatchInv'
  <2>1. Passed = {} /\ DOMAIN answers = {} /\ UNCHANGED <<answers>> /\ Passed' = Passed
    BY <1>1, KeepPassed DEF StartWorker, MatchInv, PassPlaced, AnswersPlaced
  <2> QED
    BY <1>1, <2>1, KeepMatch DEF StartWorker, MatchInv, PassPlaced, AnswersPlaced, HexInv
<1>2. CASE StartFails
  BY <1>2, KeepPassed, Ended DEF StartFails
<1>3. ASSUME NEW l \in Langs, NEW r, Bind(l, r) PROVE MatchInv'
  <2>1. Add(NoRows) \/ Add(TypeRows({l}, "SKIP")) \/ Add(TypeRows({l}, "ERROR"))
    BY <1>3 DEF Bind
  <2>2. Passed' \subseteq Passed
    BY <2>1, NoPassNoRows, NoPassRows DEF TypeRows
  <2>3. UNCHANGED <<stage, g, i, hex, answers>> /\ todo' \subseteq todo
    BY <1>3 DEF Bind
  <2> QED
    BY <2>2, <2>3, Quiet
<1>4. CASE Bound
  <2>1. Passed' \subseteq Passed
    <3>1. Add(NoRows) \/ Add(TypeRows(sub, "CASCADE"))
      BY <1>4 DEF Bound
    <3> QED
      BY <3>1, NoPassNoRows, NoPassRows DEF TypeRows
  <2>2. \A k \in Passed \cup DOMAIN answers : k \in Keys /\ k[1] < g
    BY <1>4, <1>a DEF Bound, MatchInv, PassPlaced, AnswersPlaced
  <2>3. UNCHANGED answers
    BY <1>4 DEF Bound
  <2>4. Match'
    BY <2>1, <2>3, KeepMatch
  <2>5. CASE stage' = "case" /\ UNCHANGED <<g, i, sub, todo>>
    <3>1. PassPlaced' /\ AnswersPlaced' /\ HexInv'
      BY <2>1, <2>2, <2>3, <2>5 DEF PassPlaced, AnswersPlaced, HexInv, Past
    <3> QED
      BY <2>4, <3>1 DEF MatchInv
  <2>6. CASE NextGroup
    <3>1. stage' \in {"bind", "finish"}
      BY <2>6 DEF NextGroup
    <3>2. \A k \in Passed \cup DOMAIN answers : stage' = "bind" => k[1] < g'
      <4>1. ASSUME NEW k \in Passed \cup DOMAIN answers PROVE k[1] <= g
        <5>1. k[1] \in Nat /\ k[1] < g /\ g \in Nat
          BY <1>a, <2>2, KeyParts, Indices DEF ControlOK
        <5> QED
          BY <5>1
      <4> QED
        BY <1>a, <2>2, <2>6, <4>1, NextGroupMovesOn
    <3>3. PassPlaced' /\ AnswersPlaced' /\ HexInv'
      BY <2>1, <2>3, <3>1, <3>2 DEF PassPlaced, AnswersPlaced, HexInv
    <3> QED
      BY <2>4, <3>3 DEF MatchInv
  <2> QED
    BY <1>4, <2>5, <2>6 DEF Bound
<1>5. CASE StartCase
  <2>1. stage = "case" /\ UNCHANGED answers
    BY <1>5 DEF StartCase
  <2>2. CASE NextCase /\ Add(Rows({Key(l, op) : l \in sub, op \in Rounds}, "ERROR"))
    <3>1. Passed' \subseteq Passed
      BY <2>2, NoPassRows
    <3> QED
      BY <2>1, <2>2, <3>1, AfterCase
  <2>3. CASE stage' = "ser" /\ todo' = sub /\ UNCHANGED <<g, i, reportVars>>
    <3>1. Passed' = Passed
      BY <2>3, KeepPassed
    <3>2. Match'
      BY <2>1, <3>1, KeepMatch
    <3>3. PassPlaced' /\ AnswersPlaced'
      BY <2>1, <2>3, <3>1 DEF MatchInv, PassPlaced, AnswersPlaced, Past
    <3>4. Key(Ref, "serialize") \notin DOMAIN answers
      <4>1. Now(Key(Ref, "serialize"))
        BY DEF Now, Key
      <4> QED
        BY <1>a, <2>1, <4>1, PastNotNow DEF MatchInv, AnswersPlaced
    <3>5. hex' = [l \in Langs |-> "none"]
      BY <1>5 DEF StartCase
    <3>6. HexInv'
      BY <2>1, <2>3, <3>4, <3>5 DEF HexInv, Key, Case
    <3> QED
      BY <3>2, <3>3, <3>6 DEF MatchInv
  <2>4. \/ NextCase /\ Add(Rows({Key(l, op) : l \in sub, op \in Rounds}, "ERROR"))
        \/ stage' = "ser" /\ todo' = sub /\ UNCHANGED <<g, i, reportVars>>
    BY <1>5 DEF StartCase
  <2> QED
    BY <2>2, <2>3, <2>4
<1>6. ASSUME NEW l \in Langs, NEW r, Replied(l, r) PROVE MatchInv'
  BY <1>6, KeepPassed, Quiet DEF Replied
<1>7. ASSUME NEW l \in Langs, SerRecord(l) PROVE MatchInv'
  BY <1>7, SerRecordMatch
<1>8. CASE SerDone
  <2>1. stage = "ser" /\ stage' = "compare" /\ UNCHANGED <<g, i, hex, answers>> /\ Passed' = Passed
    BY <1>8, KeepPassed DEF SerDone
  <2>2. Match'
    BY <2>1, KeepMatch
  <2>3. PassPlaced'
    BY <2>1 DEF MatchInv, PassPlaced, Past, Now, Key, Case
  <2>4. AnswersPlaced' /\ HexInv'
    BY <2>1 DEF MatchInv, AnswersPlaced, HexInv, Past, Now, Key, Case
  <2> QED
    BY <2>2, <2>3, <2>4 DEF MatchInv
<1>9. ASSUME NEW l \in Langs, Compare(l) PROVE MatchInv'
  BY <1>9, CompareMatch
<1>10. CASE CompareDone
  <2>1. CASE NextCase /\ Add(Rows({Key(l, "deserialize") : l \in sub}, "CASCADE"))
    <3>1. Passed' \subseteq Passed
      BY <2>1, NoPassRows
    <3> QED
      BY <1>10, <2>1, <3>1, AfterCase DEF CompareDone
  <2>2. CASE stage' = "des" /\ UNCHANGED <<g, i, reportVars>>
    <3>1. stage = "compare" /\ UNCHANGED <<hex, answers>> /\ Passed' = Passed
      BY <1>10, <2>2, KeepPassed DEF CompareDone
    <3>2. Match'
      BY <3>1, KeepMatch
    <3>3. PassPlaced' /\ AnswersPlaced' /\ HexInv'
      BY <2>2, <3>1 DEF MatchInv, PassPlaced, AnswersPlaced, HexInv, Past, Now, Key, Case, Rounds
    <3> QED
      BY <3>2, <3>3 DEF MatchInv
  <2> QED
    BY <1>10, <2>1, <2>2 DEF CompareDone
<1>11. ASSUME NEW l \in Langs, DesRecord(l) PROVE MatchInv'
  BY <1>11, DesRecordMatch
<1>12. CASE DesDone
  <2>1. CASE NextCase /\ UNCHANGED reportVars
    <3>1. Passed' \subseteq Passed
      BY <2>1, KeepPassed
    <3> QED
      BY <1>12, <2>1, <3>1, AfterCase DEF DesDone
  <2>2. ASSUME NEW keys, Add(Rows(keys, "SKIP")), stage' = "matrix", UNCHANGED <<g, i>>
        PROVE  MatchInv'
    <3>1. stage = "des" /\ UNCHANGED <<hex, answers>> /\ Passed' \subseteq Passed
      BY <1>12, <2>2, NoPassRows DEF DesDone
    <3>2. Match'
      BY <3>1, KeepMatch
    <3>3. PassPlaced' /\ AnswersPlaced' /\ HexInv'
      BY <2>2, <3>1 DEF MatchInv, PassPlaced, AnswersPlaced, HexInv, Past, Now, Key, Case
    <3> QED
      BY <3>2, <3>3 DEF MatchInv
  <2> QED
    BY <1>12, <2>1, <2>2 DEF DesDone
<1>13. ASSUME NEW p \in Langs \X Langs, NEW r, Matrix(p, r) PROVE MatchInv'
  BY <1>13, MatrixMatch
<1>14. CASE MatrixDone
  <2>1. stage = "matrix" /\ NextCase /\ UNCHANGED <<answers, reportVars>>
    BY <1>14 DEF MatrixDone
  <2>2. Passed' \subseteq Passed
    BY <2>1, KeepPassed
  <2> QED
    BY <2>1, <2>2, AfterCase
<1>15. CASE Finish
  <2>1. Passed' \subseteq Passed
    <3>1. UNCHANGED reportVars \/ Add(Rows(Undeclared, "FAIL")) \/ Add(NoRows)
      BY <1>15 DEF Finish
    <3> QED
      BY <3>1, KeepPassed, NoPassRows, NoPassNoRows
  <2> QED
    BY <1>15, <2>1, Ended DEF Finish
<1>16. CASE Cancel
  BY <1>16, KeepPassed, Quiet DEF Cancel
<1>17. CASE UNCHANGED vars
  BY <1>17, KeepPassed, Quiet DEF vars
<1> QED
  BY <1>1, <1>2, <1>3, <1>4, <1>5, <1>6, <1>7, <1>8, <1>9, <1>10, <1>11, <1>12, <1>13, <1>14,
<1>15, <1>16, <1>17 DEF Next, Step, Terminated

\* Before anything has begun nothing has passed.
LEMMA InitMatch == Init => MatchInv
<1> SUFFICES ASSUME Init PROVE MatchInv
  OBVIOUS
<1>1. DOMAIN results = {} /\ DOMAIN answers = {} /\ stage = "start"
  BY DEF Init, NoRows, Rows
<1> QED
  BY <1>1 DEF MatchInv, Match, PassPlaced, AnswersPlaced, HexInv, Passed

\* A row is PASS or XPASS only if what the worker sent conformed (orch.go:470-474):
\* of suites whose case names are distinct, and which know no failures when the
\* full matrix is asked for.
THEOREM PassMeansMatchCorrect ==
    ASSUME Distinct, FullMatrix => KnownFails = {}
    PROVE  Spec => []PassMeansMatch
<1>1. MatchInv /\ TypeOK /\ Flow /\ [Next]_vars => MatchInv'
  BY NextMatch
<1>2. MatchInv => PassMeansMatch
  BY MatchParts
<1> QED
  BY <1>1, <1>2, InitMatch, InitType, NextType, InitFlow, NextFlow, PTL DEF Spec

-----------------------------------------------------------------------------
(* The matrix leaves out only what has no output: MatrixCovers. *)

Output(s) == s[4] = "serialize" /\ answers[s].kind = "ok" /\ answers[s].value # "empty"
Crossed(s, d) == <<s[1], s[2], <<s[3], d[3]>>, "matrix">>

\* Who answers in the two rounds is bound to the group, nobody decodes before round 2,
\* and what a worker serialized is at hand until the case ends.
RoundsPlaced ==
    \A k \in DOMAIN answers : Now(k) =>
        /\ k[4] = "deserialize" => stage \notin {"case", "ser", "compare"}
        /\ k[4] = "deserialize" /\ stage \in {"des", "matrix"} => k[3] \in sub
        /\ k[4] = "serialize" /\ stage \in {"ser", "compare", "des", "matrix"} =>
              k[3] \in sub /\ (answers[k].kind = "ok" => hex[k[3]] = answers[k].value)

\* A pair the matrix still owes is the current case's: round 2 has not ended, or the
\* pair waits to be asked.
Covered ==
    FullMatrix => \A s, d \in DOMAIN answers :
        Output(s) /\ d[4] = "deserialize" /\ <<s[1], s[2]>> = <<d[1], d[2]>> =>
            \/ Crossed(s, d) \in DOMAIN answers
            \/ Now(s) /\ stage = "des"
            \/ Now(s) /\ stage = "matrix" /\ <<s[3], d[3]>> \in todo

CoverInv == AnswersPlaced /\ RoundsPlaced /\ Covered

\* Nothing of the current case was answered when it starts.
LEMMA NothingYet ==
    ASSUME ControlOK, AnswersOK, AnswersPlaced, Distinct, stage = "case",
           NEW k \in DOMAIN answers
    PROVE  ~Now(k)
  BY PastNotNow DEF AnswersOK, AnswersPlaced

\* A key of the run so far is no key of the case that comes next.
LEMMA NextIsNew ==
    ASSUME ControlOK, Distinct, NextCase, NEW k \in Keys, Past(k) \/ Now(k), stage' = "case"
    PROVE  ~Now(k)'
<1>1. stage' = "case" => i' = i + 1 /\ g' = g /\ i < Len(CaseNames)
  BY DEF NextCase, NextGroup
<1>2. PICK n \in DOMAIN CaseNames : k[1] < g \/ (n <= i /\ k[2] = CaseNames[n])
  <2>1. i \in DOMAIN CaseNames
    BY DEF ControlOK
  <2> QED
    BY <2>1, Indices DEF Past, Now, Case
<1>3. k[1] \in Nat /\ g \in Nat /\ i \in Nat /\ i + 1 \in DOMAIN CaseNames
  BY <1>1, KeyParts, Indices DEF ControlOK
<1>4. n # i + 1
       \/ k[1] < g
  BY <1>2, <1>3, Indices
<1> QED
  BY <1>1, <1>2, <1>3, <1>4 DEF Now, Case, Distinct

\* A step that leaves the answers and the place in the run alone.
LEMMA StayCovered ==
    ASSUME CoverInv, UNCHANGED <<stage, g, i, answers>>,
           stage \in {"ser", "compare", "des", "matrix"} => UNCHANGED <<sub, hex>>,
           stage = "matrix" => UNCHANGED todo
    PROVE  CoverInv'
<1>1. AnswersPlaced'
  BY DEF CoverInv, AnswersPlaced, Past, Now, Case
<1>2. RoundsPlaced'
  BY DEF CoverInv, RoundsPlaced, Now, Case
<1>3. Covered'
  BY DEF CoverInv, Covered, Output, Crossed, Now, Case
<1> QED
  BY <1>1, <1>2, <1>3 DEF CoverInv

\* The run moves on to another case or group once the matrix owes nothing.
LEMMA CaseCovered ==
    ASSUME TypeOK, CoverInv, Distinct, UNCHANGED answers,
           stage \in {"case", "ser", "compare", "des", "matrix"}, NextCase,
           FullMatrix => stage # "des", stage = "matrix" => todo = {}
    PROVE  CoverInv'
<1>1. ControlOK /\ DOMAIN answers \subseteq Keys
  BY TypeParts DEF AnswersOK
<1>2. stage' \in {"bind", "case", "finish"}
  BY <1>1, AdvanceFlow
<1>3. ASSUME NEW k \in DOMAIN answers PROVE k \in Keys /\ (Past(k) \/ Now(k))
  BY <1>1 DEF CoverInv, AnswersPlaced
<1>4. AnswersPlaced'
  <2>1. ASSUME NEW k \in DOMAIN answers
        PROVE  (stage' = "case" => Past(k)') /\ (stage' = "bind" => k[1] < g')
    BY <1>1, <1>3, MovesOn
  <2> QED
    BY <1>2, <2>1 DEF AnswersPlaced
<1>5. RoundsPlaced'
  <2>1. ASSUME NEW k \in DOMAIN answers, stage' = "case" PROVE ~Now(k)'
    BY <1>1, <1>3, <2>1, NextIsNew
  <2> QED
    BY <1>2, <2>1 DEF RoundsPlaced
<1>6. Covered'
  BY DEF CoverInv, Covered, Output, Crossed
<1> QED
  BY <1>4, <1>5, <1>6 DEF CoverInv

\* One more answer for the current case: it owes nothing, or round 2 goes on, or it is
\* the pair that was asked.
LEMMA AnswerCovered ==
    ASSUME TypeOK, CoverInv, stage \in {"ser", "compare", "des", "matrix"},
           UNCHANGED <<stage, g, i, sub>>, NEW j \in Keys, Now(j), NEW r,
           answers' = Over(Rows({j}, r), answers),
           \A l \in Langs : hex'[l] = hex[l] \/ j = Key(l, "serialize"),
           j[4] = "serialize" =>
              stage = "ser" /\ j[3] \in sub /\ (r.kind = "ok" => hex'[j[3]] = r.value),
           j[4] = "deserialize" => stage = "des" /\ j[3] \in sub,
           stage = "matrix" => \A p \in todo : p \in todo' \/ j = Key(p, "matrix")
    PROVE  CoverInv'
<1>1. DOMAIN answers' = {j} \cup DOMAIN answers /\ answers'[j] = r
      /\ \A k \in DOMAIN answers \ {j} : answers'[k] = answers[k]
  BY DEF Over, Rows
<1>2. \A k : (Past(k)' <=> Past(k)) /\ (Now(k)' <=> Now(k))
  BY DEF Past, Now, Case
<1>3. ControlOK /\ AnswersOK
  BY TypeParts
<1>4. AnswersPlaced'
  BY <1>1, <1>2 DEF CoverInv, AnswersPlaced
<1>5. RoundsPlaced'
  <2> SUFFICES ASSUME NEW k \in DOMAIN answers', Now(k)
               PROVE  /\ k[4] = "deserialize" => stage \notin {"case", "ser", "compare"}
                      /\ k[4] = "deserialize" /\ stage \in {"des", "matrix"} => k[3] \in sub
                      /\ k[4] = "serialize" =>
                            k[3] \in sub /\ (answers'[k].kind = "ok" => hex'[k[3]] = answers'[k].value)
    BY <1>2 DEF RoundsPlaced
  <2>1. CASE k = j
    BY <1>1, <2>1
  <2>2. CASE k # j
    <3>1. k \in DOMAIN answers /\ answers'[k] = answers[k]
      BY <1>1, <2>2
    <3>2. /\ k[4] = "deserialize" => stage \notin {"case", "ser", "compare"}
          /\ k[4] = "deserialize" /\ stage \in {"des", "matrix"} => k[3] \in sub
          /\ k[4] = "serialize" =>
                k[3] \in sub /\ (answers[k].kind = "ok" => hex[k[3]] = answers[k].value)
      BY <3>1 DEF CoverInv, RoundsPlaced
    <3>3. k[4] = "serialize" => hex'[k[3]] = hex[k[3]]
      <4>1. ASSUME k[4] = "serialize" PROVE j # Key(k[3], "serialize")
        <5>1. k = <<k[1], k[2], k[3], k[4]>>
          BY <1>3, <3>1, KeyParts DEF AnswersOK
        <5> QED
          BY <2>2, <4>1, <5>1 DEF Now, Key
      <4>2. k[4] = "serialize" => k[3] \in Langs
        BY <1>3, <3>2 DEF ControlOK
      <4> QED
        BY <4>1, <4>2
    <3> QED
      BY <3>1, <3>2, <3>3
  <2> QED
    BY <2>1, <2>2
<1>6. Covered'
  <2> SUFFICES ASSUME FullMatrix, NEW s \in DOMAIN answers', NEW d \in DOMAIN answers',
                      s[4] = "serialize", answers'[s].kind = "ok", answers'[s].value # "empty",
                      d[4] = "deserialize", <<s[1], s[2]>> = <<d[1], d[2]>>
               PROVE  \/ Crossed(s, d) \in DOMAIN answers'
                      \/ Now(s) /\ stage = "des"
                      \/ Now(s) /\ stage = "matrix" /\ <<s[3], d[3]>> \in todo'
    BY <1>2 DEF Covered, Output, Crossed
  <2>1. Now(s) <=> Now(d)
    BY DEF Now
  <2>2. CASE d = j
    BY <2>1, <2>2
  <2>3. CASE d # j /\ s = j
    <3>1. d \in DOMAIN answers /\ Now(d) /\ stage = "ser"
      BY <1>1, <2>1, <2>3
    <3> QED
      BY <2>3, <3>1 DEF CoverInv, RoundsPlaced
  <2>4. CASE d # j /\ s # j
    <3>1. s \in DOMAIN answers /\ d \in DOMAIN answers /\ answers'[s] = answers[s]
      BY <1>1, <2>4
    <3>2. \/ Crossed(s, d) \in DOMAIN answers
          \/ Now(s) /\ stage = "des"
          \/ Now(s) /\ stage = "matrix" /\ <<s[3], d[3]>> \in todo
      BY <3>1 DEF CoverInv, Covered, Output
    <3>3. ASSUME Now(s), j = Key(<<s[3], d[3]>>, "matrix") PROVE Crossed(s, d) = j
      BY <3>3 DEF Now, Key, Crossed
    <3> QED
      BY <1>1, <3>2, <3>3
  <2> QED
    BY <2>2, <2>3, <2>4
<1> QED
  BY <1>4, <1>5, <1>6 DEF CoverInv

\* Every step of a run keeps it.
LEMMA NextCovered ==
    ASSUME TypeOK, Flow, CoverInv, Distinct, [Next]_vars
    PROVE  CoverInv'
<1> USE TypeParts
<1>1. ASSUME NEW l \in Langs, StartWorker(l) PROVE CoverInv'
  <2>1. DOMAIN answers = {} /\ answers' = answers
    BY <1>1 DEF StartWorker, CoverInv, AnswersPlaced
  <2> QED
    BY <2>1 DEF CoverInv, AnswersPlaced, RoundsPlaced, Covered
<1>2. CASE StartFails
  <2>1. DOMAIN answers = {} /\ answers' = answers
    BY <1>2 DEF StartFails, CoverInv, AnswersPlaced
  <2> QED
    BY <2>1 DEF CoverInv, AnswersPlaced, RoundsPlaced, Covered
<1>3. ASSUME NEW l \in Langs, NEW r, Bind(l, r) PROVE CoverInv'
  BY <1>3, StayCovered DEF Bind
<1>4. CASE Bound
  <2>1. stage = "bind" /\ UNCHANGED answers /\ \A k \in DOMAIN answers : k \in Keys /\ k[1] < g
    BY <1>4 DEF Bound, CoverInv, AnswersPlaced, AnswersOK
  <2>2. CASE stage' = "case" /\ UNCHANGED g
    <3>1. AnswersPlaced'
      BY <2>1, <2>2 DEF AnswersPlaced, Past
    <3>2. RoundsPlaced'
      BY <2>1, <2>2, KeyParts, Indices DEF RoundsPlaced, Now, ControlOK
    <3>3. Covered'
      BY <2>1, <2>2 DEF CoverInv, Covered, Output, Crossed
    <3> QED
      BY <3>1, <3>2, <3>3 DEF CoverInv
  <2>3. CASE NextGroup
    <3>1. \A k \in DOMAIN answers : k[1] <= g
      BY <2>1, KeyParts, Indices DEF ControlOK
    <3>2. stage' \in {"bind", "finish"} /\ \A k \in DOMAIN answers : stage' = "bind" => k[1] < g'
      BY <2>1, <2>3, <3>1, KeyParts, Indices DEF ControlOK, NextGroup
    <3>3. AnswersPlaced' /\ RoundsPlaced'
      BY <2>1, <3>2 DEF AnswersPlaced, RoundsPlaced
    <3>4. Covered'
      BY <2>1, <3>2 DEF CoverInv, Covered, Output, Crossed
    <3> QED
      BY <3>3, <3>4 DEF CoverInv
  <2> QED
    BY <1>4, <2>2, <2>3 DEF Bound
<1>5. CASE StartCase
  <2>1. stage = "case" /\ UNCHANGED answers /\ \A k \in DOMAIN answers : Past(k) /\ ~Now(k)
    BY <1>5, NothingYet DEF StartCase, CoverInv, AnswersPlaced
  <2>2. CASE NextCase
    BY <2>1, <2>2, CaseCovered
  <2>3. CASE stage' = "ser" /\ UNCHANGED <<g, i>>
    <3>1. \A k : (Past(k)' <=> Past(k)) /\ (Now(k)' <=> Now(k))
      BY <2>3 DEF Past, Now, Case
    <3>2. AnswersPlaced' /\ RoundsPlaced'
      BY <2>1, <2>3, <3>1 DEF AnswersPlaced, RoundsPlaced
    <3>3. Covered'
      BY <2>1, <2>3 DEF CoverInv, Covered, Output, Crossed
    <3> QED
      BY <3>2, <3>3 DEF CoverInv
  <2>4. NextCase \/ (stage' = "ser" /\ UNCHANGED <<g, i>>)
    BY <1>5 DEF StartCase
  <2> QED
    BY <2>2, <2>3, <2>4
<1>6. ASSUME NEW l \in Langs, NEW r, Replied(l, r) PROVE CoverInv'
  BY <1>6, StayCovered DEF Replied
<1>7. ASSUME NEW l \in Langs, SerRecord(l) PROVE CoverInv'
  <2>1. /\ stage = "ser" /\ l \in sub /\ UNCHANGED <<stage, g, i, sub>>
        /\ hex \in [Langs -> Values \cup {"none"}]
    BY <1>7 DEF SerRecord, Recorded, Flow, ControlOK
  <2>2. CASE cancelled
    BY <1>7, <2>1, <2>2, StayCovered DEF SerRecord
  <2>3. CASE ~cancelled
    <3>1. Key(l, "serialize") \in Keys /\ Now(Key(l, "serialize"))
          /\ Key(l, "serialize")[3] = l /\ Key(l, "serialize")[4] = "serialize"
      BY KeyType DEF Ops, Key, Now
    <3>2. answers' = Over(Rows({Key(l, "serialize")}, inbox[l]), answers)
      BY <1>7, <2>3 DEF SerRecord
    <3>3. /\ inbox[l].kind = "ok" => hex'[l] = inbox[l].value
          /\ \A m \in Langs : hex'[m] = hex[m] \/ m = l
      BY <1>7, <2>1, <2>3 DEF SerRecord
    <3> QED
      BY <2>1, <3>1, <3>2, <3>3, AnswerCovered
  <2> QED
    BY <2>2, <2>3
<1>8. CASE SerDone
  <2>1. stage = "ser" /\ stage' = "compare" /\ UNCHANGED <<g, i, sub, hex, answers>>
    BY <1>8 DEF SerDone
  <2>2. AnswersPlaced' /\ RoundsPlaced'
    BY <2>1 DEF CoverInv, AnswersPlaced, RoundsPlaced, Past, Now, Case
  <2>3. Covered'
    BY <2>1 DEF CoverInv, Covered, Output, Crossed
  <2> QED
    BY <2>2, <2>3 DEF CoverInv
<1>9. ASSUME NEW l \in Langs, Compare(l) PROVE CoverInv'
  <2>1. stage = "compare" /\ UNCHANGED <<stage, g, i, sub, hex>>
    BY <1>9 DEF Compare
  <2>2. CASE UNCHANGED answers
    BY <2>1, <2>2, StayCovered
  <2>3. ASSUME NEW r, answers' = Over(Rows({Key(l, "semantic")}, r), answers) PROVE CoverInv'
    <3>1. Key(l, "semantic") \in Keys /\ Now(Key(l, "semantic")) /\ Key(l, "semantic")[4] = "semantic"
      BY KeyType DEF Ops, Key, Now
    <3> QED
      BY <2>1, <2>3, <3>1, AnswerCovered
  <2> QED
    BY <1>9, <2>2, <2>3 DEF Compare
<1>10. CASE CompareDone
  <2>1. stage = "compare" /\ UNCHANGED <<hex, answers>>
    BY <1>10 DEF CompareDone
  <2>2. CASE NextCase
    BY <2>1, <2>2, CaseCovered
  <2>3. CASE stage' = "des" /\ UNCHANGED <<g, i, sub>>
    <3>1. AnswersPlaced'
      BY <2>1, <2>3 DEF CoverInv, AnswersPlaced, Past, Now, Case
    <3>2. RoundsPlaced'
      BY <2>1, <2>3 DEF CoverInv, RoundsPlaced, Now, Case
    <3>3. Covered'
      BY <2>1, <2>3 DEF CoverInv, Covered, Output, Crossed
    <3> QED
      BY <3>1, <3>2, <3>3 DEF CoverInv
  <2> QED
    BY <1>10, <2>2, <2>3 DEF CompareDone
<1>11. ASSUME NEW l \in Langs, DesRecord(l) PROVE CoverInv'
  <2>1. stage = "des" /\ l \in sub /\ UNCHANGED <<stage, g, i, sub, hex>>
    BY <1>11 DEF DesRecord, Recorded, Flow
  <2>2. CASE cancelled
    BY <1>11, <2>1, <2>2, StayCovered DEF DesRecord
  <2>3. CASE ~cancelled
    <3>1. Key(l, "deserialize") \in Keys /\ Now(Key(l, "deserialize"))
          /\ Key(l, "deserialize")[3] = l /\ Key(l, "deserialize")[4] = "deserialize"
      BY KeyType DEF Ops, Key, Now
    <3>2. answers' = Over(Rows({Key(l, "deserialize")}, inbox[l]), answers)
      BY <1>11, <2>3 DEF DesRecord
    <3> QED
      BY <2>1, <3>1, <3>2, AnswerCovered
  <2> QED
    BY <2>2, <2>3
<1>12. CASE DesDone
  <2>1. stage = "des" /\ UNCHANGED <<hex, answers>>
    BY <1>12 DEF DesDone
  <2>2. CASE ~FullMatrix /\ NextCase
    BY <2>1, <2>2, CaseCovered
  <2>3. CASE FullMatrix
    <3>1. /\ stage' = "matrix" /\ UNCHANGED <<g, i, sub>>
          /\ todo' = (sub \ {l \in sub : hex[l] \in {"none", "empty"}}) \X sub
      BY <1>12, <2>3 DEF DesDone
    <3>2. AnswersPlaced'
      BY <2>1, <3>1 DEF CoverInv, AnswersPlaced, Past, Now, Case
    <3>3. RoundsPlaced'
      BY <2>1, <3>1 DEF CoverInv, RoundsPlaced, Now, Case
    <3>4. ASSUME NEW s \in DOMAIN answers, NEW d \in DOMAIN answers, Now(s), Now(d), Output(s),
                 d[4] = "deserialize"
          PROVE  <<s[3], d[3]>> \in todo'
      <4>1. d[3] \in sub /\ s[3] \in sub /\ hex[s[3]] = answers[s].value
        BY <2>1, <3>4 DEF CoverInv, RoundsPlaced, Output
      <4>2. answers[s].value \in {"good", "other"}
        BY <3>4 DEF Output, AnswersOK, Reply, Values
      <4> QED
        BY <3>1, <4>1, <4>2
    <3>5. Covered'
      <4> SUFFICES ASSUME NEW s \in DOMAIN answers, NEW d \in DOMAIN answers, Output(s),
                          d[4] = "deserialize", <<s[1], s[2]>> = <<d[1], d[2]>>
                   PROVE  Crossed(s, d) \in DOMAIN answers \/ (Now(s) /\ <<s[3], d[3]>> \in todo')
        BY <2>1, <3>1 DEF Covered, Output, Crossed, Now, Case
      <4>1. Crossed(s, d) \in DOMAIN answers \/ Now(s)
        BY <2>1, <2>3 DEF CoverInv, Covered
      <4>2. Now(s) => Now(d)
        BY DEF Now
      <4> QED
        BY <3>4, <4>1, <4>2
    <3> QED
      BY <3>2, <3>3, <3>5 DEF CoverInv
  <2> QED
    BY <1>12, <2>2, <2>3 DEF DesDone
<1>13. ASSUME NEW p \in Langs \X Langs, NEW r, Matrix(p, r) PROVE CoverInv'
  <2>1. /\ stage = "matrix" /\ UNCHANGED <<stage, g, i, sub, hex>> /\ todo' = todo \ {p}
        /\ answers' = Over(Rows({Key(p, "matrix")}, r), answers)
    BY <1>13 DEF Matrix
  <2>2. Key(p, "matrix") \in Keys /\ Now(Key(p, "matrix")) /\ Key(p, "matrix")[4] = "matrix"
    BY KeyType DEF Ops, Key, Now
  <2> QED
    BY <2>1, <2>2, AnswerCovered
<1>14. CASE MatrixDone
  BY <1>14, CaseCovered DEF MatrixDone
<1>15. CASE Finish
  <2>1. stage = "finish" /\ stage' = "done" /\ UNCHANGED <<g, i, sub, hex, todo, answers>>
    BY <1>15 DEF Finish
  <2>2. AnswersPlaced' /\ RoundsPlaced'
    BY <2>1 DEF AnswersPlaced, RoundsPlaced, CoverInv
  <2>3. Covered'
    BY <2>1 DEF CoverInv, Covered, Output, Crossed
  <2> QED
    BY <2>2, <2>3 DEF CoverInv
<1>16. CASE Cancel
  BY <1>16, StayCovered DEF Cancel
<1>17. CASE UNCHANGED vars
  BY <1>17, StayCovered DEF vars
<1> QED
  BY <1>1, <1>2, <1>3, <1>4, <1>5, <1>6, <1>7, <1>8, <1>9, <1>10, <1>11, <1>12, <1>13, <1>14,
<1>15, <1>16, <1>17 DEF Next, Step, Terminated

\* The matrix leaves a pair out only if its source serialized nothing, or to zero bytes
\* (orch.go:407-408): of every suite whose case names are distinct, whatever is known to fail.
THEOREM MatrixCoversCorrect ==
    ASSUME Distinct
    PROVE  Spec => []MatrixCovers
<1>1. Init => CoverInv
  <2> SUFFICES ASSUME Init PROVE CoverInv
    OBVIOUS
  <2>1. DOMAIN answers = {}
    BY DEF Init, NoRows, Rows
  <2> QED
    BY <2>1 DEF CoverInv, AnswersPlaced, RoundsPlaced, Covered
<1>2. CoverInv /\ TypeOK /\ Flow /\ [Next]_vars => CoverInv'
  BY NextCovered
<1>3. CoverInv /\ Flow => MatrixCovers
  BY DEF CoverInv, Covered, Output, Crossed, Flow, MatrixCovers
<1> QED
  BY <1>1, <1>2, <1>3, InitType, NextType, InitFlow, NextFlow, PTL DEF Spec

-----------------------------------------------------------------------------
(* Verdicts are earned by the functions they name: the run together with workers *)
(* that keep their contract.                                                     *)

\* A worker that counts as bound has the group's functions selected or none, what it
\* answers is theirs until it is recorded, and stays on record.
PairInv ==
    /\ DOMAIN chosen = Langs /\ DOMAIN said = Langs
    /\ \A l \in sub : chosen[l] \in {g, NoPair}
    /\ \A l \in Langs : inbox[l].kind = "ok" => said[l].ran = g
    /\ \A k \in DOMAIN answers : answers[k].kind = "ok" => k \in DOMAIN origin /\ origin[k] = k[1]

\* What handling a request leaves behind.
LEMMA HandledFacts ==
    ASSUME DOMAIN chosen = Langs, DOMAIN said = Langs,
           NEW l \in Langs, NEW op, NEW r, NEW s, Handles(l, op, r, s)
    PROVE  /\ DOMAIN chosen' = Langs /\ DOMAIN said' = Langs
           /\ chosen'[l] = s
           /\ \A m \in Langs \ {l} : chosen'[m] = chosen[m] /\ said'[m] = said[m]
           /\ r.kind = "ok" =>
                 ~Lost(r) /\ said'[l].status = "OK" /\ (op \in Rounds => said'[l].ran = chosen[l])
<1>1. r.kind = "ok" => ~Lost(r) /\ StatusOf(r) = "OK"
  BY DEF Lost, StatusOf
<1>2. DOMAIN chosen' = Langs /\ chosen'[l] = s /\ \A m \in Langs \ {l} : chosen'[m] = chosen[m]
  BY DEF Handles
<1>3. DOMAIN said' = Langs /\ \A m \in Langs \ {l} : said'[m] = said[m]
  BY DEF Handles
<1>4. ASSUME r.kind = "ok"
      PROVE  said'[l].status = "OK" /\ (op \in Rounds => said'[l].ran = chosen[l])
  <2>1. said'[l] = IF Lost(r) THEN Silence
                   ELSE [op |-> op, status |-> StatusOf(r),
                         ran |-> IF op \in Rounds /\ r.kind = "ok" THEN chosen[l] ELSE NoPair]
    BY DEF Handles
  <2> QED
    BY <2>1, <1>1, <1>4
<1> QED
  BY <1>1, <1>2, <1>3, <1>4

\* A bind that is accepted leaves the group's functions selected, or none.
LEMMA BindSelects ==
    ASSUME DOMAIN chosen = Langs, DOMAIN said = Langs,
           NEW l \in Langs, NEW r, BindHandled(l, r)
    PROVE  /\ DOMAIN chosen' = Langs /\ DOMAIN said' = Langs
           /\ \A m \in Langs \ {l} : chosen'[m] = chosen[m] /\ said'[m] = said[m]
           /\ r.kind = "ok" => chosen'[l] \in {g, NoPair}
<1>1. PICK s : /\ Handles(l, "bind", r, s)
               /\ \/ Lost(r)
                  \/ \E can \in Registrations :
                        Worker(l, can)!Select(g) \/ Worker(l, can)!Clear \/ Worker(l, can)!Refuse
  BY DEF BindHandled
<1>2. ASSUME r.kind = "ok" PROVE chosen'[l] \in {g, NoPair}
  <2>1. ~Lost(r) /\ said'[l].status = "OK"
    BY <1>1, <1>2, HandledFacts
  <2>2. PICK can : Worker(l, can)!Select(g) \/ Worker(l, can)!Clear \/ Worker(l, can)!Refuse
    BY <1>1, <2>1
  <2>3. Worker(l, can)!Clear => said'[l].status = "SKIPPED"
    BY DEF Worker!Clear, Worker!Answer
  <2>4. Worker(l, can)!Refuse => said'[l].status = "ERROR"
    BY DEF Worker!Refuse, Worker!Answer
  <2>5. Worker(l, can)!Select(g) => chosen'[l] \in {g, NoPair}
    BY DEF Worker!Select
  <2> QED
    BY <2>1, <2>2, <2>3, <2>4, <2>5
<1> QED
  BY <1>1, <1>2, HandledFacts

\* A request that is answered with success ran the functions that were selected.
LEMMA WorkRuns ==
    ASSUME DOMAIN chosen = Langs, DOMAIN said = Langs,
           NEW l \in Langs, NEW op \in Rounds, NEW r, WorkHandled(l, op, r)
    PROVE  /\ DOMAIN chosen' = Langs /\ DOMAIN said' = Langs
           /\ \A m \in Langs : chosen'[m] = chosen[m]
           /\ \A m \in Langs \ {l} : said'[m] = said[m]
           /\ r.kind = "ok" => chosen[l] # NoPair /\ said'[l].ran = chosen[l]
<1>1. Handles(l, op, r, chosen[l])
      /\ \/ Lost(r)
         \/ \E can \in Registrations :
               Worker(l, can)!Work(op) \/ Worker(l, can)!Skip(op) \/ Worker(l, can)!Idle(op)
  BY DEF WorkHandled
<1>2. DOMAIN chosen' = Langs /\ \A m \in Langs : chosen'[m] = chosen[m]
  BY <1>1, HandledFacts
<1>3. ASSUME r.kind = "ok" PROVE chosen[l] # NoPair /\ said'[l].ran = chosen[l]
  <2>1. ~Lost(r) /\ said'[l].status = "OK" /\ said'[l].ran = chosen[l]
    BY <1>1, <1>3, HandledFacts
  <2>2. PICK can : Worker(l, can)!Work(op) \/ Worker(l, can)!Skip(op) \/ Worker(l, can)!Idle(op)
    BY <1>1, <2>1
  <2>3. Worker(l, can)!Skip(op) => said'[l].status = "SKIPPED"
    BY DEF Worker!Skip, Worker!Answer
  <2>4. Worker(l, can)!Idle(op) => said'[l].status = "ERROR"
    BY DEF Worker!Idle, Worker!Answer
  <2>5. Worker(l, can)!Work(op) => chosen[l] # NoPair
    BY DEF Worker!Work
  <2> QED
    BY <2>1, <2>2, <2>3, <2>4, <2>5
<1> QED
  BY <1>1, <1>2, <1>3, HandledFacts

\* An answer of the group's functions is recorded as theirs.
LEMMA OriginKept ==
    ASSUME PairInv, NEW k, k[1] = g, NEW l, NEW r, answers' = Over(Rows({k}, r), answers),
           Origin(k, l), r.kind = "ok" => said'[l].ran = g
    PROVE  \A j \in DOMAIN answers' :
              answers'[j].kind = "ok" => j \in DOMAIN origin' /\ origin'[j] = j[1]
<1>1. /\ DOMAIN answers' = {k} \cup DOMAIN answers /\ answers'[k] = r
      /\ \A j \in DOMAIN answers \ {k} : answers'[j] = answers[j]
  BY DEF Over, Rows
<1>2. /\ DOMAIN origin' = {k} \cup DOMAIN origin /\ origin'[k] = said'[l].ran
      /\ \A j \in DOMAIN origin \ {k} : origin'[j] = origin[j]
  BY DEF Origin, Over, Rows
<1> QED
  BY <1>1, <1>2 DEF PairInv

\* Nobody is asked and no answer is recorded: enough that the group stays, or starts
\* with no worker bound and none waiting.
LEMMA PairFrame ==
    ASSUME PairInv, UNCHANGED <<workerVars, origin, answers, inbox>>,
           \/ sub' \subseteq sub /\ g' = g
           \/ sub' = {} /\ \A l \in Langs : inbox[l].kind = "none"
    PROVE  PairInv'
  BY DEF PairInv, workerVars

\* The two oracles.
LEMMA OracleKinds == ControlOK => Groups[g].oracle \in {"bytes", "semantic"}
<1>1. Groups \in Seq([type : {Groups[n].type : n \in DOMAIN Groups}, oracle : {"bytes", "semantic"}])
  BY SuiteAssumption
<1>2. ASSUME NEW T, Groups \in Seq([type : T, oracle : {"bytes", "semantic"}]),
             NEW n \in DOMAIN Groups
      PROVE  Groups[n].oracle \in {"bytes", "semantic"}
  <2> DEFINE S == [type : T, oracle : {"bytes", "semantic"}]
  <2>1. Groups[n] \in S
    <3> HIDE DEF S
    <3>1. Groups \in Seq(S)
      BY <1>2 DEF S
    <3> QED
      BY <3>1, <1>2
  <2> QED
    BY <2>1
<1> QED
  BY <1>1, <1>2 DEF ControlOK

\* A status outside the protocol is no answer of a worker that keeps its contract.
LEMMA OddUnbound ==
    ASSUME DOMAIN said = Langs, NEW l \in Langs, NEW r, r.kind = "odd"
    PROVE  ~BindHandled(l, r)
<1> SUFFICES ASSUME BindHandled(l, r) PROVE FALSE
  OBVIOUS
<1>1. StatusOf(r) = "none" /\ ~Lost(r)
  BY DEF StatusOf, Lost
<1>2. PICK s : Handles(l, "bind", r, s)
  BY DEF BindHandled
<1>3. said'[l].status = "none"
  <2>1. said'[l] = [op |-> "bind", status |-> StatusOf(r),
                    ran |-> IF "bind" \in Rounds /\ r.kind = "ok" THEN chosen[l] ELSE NoPair]
    BY <1>1, <1>2 DEF Handles
  <2> QED
    BY <1>1, <2>1
<1>4. PICK can : Worker(l, can)!Select(g) \/ Worker(l, can)!Clear \/ Worker(l, can)!Refuse
  BY <1>1 DEF BindHandled
<1>5. said'[l].status \in {"OK", "SKIPPED", "ERROR"}
  BY <1>4 DEF Worker!Select, Worker!Clear, Worker!Refuse, Worker!Answer
<1> QED
  BY <1>3, <1>5

\* Every step of the run with its workers keeps the invariant.
LEMMA NextPair ==
    ASSUME ControlOK, Flow, PairInv, [BoundNext]_boundVars
    PROVE  PairInv'
<1>1. ASSUME NEW l \in Langs, NEW r, BoundBind(l, r) PROVE PairInv'
  <2>1. /\ UNCHANGED <<answers, origin, inbox, g>> /\ sub' \subseteq sub \cup {l} /\ l \notin sub
        /\ l \in sub' => r.kind \in {"ok", "odd"}
        /\ inbox[l].kind = "none"
    BY <1>1 DEF BoundBind, Bind, Flow
  <2>2. r.kind # "odd"
    <3> SUFFICES ASSUME r.kind = "odd" PROVE FALSE
      OBVIOUS
    <3> QED
      BY <1>1, OddUnbound DEF BoundBind, PairInv
  <2>3. /\ DOMAIN chosen' = Langs /\ DOMAIN said' = Langs
        /\ \A m \in Langs \ {l} : chosen'[m] = chosen[m] /\ said'[m] = said[m]
        /\ r.kind = "ok" => chosen'[l] \in {g, NoPair}
    BY <1>1, BindSelects DEF BoundBind, PairInv
  <2>4. \A m \in sub' : chosen'[m] \in {g', NoPair}
    BY <2>1, <2>2, <2>3 DEF PairInv, ControlOK
  <2>5. \A m \in Langs : inbox'[m].kind = "ok" => said'[m].ran = g'
    BY <2>1, <2>3 DEF PairInv
  <2> QED
    BY <2>1, <2>3, <2>4, <2>5 DEF PairInv
<1>2. ASSUME NEW l \in Langs, NEW r, BoundReplied(l, r) PROVE PairInv'
  <2>1. /\ UNCHANGED <<answers, origin, sub, g>> /\ l \in sub
        /\ inbox' = [inbox EXCEPT ![l] = r] /\ WorkHandled(l, Round, r) /\ Round \in Rounds
    BY <1>2 DEF BoundReplied, Replied, Flow, Round, Rounds
  <2>2. /\ DOMAIN chosen' = Langs /\ DOMAIN said' = Langs
        /\ \A m \in Langs : chosen'[m] = chosen[m]
        /\ \A m \in Langs \ {l} : said'[m] = said[m]
        /\ r.kind = "ok" => chosen[l] # NoPair /\ said'[l].ran = chosen[l]
    BY <2>1, WorkRuns DEF PairInv
  <2>3. \A m \in Langs : inbox'[m].kind = "ok" => said'[m].ran = g'
    BY <2>1, <2>2 DEF PairInv, ControlOK
  <2> QED
    BY <2>1, <2>2, <2>3 DEF PairInv, ControlOK
<1>3. ASSUME NEW l \in Langs, BoundRecord(l) PROVE PairInv'
  <2>1. /\ UNCHANGED <<chosen, said, sub, g>> /\ l \in todo /\ stage \in {"ser", "des"}
        /\ inbox' = [inbox EXCEPT ![l] = NoValue("none")]
    BY <1>3 DEF BoundRecord, SerRecord, DesRecord, Recorded, workerVars
  <2>2. \A m \in Langs : inbox'[m].kind = "ok" => said'[m].ran = g'
    BY <2>1 DEF PairInv, ControlOK, NoValue
  <2>3. CASE cancelled
    <3>1. UNCHANGED <<answers, origin>>
      BY <1>3, <2>3 DEF BoundRecord, SerRecord, DesRecord
    <3> QED
      BY <2>1, <2>2, <3>1 DEF PairInv
  <2>4. CASE ~cancelled
    <3>1. answers' = Over(Rows({Key(l, Round)}, inbox[l]), answers) /\ Origin(Key(l, Round), l)
      BY <1>3, <2>4 DEF BoundRecord, SerRecord, DesRecord, Round
    <3>2. Key(l, Round)[1] = g /\ (inbox[l].kind = "ok" => said'[l].ran = g)
      BY <2>1 DEF Key, PairInv
    <3> QED
      BY <2>1, <2>2, <3>1, <3>2, OriginKept DEF PairInv
  <2> QED
    BY <2>3, <2>4
<1>4. ASSUME NEW l \in Langs, BoundCompare(l) PROVE PairInv'
  <2>1. UNCHANGED <<inbox, sub, g>> /\ Ref \in sub /\ Ref \in Langs /\ inbox[Ref].kind # "ok"
        /\ Compare(l) /\ stage = "compare"
    BY <1>4, SuiteAssumption DEF BoundCompare, Compare, Flow
  <2>2. CASE ~(hex[Ref] # "none" /\ Groups[g].oracle = "semantic")
    <3>1. UNCHANGED <<chosen, said, origin>>
      BY <1>4, <2>2 DEF BoundCompare, workerVars
    <3>2. UNCHANGED answers
      BY <2>1, <2>2, OracleKinds DEF Compare
    <3> QED
      BY <2>1, <3>1, <3>2 DEF PairInv
  <2>3. CASE hex[Ref] # "none" /\ Groups[g].oracle = "semantic"
    <3>1. PICK r : answers' = Over(Rows({Key(l, "semantic")}, r), answers)
      BY <2>1, <2>3 DEF Compare
    <3>2. WorkHandled(Ref, "deserialize", r) /\ Origin(Key(l, "semantic"), Ref)
      <4>1. answers'[Key(l, "semantic")] = r
        BY <3>1 DEF Over, Rows
      <4> QED
        BY <1>4, <2>3, <4>1 DEF BoundCompare
    <3>3. /\ DOMAIN chosen' = Langs /\ DOMAIN said' = Langs
          /\ \A m \in Langs : chosen'[m] = chosen[m]
          /\ \A m \in Langs \ {Ref} : said'[m] = said[m]
          /\ r.kind = "ok" => chosen[Ref] # NoPair /\ said'[Ref].ran = chosen[Ref]
      BY <2>1, <3>2, WorkRuns DEF PairInv, Rounds
    <3>4. Key(l, "semantic")[1] = g /\ (r.kind = "ok" => said'[Ref].ran = g)
      BY <2>1, <3>3 DEF Key, PairInv
    <3>5. \A j \in DOMAIN answers' :
             answers'[j].kind = "ok" => j \in DOMAIN origin' /\ origin'[j] = j[1]
      BY <3>1, <3>2, <3>4, OriginKept
    <3>6. \A m \in Langs : inbox'[m].kind = "ok" => said'[m].ran = g'
      BY <2>1, <3>3 DEF PairInv
    <3> QED
      BY <2>1, <3>3, <3>5, <3>6 DEF PairInv, ControlOK
  <2> QED
    BY <2>2, <2>3
<1>5. ASSUME NEW p \in Langs \X Langs, NEW r, BoundMatrix(p, r) PROVE PairInv'
  <2>1. /\ UNCHANGED <<inbox, sub, g>> /\ p[2] \in sub /\ p[2] \in Langs
        /\ \A m \in Langs : inbox[m].kind # "ok"
        /\ answers' = Over(Rows({Key(p, "matrix")}, r), answers)
        /\ WorkHandled(p[2], "deserialize", r) /\ Origin(Key(p, "matrix"), p[2])
    BY <1>5 DEF BoundMatrix, Matrix, Flow
  <2>2. PICK q \in Langs : q = p[2]
    BY <2>1
  <2>3. /\ DOMAIN chosen' = Langs /\ DOMAIN said' = Langs
        /\ \A m \in Langs : chosen'[m] = chosen[m]
        /\ r.kind = "ok" => chosen[q] # NoPair /\ said'[q].ran = chosen[q]
    <3>1. WorkHandled(q, "deserialize", r)
      BY <2>1, <2>2
    <3> QED
      BY <3>1, WorkRuns DEF PairInv, Rounds
  <2>4. Key(p, "matrix")[1] = g /\ (r.kind = "ok" => said'[q].ran = g)
    BY <2>1, <2>2, <2>3 DEF Key, PairInv
  <2>5. Origin(Key(p, "matrix"), q)
    BY <2>1, <2>2
  <2>6. \A j \in DOMAIN answers' :
           answers'[j].kind = "ok" => j \in DOMAIN origin' /\ origin'[j] = j[1]
    BY <2>1, <2>4, <2>5, OriginKept
  <2> QED
    BY <2>1, <2>3, <2>6 DEF PairInv, ControlOK
<1>6. CASE AsksNobody
  <2>1. UNCHANGED <<workerVars, origin>>
    BY <1>6 DEF AsksNobody
  <2>2. UNCHANGED <<answers, inbox>>
    BY <1>6 DEF AsksNobody, StartWorker, StartFails, Bound, StartCase, SerDone, CompareDone,
                DesDone, MatrixDone, Finish
  <2>3. \/ sub' \subseteq sub /\ g' = g
        \/ sub' = {} /\ \A l \in Langs : inbox[l].kind = "none"
    <3>1. CASE stage \in {"ser", "des"} /\ todo # {}
      BY <1>6, <3>1 DEF AsksNobody, StartWorker, StartFails, Bound, StartCase, SerDone,
                        CompareDone, DesDone, MatrixDone, Finish
    <3>2. CASE ~(stage \in {"ser", "des"} /\ todo # {})
      <4>1. \A l \in Langs : inbox[l].kind = "none"
        BY <3>2 DEF Flow
      <4>2. NextCase \/ NextGroup \/ UNCHANGED <<sub, g>>
        BY <1>6 DEF AsksNobody, StartWorker, StartFails, Bound, StartCase, SerDone,
                    CompareDone, DesDone, MatrixDone, Finish
      <4> QED
        BY <4>1, <4>2 DEF NextCase, NextGroup
    <3> QED
      BY <3>1, <3>2
  <2> QED
    BY <2>1, <2>2, <2>3, PairFrame
<1>7. CASE (Cancel \/ Terminated) /\ UNCHANGED <<workerVars, origin>>
  BY <1>7, PairFrame DEF Cancel, Terminated, vars
<1>8. CASE UNCHANGED boundVars
  BY <1>8, PairFrame DEF boundVars, vars
<1> QED
  BY <1>1, <1>2, <1>3, <1>4, <1>5, <1>6, <1>7, <1>8 DEF BoundNext, BoundStep

\* Every step of the run with its workers is a step of the run.
LEMMA BoundIsRun ==
    /\ BoundInit => Init
    /\ [BoundNext]_boundVars => [Next]_vars
<1>1. BoundInit => Init
  BY DEF BoundInit
<1>2. BoundNext => Next
  <2>1. BoundStep => Step
    <3>1. ASSUME NEW l \in Langs, NEW r \in Replies \cup {NoValue("fatal")},
                 BoundBind(l, r) \/ BoundReplied(l, r)
          PROVE  Step
      BY <3>1 DEF BoundBind, BoundReplied, Step
    <3>2. ASSUME NEW l \in Langs, BoundRecord(l) \/ BoundCompare(l) PROVE Step
      BY <3>2 DEF BoundRecord, BoundCompare, Step
    <3>3. ASSUME NEW p \in Langs \X Langs, NEW r \in Replies \cup {NoValue("fatal")},
                 BoundMatrix(p, r)
          PROVE  Step
      BY <3>3 DEF BoundMatrix, Step
    <3>4. AsksNobody => Step
      BY DEF AsksNobody, Step
    <3> QED
      BY <3>1, <3>2, <3>3, <3>4 DEF BoundStep
  <2> QED
    BY <2>1 DEF BoundNext, Next
<1>3. UNCHANGED boundVars => UNCHANGED vars
  BY DEF boundVars
<1> QED
  BY <1>1, <1>2, <1>3

\* No worker has answered before the run begins.
LEMMA InitPair == BoundInit => PairInv
  BY DEF BoundInit, Init, PairInv, NoValue, NoRows, Rows

\* The verdict of a row was earned by the functions it names (orch.go:99-163): of suites
\* whose case names are distinct, and which know no failures when the full matrix is
\* asked for.
THEOREM PassedByItsPairCorrect ==
    ASSUME Distinct, FullMatrix => KnownFails = {}
    PROVE  BoundSpec => []PassedByItsPair
<1>1. MatchInv /\ TypeOK /\ Flow /\ [Next]_vars => MatchInv'
  BY NextMatch
<1>2. PairInv /\ MatchInv => PassedByItsPair
  <2> SUFFICES ASSUME PairInv, MatchInv, NEW k \in DOMAIN results, results[k] \in {"PASS", "XPASS"}
               PROVE  k \in DOMAIN origin /\ origin[k] = k[1]
    BY DEF PassedByItsPair
  <2>1. k \in DOMAIN answers /\ answers[k].kind = "ok"
    BY DEF MatchInv, Match, Passed, Conforms, Good
  <2> QED
    BY <2>1 DEF PairInv
<1>3. TypeOK /\ Flow /\ PairInv /\ [BoundNext]_boundVars => PairInv'
  BY NextPair, TypeParts
<1> QED
  BY <1>1, <1>2, <1>3, InitPair, BoundIsRun, InitMatch, InitType, NextType, InitFlow, NextFlow, PTL
  DEF BoundSpec
=============================================================================
