-------------------------- MODULE OrchestratorProofs --------------------------
(* Proofs about Orchestrator for every suite, every set of workers and every  *)
(* order in which their replies arrive.                                       *)
EXTENDS Orchestrator, TLAPS

Statuses == {"PASS", "FAIL", "XFAIL", "XPASS", "SKIP", "CASCADE", "ERROR", "WARN"}
Ops == {"serialize", "deserialize", "semantic", "matrix", "audit-serialize",
        "audit-deserialize"}

-----------------------------------------------------------------------------
(* The operators the model is built from. *)

\* Writing entries to a map.
LEMMA OverFacts ==
    ASSUME NEW new, NEW old
    PROVE  /\ DOMAIN Over(new, old) = DOMAIN new \cup DOMAIN old
           /\ \A k \in DOMAIN new : Over(new, old)[k] = new[k]
           /\ \A k \in DOMAIN old \ DOMAIN new : Over(new, old)[k] = old[k]
  BY DEF Over

\* A set of rows with one status.
LEMMA RowsFacts ==
    ASSUME NEW keys, NEW status
    PROVE  /\ DOMAIN Rows(keys, status) = keys
           /\ \A k \in keys : Rows(keys, status)[k] = status
  BY DEF Rows

\* What the report is once some rows were added.
LEMMA AddRows ==
    ASSUME NEW rows, Add(rows)
    PROVE  /\ DOMAIN results' = DOMAIN rows \cup DOMAIN results
           /\ \A k \in DOMAIN rows : results'[k] = rows[k]
           /\ \A k \in DOMAIN results \ DOMAIN rows : results'[k] = results[k]
           /\ failures' = failures \cup {k \in DOMAIN rows : rows[k] \in {"FAIL", "ERROR"}}
           /\ warnings' = warnings \cup {k \in DOMAIN rows : rows[k] \in {"WARN", "XPASS"}}
<1>1. results' = Over(rows, results)
  BY DEF Add
<1>2. /\ DOMAIN results' = DOMAIN rows \cup DOMAIN results
      /\ \A k \in DOMAIN rows : results'[k] = rows[k]
      /\ \A k \in DOMAIN results \ DOMAIN rows : results'[k] = results[k]
  BY <1>1 DEF Over
<1> QED
  BY <1>2 DEF Add

ReportOK ==
    /\ DOMAIN results \subseteq Keys
    /\ \A k \in DOMAIN results : results[k] \in Statuses
    /\ failures \cup warnings \subseteq DOMAIN results

\* Rows for keys of the suite keep the report's type.
LEMMA AddType ==
    ASSUME ReportOK, NEW rows, Add(rows), DOMAIN rows \subseteq Keys,
           \A k \in DOMAIN rows : rows[k] \in Statuses
    PROVE  ReportOK'
<1>1. /\ DOMAIN results' = DOMAIN rows \cup DOMAIN results
      /\ \A k \in DOMAIN rows : results'[k] = rows[k]
      /\ \A k \in DOMAIN results \ DOMAIN rows : results'[k] = results[k]
      /\ failures' \subseteq failures \cup DOMAIN rows
      /\ warnings' \subseteq warnings \cup DOMAIN rows
  BY AddRows
<1>2. DOMAIN results' \subseteq Keys
  BY <1>1 DEF ReportOK
<1>3. \A k \in DOMAIN results' : results'[k] \in Statuses
  BY <1>1 DEF ReportOK
<1>4. (failures \cup warnings)' \subseteq DOMAIN results'
  BY <1>1 DEF ReportOK
<1> QED
  BY <1>2, <1>3, <1>4 DEF ReportOK, Keys

AnswersOK ==
    /\ DOMAIN answers \subseteq Keys
    /\ \A k \in DOMAIN answers : answers[k] \in Reply

\* So does one more answer.
LEMMA AnswerType ==
    ASSUME AnswersOK, NEW k \in Keys, NEW r \in Reply,
           answers' = Over(Rows({k}, r), answers)
    PROVE  AnswersOK'
<1>1. DOMAIN answers' = {k} \cup DOMAIN answers
  BY DEF Over, Rows
<1>2. answers'[k] = r /\ \A j \in DOMAIN answers \ {k} : answers'[j] = answers[j]
  BY DEF Over, Rows
<1> QED
  BY <1>1, <1>2 DEF AnswersOK, Keys

\* A row with one key.
LEMMA OneRow ==
    ASSUME ReportOK, NEW k \in Keys, NEW s \in Statuses, Add(Rows({k}, s))
    PROVE  ReportOK'
  BY AddType, RowsFacts

\* Statuses of the judgements.
LEMMA VerdictType ==
    /\ \A d \in BOOLEAN, n \in BOOLEAN : Verdict(d, n) \in Statuses
    /\ \A r \in Reply, n \in BOOLEAN :
          ResolveResult(r, n) \in Statuses /\ MatrixStatus(r, n) \in Statuses
  BY DEF Verdict, ResolveResult, MatrixStatus, Statuses

\* A reply without content is a reply.
LEMMA NoValueType == NoValue("none") \in Reply /\ NoValue("fatal") \in Reply
  BY DEF NoValue, Reply, Values

\* What a request brings back is a reply, and only workers die.
LEMMA SendsType ==
    ASSUME dead \subseteq Langs, NEW l \in Langs, NEW r, Sends(l, r)
    PROVE  r \in Reply /\ r.kind # "none" /\ dead' \subseteq Langs
<1>1. CASE l \in dead \/ r \notin Replies
  <2>1. r = NoValue("fatal")
    BY <1>1 DEF Sends
  <2> QED
    BY <2>1, NoValueType DEF Sends, NoValue
<1>2. CASE r \in Replies
  BY <1>2, SuiteAssumption DEF Sends
<1> QED
  BY <1>1, <1>2

-----------------------------------------------------------------------------
(* Type correctness. *)

\* The sequential part of the state.
ControlOK ==
    /\ stage \in {"start", "bind", "case", "ser", "compare", "des", "matrix", "finish", "done"}
    /\ g \in DOMAIN Groups /\ i \in DOMAIN CaseNames
    /\ up \subseteq Langs /\ sub \subseteq Langs
    /\ todo \subseteq Langs \cup (Langs \X Langs)
    /\ inbox \in [Langs -> Reply]
    /\ hex \in [Langs -> Values \cup {"none"}]
    /\ dead \subseteq Langs
    /\ cancelled \in BOOLEAN /\ firstErr \in BOOLEAN /\ printed \in BOOLEAN
    /\ stale \subseteq SkipTypes \cup SkipOps
    /\ exit \in {"none", "zero", "one"}

\* TypeOK is the type of the control state, the report and the answers.
LEMMA TypeParts == TypeOK <=> ControlOK /\ ReportOK /\ AnswersOK
  BY DEF TypeOK, ControlOK, ReportOK, AnswersOK, Statuses

\* The same in the next state.
LEMMA TypePartsPrime == TypeOK' <=> ControlOK' /\ ReportOK' /\ AnswersOK'
  BY DEF TypeOK, ControlOK, ReportOK, AnswersOK, Statuses, Keys

\* A case or a group is followed by one the suite has, or by the end of the run.
LEMMA Advance ==
    ASSUME ControlOK, NextCase \/ NextGroup
    PROVE  /\ g' \in DOMAIN Groups /\ i' \in DOMAIN CaseNames
           /\ stage' \in {"bind", "case", "finish"}
           /\ sub' \subseteq Langs /\ todo' \subseteq Langs
<1>1. Groups \in Seq({Groups[n] : n \in DOMAIN Groups}) /\ CaseNames \in Seq(Names)
  BY SuiteAssumption
<1>2. DOMAIN Groups = 1..Len(Groups) /\ DOMAIN CaseNames = 1..Len(CaseNames)
      /\ Len(Groups) \in Nat /\ Len(CaseNames) \in Nat
  BY SuiteAssumption
<1>3. Len(CaseNames) >= 1
  BY <1>2, SuiteAssumption
<1> QED
  BY <1>2, <1>3 DEF ControlOK, NextCase, NextGroup

\* The keys of the current case are keys of the suite.
LEMMA KeyType ==
    ASSUME ControlOK, NEW who \in Langs \cup (Langs \X Langs), NEW op \in Ops
    PROVE  Key(who, op) \in Keys
<1>1. Case \in Names
  BY DEF ControlOK, Case, Names
<1> QED
  BY <1>1 DEF ControlOK, Key, Keys, Ops

\* markType writes rows of the suite.
LEMMA TypeRowsOK ==
    ASSUME ControlOK, ReportOK, NEW ls \in SUBSET Langs, NEW s \in Statuses,
           Add(TypeRows(ls, s))
    PROVE  ReportOK'
<1> DEFINE keys == {<<g, n, l, op>> : n \in Names, l \in ls, op \in Rounds}
<1>1. keys \subseteq Keys
  BY DEF ControlOK, Keys, Rounds
<1>2. DOMAIN TypeRows(ls, s) = keys /\ \A k \in keys : TypeRows(ls, s)[k] = s
  BY RowsFacts DEF TypeRows
<1> QED
  BY <1>1, <1>2, AddType

\* Adding nothing changes no type.
LEMMA NoRowsOK ==
    ASSUME ReportOK, Add(NoRows)
    PROVE  ReportOK'
<1>1. DOMAIN NoRows = {}
  BY RowsFacts DEF NoRows
<1> QED
  BY <1>1, AddType

\* A report that is left alone keeps its type.
LEMMA KeepReport ==
    ASSUME ReportOK, UNCHANGED reportVars
    PROVE  ReportOK'
  BY DEF ReportOK, reportVars, Keys

\* Answers that are left alone keep their type.
LEMMA KeepAnswers ==
    ASSUME AnswersOK, UNCHANGED answers
    PROVE  AnswersOK'
  BY DEF AnswersOK, Keys

\* A run that has not begun has the types.
LEMMA InitType == Init => TypeOK
<1> SUFFICES ASSUME Init PROVE TypeOK
  OBVIOUS
<1>1. 1 \in DOMAIN Groups /\ 1 \in DOMAIN CaseNames
  <2>1. DOMAIN Groups = 1..Len(Groups) /\ DOMAIN CaseNames = 1..Len(CaseNames)
        /\ Len(Groups) \in Nat /\ Len(CaseNames) \in Nat
    BY SuiteAssumption
  <2>2. Len(CaseNames) >= 1 /\ Len(Groups) >= 1
    BY <2>1, SuiteAssumption
  <2> QED
    BY <2>1, <2>2
<1>2. ControlOK
  BY <1>1, NoValueType DEF Init, ControlOK
<1>3. DOMAIN NoRows = {}
  BY RowsFacts DEF NoRows
<1> QED
  BY <1>2, <1>3, TypeParts DEF Init, ReportOK, AnswersOK

\* Every step of a run keeps the types.
LEMMA NextType == TypeOK /\ [Next]_vars => TypeOK'
<1> SUFFICES ASSUME ControlOK, ReportOK, AnswersOK, [Next]_vars
             PROVE  ControlOK' /\ ReportOK' /\ AnswersOK'
  BY TypeParts, TypePartsPrime
<1>0. dead \subseteq Langs
  BY DEF ControlOK
<1>1. ASSUME NEW l \in Langs, StartWorker(l) PROVE ControlOK' /\ ReportOK' /\ AnswersOK'
  BY <1>1, KeepReport, KeepAnswers DEF StartWorker, ControlOK, endVars
<1>2. CASE StartFails
  BY <1>2, KeepReport, KeepAnswers DEF StartFails, ControlOK
<1>3. ASSUME NEW l \in Langs, NEW r, Bind(l, r) PROVE ControlOK' /\ ReportOK' /\ AnswersOK'
  <2>1. r \in Reply /\ dead' \subseteq Langs
    BY <1>0, <1>3, SendsType DEF Bind
  <2>2. ControlOK'
    BY <1>3, <2>1 DEF Bind, ControlOK, endVars
  <2>3. Add(NoRows) \/ Add(TypeRows({l}, "SKIP")) \/ Add(TypeRows({l}, "ERROR"))
    BY <1>3 DEF Bind
  <2>4. ReportOK'
    BY <2>3, NoRowsOK, TypeRowsOK DEF Statuses
  <2> QED
    BY <1>3, <2>2, <2>4, KeepAnswers DEF Bind
<1>4. CASE Bound
  <2>1. ControlOK'
    <3>1. CASE stage' = "case" /\ UNCHANGED <<g, i, sub, todo>>
      BY <1>4, <3>1 DEF Bound, ControlOK, endVars
    <3>2. CASE NextGroup
      BY <1>4, <3>2, Advance DEF Bound, ControlOK, endVars
    <3> QED
      BY <1>4, <3>1, <3>2 DEF Bound
  <2>2. ReportOK'
    <3>1. sub \subseteq Langs
      BY DEF ControlOK
    <3> QED
      BY <1>4, <3>1, NoRowsOK, TypeRowsOK DEF Bound, Statuses
  <2> QED
    BY <1>4, <2>1, <2>2, KeepAnswers DEF Bound
<1>5. CASE StartCase
  <2>1. ControlOK'
    <3>1. CASE stage' = "ser" /\ todo' = sub /\ UNCHANGED <<g, i, sub, firstErr>>
      BY <1>5, <3>1 DEF StartCase, ControlOK, endVars
    <3>2. CASE firstErr' = TRUE /\ NextCase
      BY <1>5, <3>2, Advance DEF StartCase, ControlOK, endVars
    <3>3. \/ stage' = "ser" /\ todo' = sub /\ UNCHANGED <<g, i, sub, firstErr>>
          \/ firstErr' = TRUE /\ NextCase
      BY <1>5 DEF StartCase
    <3> QED
      BY <3>1, <3>2, <3>3
  <2>2. ReportOK'
    <3> DEFINE keys == {Key(l, op) : l \in sub, op \in Rounds}
    <3>1. CASE Add(Rows(keys, "ERROR"))
      <4>1. keys \subseteq Keys
        BY KeyType DEF ControlOK, Ops, Rounds
      <4> QED
        BY <3>1, <4>1, RowsFacts, AddType DEF Statuses
    <3>2. CASE UNCHANGED reportVars
      BY <3>2, KeepReport
    <3> QED
      BY <1>5, <3>1, <3>2 DEF StartCase
  <2> QED
    BY <1>5, <2>1, <2>2, KeepAnswers DEF StartCase
<1>6. ASSUME NEW l \in Langs, NEW r, Replied(l, r) PROVE ControlOK' /\ ReportOK' /\ AnswersOK'
  <2>1. r \in Reply /\ dead' \subseteq Langs
    BY <1>0, <1>6, SendsType DEF Replied
  <2> QED
    BY <1>6, <2>1, KeepReport, KeepAnswers DEF Replied, ControlOK, endVars
<1>7. ASSUME NEW l \in Langs, SerRecord(l) PROVE ControlOK' /\ ReportOK' /\ AnswersOK'
  <2>1. inbox[l] \in Reply /\ NoValue("none") \in Reply /\ inbox[l].value \in Values
    BY NoValueType DEF ControlOK, Reply
  <2>2. ControlOK'
    BY <1>7, <2>1 DEF SerRecord, Recorded, ControlOK, endVars
  <2>3. CASE cancelled
    BY <1>7, <2>2, <2>3, KeepReport, KeepAnswers DEF SerRecord
  <2>4. CASE ~cancelled
    <3>1. Key(l, "serialize") \in Keys /\ Key(l, "audit-serialize") \in Keys
      BY KeyType DEF Ops
    <3>2. AnswersOK'
      BY <1>7, <2>1, <2>4, <3>1, AnswerType DEF SerRecord
    <3> DEFINE s == ResolveResult(inbox[l], Known(l))
               row == IF inbox[l].kind = "ok" /\ l # Ref THEN NoRows
                      ELSE Rows({Key(l, "serialize")}, s)
               rows == Over(AuditRows(l, "audit-serialize"), row)
    <3>3. s \in Statuses
      BY <2>1 DEF ResolveResult, Statuses
    <3>4. DOMAIN row \subseteq Keys /\ \A k \in DOMAIN row : row[k] \in Statuses
      BY <3>1, <3>3, RowsFacts DEF NoRows
    <3>5. /\ DOMAIN AuditRows(l, "audit-serialize") \subseteq Keys
          /\ \A k \in DOMAIN AuditRows(l, "audit-serialize") :
                AuditRows(l, "audit-serialize")[k] \in Statuses
      BY <3>1, RowsFacts DEF AuditRows, NoRows, Statuses
    <3>6. DOMAIN rows \subseteq Keys /\ \A k \in DOMAIN rows : rows[k] \in Statuses
      <4> HIDE DEF row
      <4> QED
        BY <3>4, <3>5 DEF Over
    <3>7. Add(rows)
      BY <1>7, <2>4 DEF SerRecord
    <3>8. ReportOK'
      <4> HIDE DEF rows
      <4> QED
        BY <3>6, <3>7, AddType
    <3> QED
      BY <2>2, <3>2, <3>8
  <2> QED
    BY <2>3, <2>4
<1>8. CASE SerDone
  BY <1>8, KeepReport, KeepAnswers DEF SerDone, ControlOK, endVars
<1>9. ASSUME NEW l \in Langs, Compare(l) PROVE ControlOK' /\ ReportOK' /\ AnswersOK'
  <2>1. Key(l, "serialize") \in Keys /\ Key(l, "semantic") \in Keys
    BY KeyType DEF Ops
  <2>2. ASSUME NEW s \in {"PASS", Verdict(hex[l] # hex[Ref], Known(l))},
               UNCHANGED <<dead, answers>>, Add(Rows({Key(l, "serialize")}, s))
        PROVE  ControlOK' /\ ReportOK' /\ AnswersOK'
    <3>1. ControlOK'
      BY <1>9, <2>2 DEF Compare, ControlOK, endVars
    <3>2. s \in Statuses
      BY DEF Verdict, Statuses
    <3> QED
      BY <2>1, <2>2, <3>1, <3>2, OneRow, KeepAnswers
  <2>3. ASSUME NEW r, Sends(Ref, r), Add(Rows({Key(l, "serialize")}, Verdict(~Good(r), Known(l)))),
               answers' = Over(Rows({Key(l, "semantic")}, r), answers)
        PROVE  ControlOK' /\ ReportOK' /\ AnswersOK'
    <3>1. r \in Reply /\ dead' \subseteq Langs
      BY <1>0, <2>3, SendsType, SuiteAssumption
    <3>2. ControlOK'
      BY <1>9, <3>1 DEF Compare, ControlOK, endVars
    <3>3. Verdict(~Good(r), Known(l)) \in Statuses
      BY DEF Verdict, Statuses
    <3> QED
      BY <2>1, <2>3, <3>1, <3>2, <3>3, OneRow, AnswerType
  <2> QED
    BY <1>9, <2>2, <2>3 DEF Compare
<1>10. CASE CompareDone
  <2>1. ControlOK'
    <3>1. CASE stage' = "des" /\ todo' = sub /\ UNCHANGED <<g, i, sub>>
      BY <1>10, <3>1 DEF CompareDone, ControlOK, endVars
    <3>2. CASE NextCase
      BY <1>10, <3>2, Advance DEF CompareDone, ControlOK, endVars
    <3> QED
      BY <1>10, <3>1, <3>2 DEF CompareDone
  <2>2. ReportOK'
    <3> DEFINE keys == {Key(l, "deserialize") : l \in sub}
    <3>1. CASE Add(Rows(keys, "CASCADE"))
      <4>1. keys \subseteq Keys
        BY KeyType DEF ControlOK, Ops
      <4> QED
        BY <3>1, <4>1, RowsFacts, AddType DEF Statuses
    <3>2. CASE UNCHANGED reportVars
      BY <3>2, KeepReport
    <3> QED
      BY <1>10, <3>1, <3>2 DEF CompareDone
  <2> QED
    BY <1>10, <2>1, <2>2, KeepAnswers DEF CompareDone
<1>11. ASSUME NEW l \in Langs, DesRecord(l) PROVE ControlOK' /\ ReportOK' /\ AnswersOK'
  <2>1. inbox[l] \in Reply /\ NoValue("none") \in Reply
    BY NoValueType DEF ControlOK
  <2>2. ControlOK'
    BY <1>11, <2>1 DEF DesRecord, Recorded, ControlOK, endVars
  <2>3. CASE cancelled
    BY <1>11, <2>2, <2>3, KeepReport, KeepAnswers DEF DesRecord
  <2>4. CASE ~cancelled
    <3>1. Key(l, "deserialize") \in Keys /\ Key(l, "audit-deserialize") \in Keys
      BY KeyType DEF Ops
    <3>2. AnswersOK'
      BY <1>11, <2>1, <2>4, <3>1, AnswerType DEF DesRecord
    <3> DEFINE s == IF inbox[l].kind = "ok" THEN Verdict(~Good(inbox[l]), Known(l))
                    ELSE ResolveResult(inbox[l], Known(l))
               row == Rows({Key(l, "deserialize")}, s)
               rows == Over(AuditRows(l, "audit-deserialize"), row)
    <3>3. s \in Statuses
      BY DEF Verdict, ResolveResult, Statuses
    <3>4. DOMAIN row \subseteq Keys /\ \A k \in DOMAIN row : row[k] \in Statuses
      <4> HIDE DEF s
      <4> QED
        BY <3>1, <3>3, RowsFacts
    <3>5. /\ DOMAIN AuditRows(l, "audit-deserialize") \subseteq Keys
          /\ \A k \in DOMAIN AuditRows(l, "audit-deserialize") :
                AuditRows(l, "audit-deserialize")[k] \in Statuses
      BY <3>1, RowsFacts DEF AuditRows, NoRows, Statuses
    <3>6. DOMAIN rows \subseteq Keys /\ \A k \in DOMAIN rows : rows[k] \in Statuses
      <4> HIDE DEF row
      <4> QED
        BY <3>4, <3>5 DEF Over
    <3>7. Add(rows)
      BY <1>11, <2>4 DEF DesRecord
    <3>8. ReportOK'
      <4> HIDE DEF rows
      <4> QED
        BY <3>6, <3>7, AddType
    <3> QED
      BY <2>2, <3>2, <3>8
  <2> QED
    BY <2>3, <2>4
<1>12. CASE DesDone
  <2> DEFINE mute == {l \in sub : hex[l] \in {"none", "empty"}}
             keys == {Key(p, "matrix") : p \in mute \X sub}
  <2>1. CASE NextCase /\ UNCHANGED reportVars
    BY <1>12, <2>1, Advance, KeepReport, KeepAnswers DEF DesDone, ControlOK, endVars
  <2>2. CASE /\ Add(Rows(keys, "SKIP")) /\ todo' = (sub \ mute) \X sub
             /\ stage' = "matrix" /\ UNCHANGED <<g, i, sub>>
    <3>1. sub \subseteq Langs
      BY DEF ControlOK
    <3>2. todo' \subseteq Langs \X Langs
      BY <2>2, <3>1
    <3>3. ControlOK'
      BY <1>12, <2>2, <3>2 DEF DesDone, ControlOK, endVars
    <3>4. keys \subseteq Keys
      BY <3>1, KeyType DEF Ops
    <3>5. ReportOK'
      <4> HIDE DEF keys
      <4> QED
        BY <2>2, <3>4, RowsFacts, AddType DEF Statuses
    <3> QED
      BY <1>12, <3>3, <3>5, KeepAnswers DEF DesDone
  <2> QED
    BY <1>12, <2>1, <2>2 DEF DesDone
<1>13. ASSUME NEW p \in Langs \X Langs, NEW r, Matrix(p, r)
       PROVE  ControlOK' /\ ReportOK' /\ AnswersOK'
  <2>1. r \in Reply /\ dead' \subseteq Langs
    BY <1>0, <1>13, SendsType DEF Matrix
  <2>2. ControlOK'
    BY <1>13, <2>1 DEF Matrix, ControlOK, endVars
  <2>3. Key(p, "matrix") \in Keys
    BY KeyType DEF Ops
  <2>4. MatrixStatus(r, Known(p[2])) \in Statuses
    BY DEF MatrixStatus, ResolveResult, Statuses
  <2> QED
    BY <1>13, <2>1, <2>2, <2>3, <2>4, OneRow, AnswerType DEF Matrix
<1>14. CASE MatrixDone
  BY <1>14, Advance, KeepReport, KeepAnswers DEF MatrixDone, ControlOK, endVars
<1>15. CASE Finish
  <2>1. ControlOK'
    BY <1>15 DEF Finish, ControlOK, Stale
  <2>2. CASE UNCHANGED reportVars
    BY <1>15, <2>1, <2>2, KeepReport, KeepAnswers DEF Finish
  <2>3. CASE Add(IF Enforce THEN Rows(Undeclared, "FAIL") ELSE NoRows)
    <3>1. Undeclared \subseteq Keys
      BY DEF Undeclared, Skips, ReportOK
    <3>2. ReportOK'
      BY <2>3, <3>1, RowsFacts, AddType, NoRowsOK DEF Statuses
    <3> QED
      BY <1>15, <2>1, <3>2, KeepAnswers DEF Finish
  <2> QED
    BY <1>15, <2>2, <2>3 DEF Finish
<1>16. CASE Cancel
  BY <1>16, KeepReport, KeepAnswers DEF Cancel, ControlOK, endVars
<1>17. CASE UNCHANGED vars
  BY <1>17, KeepReport, KeepAnswers DEF vars, ControlOK, endVars
<1> QED
  BY <1>1, <1>2, <1>3, <1>4, <1>5, <1>6, <1>7, <1>8, <1>9, <1>10, <1>11, <1>12, <1>13, <1>14,
<1>15, <1>16, <1>17 DEF Next, Step, Terminated

\* The state keeps its type: every row is for a key of the suite, and no case
\* beyond the last is started (orch.go:163-186).
THEOREM TypeCorrect == Spec => []TypeOK
  BY InitType, NextType, PTL DEF Spec

-----------------------------------------------------------------------------
(* The order of a run.  Everything below rests on it. *)

\* The sequential part waits for the goroutines of a round: a reply that is not
\* recorded yet belongs to a worker the stage still has to deal with.
Flow ==
    /\ stage = "start" => sub = {} /\ g = 1
    /\ stage \in {"start", "bind"} => i = 1
    /\ stage \in {"case", "ser", "compare", "des", "matrix"} => Ref \in sub
    /\ stage = "bind" => todo \subseteq Langs /\ sub \cap todo = {}
    /\ stage \in {"ser", "des"} => todo \subseteq sub
    /\ stage = "ser" => \A l \in todo : hex[l] = "none"
    /\ stage = "compare" => todo \subseteq sub \ {Ref} /\ \A l \in todo : hex[l] # "none"
    /\ stage \in {"des", "matrix"} => hex[Ref] # "none"
    /\ stage = "matrix" => FullMatrix /\ todo \subseteq sub \X sub
    /\ \A l \in Langs : inbox[l].kind # "none" => stage \in {"ser", "des"} /\ l \in todo
    /\ exit # "none" \/ printed => stage = "done"
    /\ stage = "done" => up = {}
    /\ ~MayCancel => ~cancelled

\* The order holds before anything has begun.
LEMMA InitFlow == Init => Flow
  BY DEF Init, Flow, NoValue

\* What comes after a case or a group starts afresh.
LEMMA AdvanceFlow ==
    ASSUME ControlOK, NextCase \/ NextGroup
    PROVE  /\ stage' \in {"bind", "case", "finish"}
           /\ stage' = "case" => sub' = sub
           /\ stage' = "bind" => todo' = Langs /\ sub' = {} /\ i' = 1
  BY DEF NextCase, NextGroup

\* Every step keeps the order of the run.
LEMMA NextFlow == TypeOK /\ Flow /\ [Next]_vars => Flow'
<1> SUFFICES ASSUME ControlOK, Flow, [Next]_vars PROVE Flow'
  BY TypeParts
<1>1. ASSUME NEW l \in Langs, StartWorker(l) PROVE Flow'
  BY <1>1 DEF StartWorker, ControlOK, Flow, endVars
<1>2. CASE StartFails
  BY <1>2 DEF StartFails, Flow
<1>3. ASSUME NEW l \in Langs, NEW r, Bind(l, r) PROVE Flow'
  BY <1>3 DEF Bind, ControlOK, Flow, endVars
<1>4. CASE Bound
  <2>1. CASE Ref \in sub /\ stage' = "case" /\ UNCHANGED <<g, i, sub, todo>>
    BY <1>4, <2>1 DEF Bound, Flow, endVars
  <2>2. CASE NextGroup
    BY <1>4, <2>2, AdvanceFlow DEF Bound, NextGroup, Flow, endVars
  <2> QED
    BY <1>4, <2>1, <2>2 DEF Bound
<1>5. CASE StartCase
  <2>1. CASE stage' = "ser" /\ todo' = sub /\ UNCHANGED <<g, i, sub, firstErr>>
    BY <1>5, <2>1 DEF StartCase, ControlOK, Flow, endVars
  <2>2. CASE NextCase
    BY <1>5, <2>2, AdvanceFlow DEF StartCase, Flow, endVars
  <2>3. \/ stage' = "ser" /\ todo' = sub /\ UNCHANGED <<g, i, sub, firstErr>>
        \/ NextCase
    BY <1>5 DEF StartCase
  <2> QED
    BY <2>1, <2>2, <2>3
<1>6. ASSUME NEW l \in Langs, NEW r, Replied(l, r) PROVE Flow'
  BY <1>6 DEF Replied, ControlOK, Flow, endVars
<1>7. ASSUME NEW l \in Langs, SerRecord(l) PROVE Flow'
  <2>1. hex' = hex \/ \E v : hex' = [hex EXCEPT ![l] = v]
    BY <1>7 DEF SerRecord
  <2>2. \A m \in Langs \ {l} : hex'[m] = hex[m]
    BY <2>1 DEF ControlOK
  <2> QED
    BY <1>7, <2>2 DEF SerRecord, Recorded, ControlOK, Flow, endVars, NoValue
<1>8. CASE SerDone
  BY <1>8 DEF SerDone, ControlOK, Flow, endVars
<1>9. ASSUME NEW l \in Langs, Compare(l) PROVE Flow'
  BY <1>9 DEF Compare, ControlOK, Flow, endVars
<1>10. CASE CompareDone
  <2>1. CASE hex[Ref] # "none" /\ stage' = "des" /\ todo' = sub /\ UNCHANGED <<g, i, sub>>
    BY <1>10, <2>1 DEF CompareDone, ControlOK, Flow, endVars
  <2>2. CASE NextCase
    BY <1>10, <2>2, AdvanceFlow DEF CompareDone, Flow, endVars
  <2> QED
    BY <1>10, <2>1, <2>2 DEF CompareDone
<1>11. ASSUME NEW l \in Langs, DesRecord(l) PROVE Flow'
  BY <1>11 DEF DesRecord, Recorded, ControlOK, Flow, endVars, NoValue
<1>12. CASE DesDone
  <2>1. CASE NextCase
    BY <1>12, <2>1, AdvanceFlow DEF DesDone, Flow, endVars
  <2>2. ASSUME NEW mute \in SUBSET sub, FullMatrix, todo' = (sub \ mute) \X sub, stage' = "matrix",
               UNCHANGED <<g, i, sub>>
        PROVE  Flow'
    <3>1. todo' \subseteq sub \X sub
      BY <2>2
    <3> QED
      BY <1>12, <2>2, <3>1 DEF DesDone, ControlOK, Flow, endVars
  <2> QED
    BY <1>12, <2>1, <2>2 DEF DesDone
<1>13. ASSUME NEW p \in Langs \X Langs, NEW r, Matrix(p, r) PROVE Flow'
  BY <1>13 DEF Matrix, ControlOK, Flow, endVars
<1>14. CASE MatrixDone
  BY <1>14, AdvanceFlow DEF MatrixDone, Flow, endVars
<1>15. CASE Finish
  BY <1>15 DEF Finish, ControlOK, Flow
<1>16. CASE Cancel
  BY <1>16 DEF Cancel, ControlOK, Flow, endVars
<1>17. CASE UNCHANGED vars
  BY <1>17 DEF vars, Flow, endVars
<1> QED
  BY <1>1, <1>2, <1>3, <1>4, <1>5, <1>6, <1>7, <1>8, <1>9, <1>10, <1>11, <1>12, <1>13, <1>14,
<1>15, <1>16, <1>17 DEF Next, Step, Terminated

-----------------------------------------------------------------------------
(* A worker that died shows. *)

\* Why a dead worker cannot be missed in a run nobody interrupts: it is already in
\* Failures, or its reply waits to be recorded, or it is the reference, lost while
\* it judged another worker's bytes, and round 2 will ask it again.
DeadInv ==
    /\ exit # "zero"
    /\ dead # {} =>
          \/ failures # {} \/ firstErr
          \/ stage \in {"ser", "des"} /\ \E l \in todo : inbox[l].kind = "fatal"
          \/ stage = "compare" /\ Ref \in dead /\ hex[Ref] # "none"
          \/ stage = "des" /\ Ref \in dead /\ Ref \in todo /\ inbox[Ref].kind \in {"none", "fatal"}
ShownInv == dead # {} => DeadInv

\* A fatal reply is a row in Failures, whatever is known of the worker.
LEMMA FatalFails ==
    ASSUME NEW r, r.kind = "fatal", NEW known
    PROVE  ResolveResult(r, known) = "ERROR" /\ MatrixStatus(r, known) = "ERROR"
  BY DEF ResolveResult, MatrixStatus

\* Failures only grows.
LEMMA Grows ==
    ASSUME [Next]_vars
    PROVE  failures \subseteq failures' /\ (firstErr => firstErr')
<1>1. ASSUME NEW l \in Langs, StartWorker(l) PROVE failures' = failures /\ firstErr' = firstErr
  BY <1>1 DEF StartWorker, reportVars
<1>2. CASE StartFails
  BY <1>2 DEF StartFails, reportVars
<1>3. ASSUME NEW l \in Langs, NEW r, Bind(l, r) PROVE failures \subseteq failures' /\ firstErr' = firstErr
  BY <1>3 DEF Bind, Add
<1>4. CASE Bound
  BY <1>4 DEF Bound, Add
<1>5. CASE StartCase
  <2>1. failures \subseteq failures'
    <3>1. (\E rows : Add(rows)) \/ UNCHANGED reportVars
      BY <1>5 DEF StartCase
    <3> QED
      BY <3>1 DEF Add, reportVars
  <2>2. firstErr' = TRUE \/ firstErr' = firstErr
    BY <1>5 DEF StartCase
  <2> QED
    BY <2>1, <2>2
<1>6. ASSUME NEW l \in Langs, NEW r, Replied(l, r) PROVE failures' = failures /\ firstErr' = firstErr
  BY <1>6 DEF Replied, reportVars
<1>7. ASSUME NEW l \in Langs, SerRecord(l) PROVE failures \subseteq failures' /\ firstErr' = firstErr
  BY <1>7 DEF SerRecord, Recorded, Add, reportVars
<1>8. CASE SerDone
  BY <1>8 DEF SerDone, reportVars
<1>9. ASSUME NEW l \in Langs, Compare(l) PROVE failures \subseteq failures' /\ firstErr' = firstErr
  BY <1>9 DEF Compare, Add
<1>10. CASE CompareDone
  BY <1>10 DEF CompareDone, Add, reportVars
<1>11. ASSUME NEW l \in Langs, DesRecord(l) PROVE failures \subseteq failures' /\ firstErr' = firstErr
  BY <1>11 DEF DesRecord, Recorded, Add, reportVars
<1>12. CASE DesDone
  BY <1>12 DEF DesDone, Add, reportVars
<1>13. ASSUME NEW p \in Langs \X Langs, NEW r, Matrix(p, r)
       PROVE  failures \subseteq failures' /\ firstErr' = firstErr
  BY <1>13 DEF Matrix, Add
<1>14. CASE MatrixDone
  BY <1>14 DEF MatrixDone, reportVars
<1>15. CASE Finish
  BY <1>15 DEF Finish, Add, reportVars
<1>16. CASE Cancel
  BY <1>16 DEF Cancel, reportVars
<1>17. CASE UNCHANGED vars
  BY <1>17 DEF vars, reportVars
<1> QED
  BY <1>1, <1>2, <1>3, <1>4, <1>5, <1>6, <1>7, <1>8, <1>9, <1>10, <1>11, <1>12, <1>13, <1>14,
<1>15, <1>16, <1>17 DEF Next, Step, Terminated

\* No step hides a dead worker: a fatal reply waits to be recorded, and recording it is a
\* failure.
LEMMA NextDead ==
    ASSUME TypeOK, Flow, ShownInv, [Next]_vars, ~MayCancel
    PROVE  ShownInv'
<1> SUFFICES ASSUME dead' # {} PROVE DeadInv'
  BY DEF ShownInv
<1>a. ControlOK
  BY TypeParts
<1>b. ~cancelled
  BY DEF Flow
<1>c. stage # "done" => exit = "none"
  BY DEF Flow
<1>d. Names # {}
  <2>1. DOMAIN CaseNames = 1..Len(CaseNames) /\ Len(CaseNames) \in Nat
    BY SuiteAssumption
  <2>2. Len(CaseNames) >= 1
    BY <2>1, SuiteAssumption
  <2> QED
    BY <2>1, <2>2, CaseNames[1] \in Names DEF Names
<1>e. failures # {} \/ firstErr => failures' # {} \/ firstErr'
  BY Grows
<1> USE <1>a, <1>b, <1>c
<1>1. ASSUME NEW l \in Langs, StartWorker(l) PROVE DeadInv'
  BY <1>1, <1>e DEF StartWorker, ShownInv, DeadInv, endVars
<1>2. CASE StartFails
  BY <1>2, <1>e DEF StartFails, ShownInv, DeadInv
<1>3. ASSUME NEW l \in Langs, NEW r, Bind(l, r) PROVE DeadInv'
  <2>1. exit' # "zero"
    BY <1>3 DEF Bind, endVars
  <2>2. CASE dead' = dead
    BY <1>3, <1>e, <2>1, <2>2 DEF Bind, ShownInv, DeadInv
  <2>3. CASE r.kind = "fatal"
    <3>1. Add(TypeRows({l}, "ERROR"))
      BY <1>3, <2>3 DEF Bind
    <3>2. PICK n \in Names : TRUE
      BY <1>d
    <3>3. <<g, n, l, "serialize">> \in DOMAIN TypeRows({l}, "ERROR")
          /\ TypeRows({l}, "ERROR")[<<g, n, l, "serialize">>] = "ERROR"
      BY DEF TypeRows, Rows, Rounds
    <3>4. failures' # {}
      BY <3>1, <3>3 DEF Add
    <3> QED
      BY <2>1, <3>4 DEF DeadInv
  <2> QED
    BY <1>3, <2>2, <2>3 DEF Bind, Sends
<1>4. CASE Bound
  BY <1>4, <1>e DEF Bound, ShownInv, DeadInv, endVars
<1>5. CASE StartCase
  BY <1>5, <1>e DEF StartCase, ShownInv, DeadInv, endVars
<1>6. ASSUME NEW l \in Langs, NEW r, Replied(l, r) PROVE DeadInv'
  <2>1. exit' # "zero" /\ l \in todo' /\ inbox'[l] = r /\ \A m \in Langs \ {l} : inbox'[m] = inbox[m]
    BY <1>6 DEF Replied, endVars, ControlOK
  <2>2. CASE r.kind = "fatal"
    BY <1>6, <2>1, <2>2 DEF Replied, DeadInv
  <2>3. CASE r.kind # "fatal"
    <3>1. dead' = dead /\ l \notin dead
      BY <1>6, <2>3 DEF Replied, Sends, NoValue
    <3>2. todo \subseteq Langs
      BY <1>6 DEF Flow, ControlOK, Replied
    <3> QED
      BY <1>6, <1>e, <2>1, <3>1, <3>2 DEF Replied, ShownInv, DeadInv
  <2> QED
    BY <2>2, <2>3
<1>7. ASSUME NEW l \in Langs, SerRecord(l) PROVE DeadInv'
  <2>1. exit' # "zero" /\ dead' = dead /\ stage' = stage /\ todo' = todo \ {l}
        /\ \A m \in Langs \ {l} : inbox'[m] = inbox[m]
    BY <1>7 DEF SerRecord, Recorded, endVars, ControlOK
  <2>2. CASE inbox[l].kind = "fatal"
    <3> DEFINE row == Rows({Key(l, "serialize")}, ResolveResult(inbox[l], Known(l)))
               rows == Over(AuditRows(l, "audit-serialize"), row)
    <3>1. Add(rows)
      BY <1>7, <2>2 DEF SerRecord
    <3>2. Key(l, "serialize") \in DOMAIN rows /\ Key(l, "serialize") \notin DOMAIN AuditRows(l, "audit-serialize")
      BY DEF Over, Rows, AuditRows, NoRows, Key
    <3>3. row[Key(l, "serialize")] = "ERROR"
      BY <2>2, FatalFails DEF Rows
    <3>4. rows[Key(l, "serialize")] = "ERROR"
      BY <3>2, <3>3 DEF Over
    <3>5. failures' # {}
      <4> HIDE DEF rows
      <4> QED
        BY <3>1, <3>2, <3>4 DEF Add
    <3> QED
      BY <2>1, <3>5 DEF DeadInv
  <2>3. CASE inbox[l].kind # "fatal"
    <3>1. todo \subseteq Langs
      BY <1>7 DEF Flow, ControlOK, SerRecord
    <3> QED
      BY <1>7, <1>e, <2>1, <2>3, <3>1 DEF SerRecord, ShownInv, DeadInv
  <2> QED
    BY <2>2, <2>3
<1>8. CASE SerDone
  BY <1>8, <1>e DEF SerDone, ShownInv, DeadInv, endVars
<1>9. ASSUME NEW l \in Langs, Compare(l) PROVE DeadInv'
  <2>1. exit' # "zero" /\ stage' = "compare" /\ stage = "compare" /\ hex' = hex
    BY <1>9 DEF Compare, endVars
  <2>2. CASE dead' = dead
    BY <1>e, <2>1, <2>2 DEF ShownInv, DeadInv
  <2>3. CASE dead' # dead
    BY <1>9, <2>1, <2>3 DEF Compare, Sends, DeadInv
  <2> QED
    BY <2>2, <2>3
<1>10. CASE CompareDone
  <2>1. Ref \in sub /\ (inbox[Ref].kind = "none")
    BY <1>10, SuiteAssumption DEF CompareDone, Flow
  <2> QED
    BY <1>10, <1>e, <2>1 DEF CompareDone, ShownInv, DeadInv, endVars
<1>11. ASSUME NEW l \in Langs, DesRecord(l) PROVE DeadInv'
  <2>1. exit' # "zero" /\ dead' = dead /\ stage = "des" /\ stage' = stage /\ todo' = todo \ {l}
        /\ \A m \in Langs \ {l} : inbox'[m] = inbox[m]
    BY <1>11 DEF DesRecord, Recorded, endVars, ControlOK
  <2>2. CASE inbox[l].kind = "fatal"
    <3> DEFINE row == Rows({Key(l, "deserialize")},
                           IF inbox[l].kind = "ok" THEN Verdict(~Good(inbox[l]), Known(l))
                           ELSE ResolveResult(inbox[l], Known(l)))
               rows == Over(AuditRows(l, "audit-deserialize"), row)
    <3>1. Add(rows)
      BY <1>11 DEF DesRecord
    <3>2. Key(l, "deserialize") \in DOMAIN rows
          /\ Key(l, "deserialize") \notin DOMAIN AuditRows(l, "audit-deserialize")
      BY DEF Over, Rows, AuditRows, NoRows, Key
    <3>3. row[Key(l, "deserialize")] = "ERROR"
      BY <2>2, FatalFails DEF Rows
    <3>4. rows[Key(l, "deserialize")] = "ERROR"
      BY <3>2, <3>3 DEF Over
    <3>5. failures' # {}
      <4> HIDE DEF rows
      <4> QED
        BY <3>1, <3>2, <3>4 DEF Add
    <3> QED
      BY <2>1, <3>5 DEF DeadInv
  <2>3. CASE inbox[l].kind # "fatal"
    <3>1. todo \subseteq Langs /\ inbox[l].kind # "none"
      BY <1>11 DEF Flow, ControlOK, DesRecord, Recorded
    <3> QED
      BY <1>e, <2>1, <2>3, <3>1, SuiteAssumption DEF ShownInv, DeadInv
  <2> QED
    BY <2>2, <2>3
<1>12. CASE DesDone
  BY <1>12, <1>e DEF DesDone, ShownInv, DeadInv, endVars
<1>13. ASSUME NEW p \in Langs \X Langs, NEW r, Matrix(p, r) PROVE DeadInv'
  <2>1. exit' # "zero" /\ stage = "matrix"
    BY <1>13 DEF Matrix, endVars
  <2>2. CASE dead' = dead
    BY <1>e, <2>1, <2>2 DEF ShownInv, DeadInv
  <2>3. CASE r.kind = "fatal"
    <3>1. Add(Rows({Key(p, "matrix")}, "ERROR"))
      BY <1>13, <2>3, FatalFails DEF Matrix
    <3>2. failures' # {}
      BY <3>1 DEF Add, Rows
    <3> QED
      BY <2>1, <3>2 DEF DeadInv
  <2> QED
    BY <1>13, <2>2, <2>3 DEF Matrix, Sends
<1>14. CASE MatrixDone
  BY <1>14, <1>e DEF MatrixDone, ShownInv, DeadInv, endVars
<1>15. CASE Finish
  BY <1>15, <1>e DEF Finish, ShownInv, DeadInv
<1>16. CASE Cancel
  BY <1>16, <1>e DEF Cancel, ShownInv, DeadInv, endVars
<1>17. CASE UNCHANGED vars
  BY <1>17, <1>e DEF vars, ShownInv, DeadInv, endVars
<1> QED
  BY <1>1, <1>2, <1>3, <1>4, <1>5, <1>6, <1>7, <1>8, <1>9, <1>10, <1>11, <1>12, <1>13, <1>14,
<1>15, <1>16, <1>17 DEF Next, Step, Terminated

\* A worker killed by a transport error is never hidden behind exit code 0, in a
\* run that nobody interrupts (orch.go:99-100).
THEOREM DeadNeverGreenCorrect ==
    ASSUME ~MayCancel
    PROVE  Spec => []DeadNeverGreen
<1>1. Init => ShownInv
  BY DEF Init, ShownInv
<1>2. ShownInv /\ TypeOK /\ Flow /\ [Next]_vars => ShownInv'
  BY NextDead
<1>3. ShownInv => DeadNeverGreen
  BY DEF ShownInv, DeadInv, DeadNeverGreen
<1> QED
  BY <1>1, <1>2, <1>3, InitType, NextType, InitFlow, NextFlow, PTL DEF Spec
=============================================================================
