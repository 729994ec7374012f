---------------------------- MODULE GoWorkerProofs ----------------------------
(***************************************************************************)
(* What the Go worker library promises for every Suite and every sequence of *)
(* requests: which pair answers, what an audit reports, what it leaves alone. *)
(***************************************************************************)
EXTENDS GoWorker, TLAPS

\* What a clone or a snapshot shows of a set of fields is a set of fields, and
\* all of them when every shape is known to the probes.
LEMMA ProbesShow ==
    ASSUME NEW fs \in SUBSET Fields
    PROVE  /\ Seen(fs) \in SUBSET Fields
           /\ AllKnown => Seen(fs) = fs
<1>1. Noisy \in SUBSET Fields
  BY WorkerAssumption DEF Noisy
<1> QED
  BY <1>1 DEF Seen, AllKnown

\* The same of the zero-copy probe: with every shape known it reports exactly the
\* fields that share the buffer, and leaves none of them flipped.
LEMMA ZeroCopyShows ==
    ASSUME NEW c \in DesCalls
    PROVE  /\ Aliased(c) \in SUBSET Fields
           /\ LeftFlipped(c) \in SUBSET Fields
           /\ AllKnown => Aliased(c) = c.shares /\ LeftFlipped(c) = {}
<1>1. c \in DesCall /\ (c.empty => c.shares = {})
  BY WorkerAssumption
<1>2. c.shares \in SUBSET Fields
  BY <1>1 DEF DesCall
<1>3. \A f \in c.shares : Leaf(f) \notin Numbers
  BY WorkerAssumption
<1>4. AllKnown => \A f \in c.shares : Snapped(Shape[f])
  BY <1>2, <1>3 DEF AllKnown
<1> QED
  BY <1>1, <1>2, <1>4 DEF Aliased, LeftFlipped

\* A holder keeps its type through a call (suite.go:241-258).
LEMMA HolderType ==
    ASSUME NEW p, NEW c \in SerCalls,
           NEW h \in [mutations : SUBSET Fields, zc : SUBSET Fields]
    PROVE  HolderAfter(p, c, h) \in [mutations : SUBSET Fields, zc : SUBSET Fields]
<1>1. c.mutates \in SUBSET Fields /\ c.shares \in SUBSET Fields
  BY WorkerAssumption DEF SerCall
<1>2. Seen(c.mutates) \in SUBSET Fields /\ OutputProbe(p, c) \in SUBSET Fields
  BY <1>1, ProbesShow DEF OutputProbe
<1> QED
  BY <1>2 DEF HolderAfter

\* What serializeAudit reports is an audit (run.go:83-105).
LEMMA SerializeAuditType ==
    ASSUME TypeOK, NEW c1 \in SerCalls, NEW c2 \in SerCalls
    PROVE  SerializeAudit(c1, c2) \in Audits
<1>1. holder # Nil => HolderAfter(holder, c1, last[holder])
                          \in [mutations : SUBSET Fields, zc : SUBSET Fields]
  BY HolderType DEF TypeOK
<1>2. Unstable(c1, c2) \in BOOLEAN
  BY WorkerAssumption DEF Unstable, SerCall
<1> QED
  BY <1>1, <1>2 DEF SerializeAudit, Audits, NoAudit

\* Responses that come from no function are responses.
LEMMA PlainType ==
    ASSUME NEW op \in Ops, NEW status \in Statuses
    PROVE  Plain(op, status) \in Replies /\ NoTruth \in Truths
  BY DEF Plain, Response, Replies, NoAudit, Audits, Payloads, NoTruth, Truths

\* Every request keeps the variables in their types.
LEMMA TypeStep == TypeOK /\ [Next]_vars => TypeOK'
<1> SUFFICES ASSUME TypeOK, [Next]_vars PROVE TypeOK'
  OBVIOUS
<1> USE DEF TypeOK, Answer, Unbound
<1> USE WorkerAssumption, PlainType
<1>1. CASE Ignore \/ Ping \/ UnknownOp
  BY <1>1 DEF Ignore, Ping, UnknownOp, Ops, Statuses
<1>2. CASE Exit \/ Exited \/ UNCHANGED vars
  BY <1>2 DEF Exit, Exited, vars
<1>3. ASSUME NEW t \in Types \cup {schema}, BindMalformed(t) PROVE TypeOK'
  BY <1>3 DEF BindMalformed, Ops, Statuses
<1>4. ASSUME NEW p \in Pairs, BindSkipped(p) PROVE TypeOK'
  BY <1>4 DEF BindSkipped, Ops, Statuses, Pairs
<1>5. ASSUME NEW p \in Pairs, NEW audit \in BOOLEAN, BindTo(p, audit) PROVE TypeOK'
  BY <1>5 DEF BindTo, Ops, Statuses, Pairs
<1>6. CASE SerializeUnbound \/ DeserializeUnbound
  BY <1>6 DEF SerializeUnbound, DeserializeUnbound, Ops, Statuses
<1>7. ASSUME NEW op \in {"serialize", "deserialize"}, BadPayload(op) PROVE TypeOK'
  BY <1>7 DEF BadPayload, Ops, Statuses
<1>8. ASSUME NEW c1 \in SerCalls, NEW c2 \in SerCalls, Serialize(c1, c2) PROVE TypeOK'
  <2>1. CASE c1.fails
    BY <1>8, <2>1 DEF Serialize, Ops, Statuses
  <2>2. CASE ~c1.fails
    <3>1. ser \in Serializers /\ ser \in Registered
      BY <1>8 DEF Serialize
    <3>2. HolderAfter(ser, c1, last[ser]) \in [mutations : SUBSET Fields, zc : SUBSET Fields]
      BY <3>1, HolderType
    <3>3. HolderAfter(ser, c2, HolderAfter(ser, c1, last[ser]))
              \in [mutations : SUBSET Fields, zc : SUBSET Fields]
      BY <3>2, HolderType
    <3>4. last' \in [Serializers -> [mutations : SUBSET Fields, zc : SUBSET Fields]]
      BY <1>8, <2>2, <3>1, <3>2, <3>3 DEF Serialize
    <3>5. reply' \in Replies
      <4>1. SerializeAudit(c1, c2) \in Audits
        BY SerializeAuditType
      <4>2. {Emitted(c1, c2)} \in Payloads
        BY DEF Emitted, Payloads, SerCall
      <4>3. reply' = Response("serialize", "OK", ser, {Emitted(c1, c2)}, SerializeAudit(c1, c2))
        BY <1>8, <2>2 DEF Serialize
      <4> HIDE DEF TypeOK
      <4> QED
        BY <3>1, <4>1, <4>2, <4>3 DEF Response, Replies, Ops, Statuses
    <3>6. truth' \in Truths
      <4>1. c1.mutates \in SUBSET Fields /\ c1.shares \in SUBSET Fields
            /\ {c1.out} \in Payloads
        BY DEF SerCall, Payloads
      <4>2. /\ Overwritten(c1, c2) \in BOOLEAN /\ c2.fails \in BOOLEAN
            /\ (c2.fails \/ c1.out # c2.out) \in BOOLEAN
        BY DEF Overwritten, SerCall
      <4>3. [mutations |-> c1.mutates, zc |-> IF ser \in Texts THEN {} ELSE c1.shares,
             unstable |-> c2.fails \/ c1.out # c2.out, inputMutated |-> FALSE] \in Audits
        BY <4>1, <4>2 DEF Audits
      <4> DEFINE a == [mutations |-> c1.mutates, zc |-> IF ser \in Texts THEN {} ELSE c1.shares,
                       unstable |-> c2.fails \/ c1.out # c2.out, inputMutated |-> FALSE]
                 r == Overwritten(c1, c2)
      <4>4. truth' = [value |-> {c1.out}, reused |-> r, failed |-> c2.fails, audit |-> a]
        BY <1>8, <2>2 DEF Serialize
      <4>5. a \in Audits /\ r \in BOOLEAN
        BY <4>2, <4>3
      <4> HIDE DEF a, r
      <4> QED
        BY <4>1, <4>2, <4>4, <4>5 DEF Truths
    <3> QED
      BY <1>8, <2>2, <3>4, <3>5, <3>6 DEF Serialize
  <2> QED
    BY <2>1, <2>2
<1>9. ASSUME NEW c \in DesCalls, Deserialize(c) PROVE TypeOK'
  <2>1. CASE c.fails \/ ~c.encodes
    BY <1>9, <2>1 DEF Deserialize, Ops, Statuses
  <2>2. CASE ~(c.fails \/ ~c.encodes)
    <3>1. des \in Registered
      BY <1>9 DEF Deserialize
    <3>2. c.shares \in SUBSET Fields /\ c.mutates \in BOOLEAN
      BY DEF DesCall
    <3>3. DeserializeAudit(c) \in Audits
      BY <3>2, ZeroCopyShows DEF DeserializeAudit, RepeatShows, NoAudit, Audits
    <3>4. reply' \in Replies
      BY <1>9, <2>2, <3>1, <3>3, ZeroCopyShows
         DEF Deserialize, Response, Replies, Payloads, Ops, Statuses
    <3>5. [mutations |-> {}, zc |-> c.shares, unstable |-> c.again # "same",
           inputMutated |-> c.mutates] \in Audits
      BY <3>2 DEF Audits
    <3>6. truth' \in Truths
      <4> DEFINE a == [mutations |-> {}, zc |-> c.shares, unstable |-> c.again # "same",
                       inputMutated |-> c.mutates]
      <4>1. /\ truth' = [value |-> {}, reused |-> FALSE, failed |-> c.again = "fails",
                          audit |-> a]
            /\ a \in Audits
        BY <1>9, <2>2, <3>5 DEF Deserialize
      <4> HIDE DEF a
      <4> QED
        BY <4>1 DEF Truths, Payloads
    <3> QED
      BY <1>9, <2>2, <3>4, <3>6 DEF Deserialize
  <2> QED
    BY <2>1, <2>2
<1> QED
  BY <1>1, <1>2, <1>3, <1>4, <1>5, <1>6, <1>7, <1>8, <1>9 DEF Next

\* Every request keeps the bindings in step with the last bind that was asked
\* for (run.go:182-243).
LEMMA BindingStep == TypeOK /\ BindingInv /\ [Next]_vars => BindingInv'
<1> SUFFICES ASSUME TypeOK, BindingInv, [Next]_vars PROVE BindingInv'
  OBVIOUS
<1> USE DEF BindingInv
<1>1. ASSUME NEW t, BindMalformed(t) PROVE BindingInv'
  BY <1>1 DEF BindMalformed
<1>2. ASSUME NEW p \in Pairs, BindSkipped(p) PROVE BindingInv'
  BY <1>2 DEF BindSkipped
<1>3. ASSUME NEW p \in Pairs, NEW audit \in BOOLEAN, BindTo(p, audit) PROVE BindingInv'
  <2>1. CASE p \in Serializers
    <3>1. ser' = p /\ holder' = p /\ auditEnabled' = audit /\ asked' = p
      BY <1>3, <2>1 DEF BindTo
    <3>2. enabled'[p] = audit
      BY <1>3, <2>1 DEF BindTo, TypeOK
    <3>3. des' = IF p \in Deserializers THEN p ELSE Nil
      BY <1>3 DEF BindTo
    <3> QED
      BY <3>1, <3>2, <3>3
  <2>2. CASE p \notin Serializers
    BY <1>3, <2>2 DEF BindTo
  <2> QED
    BY <2>1, <2>2
<1>4. CASE UNCHANGED <<ser, des, holder, auditEnabled, enabled, asked>>
  BY <1>4
<1> QED
  BY <1>1, <1>2, <1>3, <1>4 DEF Next, Ignore, Ping, UnknownOp, Exit, Exited, SerializeUnbound,
     DeserializeUnbound, BadPayload, Serialize, Deserialize, Unbound, vars

\* The only requests that leave a worked answer are the two that call a function
\* of the Suite; an exit leaves the last answer as it was.
LEMMA OnlyCallsWork ==
    ASSUME [Next]_vars, Worked'
    PROVE  \/ \E c1, c2 \in SerCalls : Serialize(c1, c2) /\ ~c1.fails
           \/ \E c \in DesCalls : Deserialize(c) /\ ~c.fails /\ c.encodes
           \/ UNCHANGED <<reply, truth, asked, auditEnabled>>
<1> USE DEF Worked, Answer, Plain, Response
<1>1. CASE Exit \/ Exited \/ UNCHANGED vars
  BY <1>1 DEF Exit, Exited, Unbound, vars
<1>2. CASE Ignore \/ Ping \/ UnknownOp \/ SerializeUnbound \/ DeserializeUnbound
  BY <1>2 DEF Ignore, Ping, UnknownOp, SerializeUnbound, DeserializeUnbound
<1>3. ASSUME NEW t, BindMalformed(t) PROVE FALSE
  BY <1>3 DEF BindMalformed
<1>4. ASSUME NEW p, BindSkipped(p) PROVE FALSE
  BY <1>4 DEF BindSkipped
<1>5. ASSUME NEW p, NEW audit, BindTo(p, audit) PROVE FALSE
  BY <1>5 DEF BindTo
<1>6. ASSUME NEW op, BadPayload(op) PROVE FALSE
  BY <1>6 DEF BadPayload
<1>7. ASSUME NEW c1, NEW c2, Serialize(c1, c2) PROVE ~c1.fails
  BY <1>7 DEF Serialize
<1>8. ASSUME NEW c, Deserialize(c) PROVE ~c.fails /\ c.encodes
  BY <1>8 DEF Deserialize
<1> QED
  BY <1>1, <1>2, <1>3, <1>4, <1>5, <1>6, <1>7, <1>8 DEF Next

\* A function that answers is bound, and what is bound was asked for.
LEMMA AskedStep ==
    TypeOK /\ BindingInv /\ RunsWhatWasAsked /\ [Next]_vars => RunsWhatWasAsked'
<1> SUFFICES ASSUME TypeOK, BindingInv, RunsWhatWasAsked, [Next]_vars, Worked'
             PROVE  reply'.ran = asked'
  BY DEF RunsWhatWasAsked
<1>1. ASSUME NEW c1 \in SerCalls, NEW c2 \in SerCalls, Serialize(c1, c2), ~c1.fails
      PROVE  reply'.ran = asked'
  BY <1>1 DEF Serialize, Answer, Response, BindingInv, Unbound
<1>2. ASSUME NEW c \in DesCalls, Deserialize(c), ~c.fails, c.encodes
      PROVE  reply'.ran = asked'
  BY <1>2 DEF Deserialize, Answer, Response, BindingInv, Unbound
<1>3. CASE UNCHANGED <<reply, truth, asked, auditEnabled>>
  BY <1>3 DEF RunsWhatWasAsked, Worked
<1> QED
  BY <1>1, <1>2, <1>3, OnlyCallsWork

\* With every shape known, an audit reports what the functions did in this
\* request, and only the user's own reuse of a buffer changes an answer.
LEMMA AuditStep ==
    ASSUME AllKnown
    PROVE  TypeOK /\ BindingInv /\ AuditTruthful /\ AuditHarmless /\ [Next]_vars
               => AuditTruthful' /\ AuditHarmless'
<1> SUFFICES ASSUME TypeOK, BindingInv, AuditTruthful, AuditHarmless, [Next]_vars, Worked'
             PROVE  AuditTruthful' /\ AuditHarmless'
  BY DEF AuditTruthful, AuditHarmless
<1>1. ASSUME NEW c1 \in SerCalls, NEW c2 \in SerCalls, Serialize(c1, c2), ~c1.fails
      PROVE  AuditTruthful' /\ AuditHarmless'
  <2> DEFINE zc == IF ser \in Texts THEN {} ELSE c1.shares
             unst == c2.fails \/ c1.out # c2.out
             r == Overwritten(c1, c2)
  <2>1. /\ reply'.audit = SerializeAudit(c1, c2) /\ reply'.value = {Emitted(c1, c2)}
        /\ truth'.value = {c1.out} /\ (truth'.reused <=> r) /\ (truth'.failed <=> c2.fails)
        /\ truth'.audit.mutations = c1.mutates /\ truth'.audit.zc = zc
        /\ (truth'.audit.unstable <=> unst) /\ truth'.audit.inputMutated = FALSE
        /\ auditEnabled' = auditEnabled
    <3> DEFINE a == [mutations |-> c1.mutates, zc |-> zc, unstable |-> unst,
                     inputMutated |-> FALSE]
    <3>1. /\ reply' = Response("serialize", "OK", ser, {Emitted(c1, c2)}, SerializeAudit(c1, c2))
          /\ truth' = [value |-> {c1.out}, reused |-> r, failed |-> c2.fails, audit |-> a]
          /\ auditEnabled' = auditEnabled
      BY <1>1 DEF Serialize, Answer, Unbound
    <3>2. /\ a.mutations = c1.mutates /\ a.zc = zc
          /\ (a.unstable <=> unst) /\ a.inputMutated = FALSE
      OBVIOUS
    <3>3. reply'.audit = SerializeAudit(c1, c2) /\ reply'.value = {Emitted(c1, c2)}
      BY <3>1 DEF Response
    <3> HIDE DEF a, zc, unst, r
    <3>4. /\ truth'.value = {c1.out} /\ (truth'.reused <=> r) /\ (truth'.failed <=> c2.fails)
          /\ truth'.audit = a
      BY <3>1
    <3> QED
      BY <3>1, <3>2, <3>3, <3>4
  <2>2. ser \in Serializers /\ holder = ser /\ holder # Nil /\ enabled[ser] = auditEnabled
    BY <1>1 DEF Serialize, TypeOK, BindingInv
  <2>3. /\ c1.mutates \in SUBSET Fields /\ c1.shares \in SUBSET Fields
        /\ c1.out = "empty" => c1.shares = {}
    BY WorkerAssumption DEF SerCall
  <2>4. Seen(c1.mutates) = c1.mutates /\ OutputProbe(ser, c1) = zc
    BY <2>3, ProbesShow DEF OutputProbe
  <2>5. AuditHarmless'
    BY <2>1 DEF AuditHarmless, Emitted
  <2>6. CASE ~auditEnabled
    BY <2>1, <2>5, <2>6 DEF AuditTruthful, SerializeAudit
  <2>7. CASE auditEnabled
    <3>1. HolderAfter(holder, c1, last[holder]) = [mutations |-> c1.mutates, zc |-> zc]
      BY <1>1, <2>2, <2>4, <2>7 DEF HolderAfter
    <3>2. Unstable(c1, c2) <=> IF r THEN c2.fails ELSE unst
      BY <2>7 DEF Unstable, Emitted
    <3>3. /\ SerializeAudit(c1, c2).mutations = c1.mutates
          /\ SerializeAudit(c1, c2).zc = zc
          /\ SerializeAudit(c1, c2).inputMutated = FALSE
          /\ SerializeAudit(c1, c2).unstable <=> Unstable(c1, c2)
      BY <2>2, <2>7, <3>1 DEF SerializeAudit
    <3> HIDE DEF zc, unst, r
    <3> QED
      BY <2>1, <2>5, <2>7, <3>2, <3>3 DEF AuditTruthful
  <2> QED
    BY <2>6, <2>7, <2>5
<1>2. ASSUME NEW c \in DesCalls, Deserialize(c), ~c.fails, c.encodes
      PROVE  AuditTruthful' /\ AuditHarmless'
  <2>1. /\ reply'.audit = DeserializeAudit(c)
        /\ reply'.value = IF auditEnabled THEN LeftFlipped(c) ELSE {}
        /\ truth'.value = {} /\ truth'.reused = FALSE
        /\ truth'.audit.mutations = {} /\ truth'.audit.zc = c.shares
        /\ (truth'.audit.unstable <=> c.again # "same")
        /\ truth'.audit.inputMutated = c.mutates
        /\ auditEnabled' = auditEnabled
    <3> DEFINE a == [mutations |-> {}, zc |-> c.shares, unstable |-> c.again # "same",
                     inputMutated |-> c.mutates]
               v == IF auditEnabled THEN LeftFlipped(c) ELSE {}
    <3>1. /\ reply' = Response("deserialize", "OK", des, v, DeserializeAudit(c))
          /\ truth' = [value |-> {}, reused |-> FALSE, failed |-> c.again = "fails", audit |-> a]
          /\ auditEnabled' = auditEnabled
      BY <1>2 DEF Deserialize, Answer, Unbound
    <3>2. /\ a.mutations = {} /\ a.zc = c.shares
          /\ (a.unstable <=> c.again # "same") /\ a.inputMutated = c.mutates
      OBVIOUS
    <3> HIDE DEF a
    <3>3. reply'.audit = DeserializeAudit(c) /\ reply'.value = v
      BY <3>1 DEF Response
    <3>4. truth'.value = {} /\ truth'.reused = FALSE /\ truth'.audit = a
      BY <3>1
    <3> QED
      BY <3>1, <3>2, <3>3, <3>4
  <2>2. Aliased(c) = c.shares /\ LeftFlipped(c) = {}
    BY ZeroCopyShows
  <2>3. c.again = "fails" \/ RepeatShows(c) <=> c.again # "same"
    BY WorkerAssumption DEF RepeatShows, AllKnown, DesCall
  <2> QED
    BY <2>1, <2>2, <2>3 DEF AuditTruthful, AuditHarmless, DeserializeAudit
<1>3. CASE UNCHANGED <<reply, truth, asked, auditEnabled>>
  BY <1>3 DEF AuditTruthful, AuditHarmless, Worked
<1> QED
  BY <1>1, <1>2, <1>3, OnlyCallsWork

-----------------------------------------------------------------------------
\* Before the first request nothing is bound and nothing has answered.
LEMMA InitInv ==
    Init => TypeOK /\ BindingInv /\ RunsWhatWasAsked /\ AuditTruthful /\ AuditHarmless
<1> SUFFICES ASSUME Init
             PROVE TypeOK /\ BindingInv /\ RunsWhatWasAsked /\ AuditTruthful /\ AuditHarmless
  OBVIOUS
<1>1. TypeOK
  BY PlainType DEF Init, TypeOK, Ops, Statuses
<1>2. BindingInv
  BY DEF Init, BindingInv
<1>3. ~Worked
  BY DEF Init, Worked, Plain, Response
<1> QED
  BY <1>1, <1>2, <1>3 DEF RunsWhatWasAsked, AuditTruthful, AuditHarmless

\* The request loop keeps its variables in their types for every Suite.
THEOREM TypeCorrect == Spec => []TypeOK
<1> QED
  BY InitInv, TypeStep, PTL DEF Spec

\* What is bound is always what the last well-formed bind asked for, with the
\* audit holder that belongs to it (run.go:182-243).
THEOREM BindingCorrect == Spec => []BindingInv
<1> QED
  BY InitInv, TypeStep, BindingStep, PTL DEF Spec

\* No serialize or deserialize is ever answered OK by a pair other than the one
\* the runner asked for last (run.go:179-181).
THEOREM AskedCorrect == Spec => []RunsWhatWasAsked
<1> QED
  BY InitInv, TypeStep, BindingStep, AskedStep, PTL DEF Spec

\* When every field is held in a shape cloneValue and collectFieldSnaps look into,
\* and every NaN in one valuesEqual compares by its bits, audit findings are exact and auditing leaves the answers alone
\* (auditcheck.go:215-243).
THEOREM AuditCorrect == ASSUME AllKnown PROVE Spec => [](AuditTruthful /\ AuditHarmless)
<1> QED
  BY InitInv, TypeStep, BindingStep, AuditStep, PTL DEF Spec

-----------------------------------------------------------------------------
(* The library implements BoundWorker. *)

\* Which directions the selected pair has, by the functions that are bound.
LEMMA SelectedCan ==
    ASSUME TypeOK, BindingInv, NEW sel, sel = IF ser # Nil THEN ser ELSE des, sel # Nil
    PROVE  /\ sel \in Serializers <=> ser # Nil
           /\ sel \in Deserializers <=> des # Nil
  BY DEF TypeOK, BindingInv

\* A request that leaves the bindings alone and is answered without a function.
LEMMA PlainStep ==
    ASSUME NEW op, NEW status, Answer(Plain(op, status), NoTruth), UNCHANGED <<ser, des>>
    PROVE  /\ UNCHANGED (IF ser # Nil THEN ser ELSE des)
           /\ [op |-> reply.op, status |-> reply.status, ran |-> reply.ran]'
                  = [op |-> op, status |-> status, ran |-> Nil]
  BY DEF Answer, Plain, Response

\* Every request is a step of the contract, or changes nothing in it.
LEMMA ContractStep ==
    ASSUME TypeOK, BindingInv, [Next]_vars
    PROVE  [Contract!Next]_(Contract!vars)
<1> USE DEF Contract!Next, Contract!Answer
<1>1. CASE Ignore \/ Ping \/ UnknownOp
  BY <1>1, PlainStep DEF Ignore, Ping, UnknownOp, Contract!Other
<1>2. CASE Exit \/ Exited \/ UNCHANGED vars
  BY <1>2 DEF Exit, Exited, vars, Contract!vars
<1>3. ASSUME NEW t, BindMalformed(t) PROVE Contract!Refuse
  BY <1>3, PlainStep DEF BindMalformed, Contract!Refuse
<1>4. ASSUME NEW p, BindSkipped(p) PROVE Contract!Clear
  BY <1>4 DEF BindSkipped, Answer, Plain, Response, Contract!Clear
<1>5. ASSUME NEW p \in Pairs, NEW audit, BindTo(p, audit) PROVE Contract!Select(p)
  <2>1. ser' = (IF p \in Serializers THEN p ELSE Nil) /\ des' = IF p \in Deserializers THEN p ELSE Nil
    BY <1>5 DEF BindTo
  <2>2. reply' = Plain("bind", "OK")
    BY <1>5 DEF BindTo, Answer
  <2>3. Contract!Supported(p) <=> p \in Serializers \cup Deserializers
    BY DEF Contract!Supported
  <2> QED
    BY <2>1, <2>2, <2>3 DEF Contract!Select, Plain, Response
<1>6. CASE SerializeUnbound
  <2>1. CASE des = Nil
    BY <1>6, <2>1, PlainStep DEF SerializeUnbound, Contract!Idle
  <2>2. CASE des # Nil
    <3>1. des \notin Serializers
      BY <1>6, <2>2, SelectedCan DEF SerializeUnbound
    <3>2. Contract!Skip("serialize")
      BY <1>6, <2>2, <3>1, PlainStep DEF SerializeUnbound, Contract!Skip
    <3> QED
      BY <3>2
  <2> QED
    BY <2>1, <2>2
<1>7. CASE DeserializeUnbound
  <2>1. CASE ser = Nil
    BY <1>7, <2>1, PlainStep DEF DeserializeUnbound, Contract!Idle
  <2>2. CASE ser # Nil
    <3>1. ser \notin Deserializers
      BY <1>7, <2>2, SelectedCan DEF DeserializeUnbound
    <3>2. Contract!Skip("deserialize")
      BY <1>7, <2>2, <3>1, PlainStep DEF DeserializeUnbound, Contract!Skip
    <3> QED
      BY <3>2
  <2> QED
    BY <2>1, <2>2
<1>8. ASSUME NEW op \in {"serialize", "deserialize"}, BadPayload(op) PROVE Contract!Work(op)
  <2>1. CASE op = "serialize"
    BY <1>8, <2>1, PlainStep, SelectedCan DEF BadPayload, Contract!Work
  <2>2. CASE op = "deserialize"
    BY <1>8, <2>2, PlainStep, SelectedCan DEF BadPayload, Contract!Work
  <2> QED
    BY <2>1, <2>2
<1>9. ASSUME NEW c1, NEW c2, Serialize(c1, c2) PROVE Contract!Work("serialize")
  <2>1. ser # Nil /\ ser \in Serializers /\ UNCHANGED <<ser, des>>
    BY <1>9, SelectedCan DEF Serialize
  <2>2. CASE c1.fails
    BY <1>9, <2>1, <2>2, PlainStep DEF Serialize, Contract!Work
  <2>3. CASE ~c1.fails
    <3>1. reply'.op = "serialize" /\ reply'.status = "OK" /\ reply'.ran = ser
      BY <1>9, <2>3 DEF Serialize, Answer, Response
    <3> QED
      BY <2>1, <3>1 DEF Contract!Work
  <2> QED
    BY <2>2, <2>3
<1>10. ASSUME NEW c, Deserialize(c) PROVE Contract!Work("deserialize")
  <2> SUFFICES ASSUME NEW sel, sel = IF ser # Nil THEN ser ELSE des PROVE Contract!Work("deserialize")
    OBVIOUS
  <2>1. sel = des /\ des # Nil /\ sel \in Deserializers /\ UNCHANGED <<ser, des>>
    BY <1>10, SelectedCan DEF Deserialize, BindingInv
  <2>2. CASE c.fails \/ ~c.encodes
    BY <1>10, <2>1, <2>2, PlainStep DEF Deserialize, Contract!Work
  <2>3. CASE ~c.fails /\ c.encodes
    <3>1. reply'.op = "deserialize" /\ reply'.status = "OK" /\ reply'.ran = des
      BY <1>10, <2>3 DEF Deserialize, Answer, Response
    <3> QED
      BY <2>1, <3>1 DEF Contract!Work
  <2> QED
    BY <2>2, <2>3
<1> QED
  BY <1>1, <1>2, <1>3, <1>4, <1>5, <1>6, <1>7, <1>8, <1>9, <1>10 DEF Next

\* The library is a worker as the runner expects one: a request is carried out by
\* the pair the last accepted bind selected, skipped when that pair does not have
\* the direction, and refused when nothing is selected, for every Suite and every
\* sequence of requests (run.go:178-243, docs/protocol.md:259, 501).
THEOREM ContractCorrect == Spec => ImplementsBoundWorker
<1>1. Init => Contract!Init
  BY DEF Init, Plain, Response, Contract!Init
<1> QED
  BY <1>1, InitInv, TypeStep, BindingStep, ContractStep, PTL
     DEF Spec, ImplementsBoundWorker, Contract!Spec
=============================================================================
