------------------------------- MODULE GoWorker -------------------------------
(***************************************************************************)
(* The worker library for Go: the request loop of lib/go/serify/run.go, the *)
(* audit wrappers of suite.go around a user's serializer and deserializer,  *)
(* and the aliasing probes of auditcheck.go.  One action per request; the   *)
(* user's functions are nondeterministic.                                   *)
(***************************************************************************)
EXTENDS Naturals, Sequences

CONSTANTS
    Types, Formats,     \* the names a bind may carry
    Registered,         \* the <<type, format>> pairs of the Suite ...
    Serializers,        \* ... those that have a serializer ...
    Deserializers,      \* ... and those that have a deserializer
    Texts,              \* pairs whose serializer returns a string
    Fields,             \* the fields of a FieldMap
    Shape,              \* Fields -> the Go shape its value is held in
    NaNs,               \* fields whose number is a NaN
    SerCalls, DesCalls  \* what one call of a user's function may do

\* A value is held under constructors: []any, *FieldMap, []*FieldMap,
\* map[string]any or *Variant around a []byte, string, []string, [][]byte, number
\* or []float64.  A shape is the path from the field to the leaf.
Wrappers == {"any", "struct", "structs", "map", "variant"}
Numbers == {"number", "numbers"}
Leaves == {"bytes", "string", "strings", "blobs"} \cup Numbers
IsShape(p) == /\ p # <<>>
              /\ \A n \in DOMAIN p : p[n] \in IF n = Len(p) THEN Leaves ELSE Wrappers
Leaf(f) == Shape[f][Len(Shape[f])]

\* One call of a serializer: it may fail, change fields in place, and return
\* memory it shares with fields.  Outputs x and y have one length.  reuses: it
\* writes its output over that of the call before, also when it fails afterwards.
SerCall == [fails : BOOLEAN, out : {"x", "y", "empty"}, mutates : SUBSET Fields,
            shares : SUBSET Fields, reuses : BOOLEAN]

\* One call of a deserializer on a non-empty or empty buffer, what a repeat of it
\* does, and whether EncodeFieldMap takes the result.
DesCall == [fails : BOOLEAN, empty : BOOLEAN, mutates : BOOLEAN, shares : SUBSET Fields,
            again : {"same", "differs", "fails"}, encodes : BOOLEAN]

Pairs == Types \X Formats
Nil == <<>>

ASSUME WorkerAssumption ==
    /\ Registered \subseteq Pairs
    /\ Serializers \subseteq Registered /\ Deserializers \subseteq Registered
    /\ Texts \subseteq Serializers
    /\ \A f \in Fields : IsShape(Shape[f])
    /\ NaNs \subseteq {f \in Fields : Leaf(f) \in Numbers}
    /\ SerCalls \subseteq SerCall /\ DesCalls \subseteq DesCall
    \* Numbers are copied out of a buffer.
    /\ \A c \in SerCalls \cup DesCalls : \A f \in c.shares : Leaf(f) \notin Numbers
    \* Zero bytes of memory alias nothing.
    /\ \A c \in SerCalls : c.out = "empty" => c.shares = {}
    /\ \A c \in DesCalls : c.empty => c.shares = {} /\ ~c.mutates

VARIABLES
    ser, des,       \* currentSerialize, currentDeserialize: the pair, or Nil
    schema,         \* the type whose schema decodes and encodes data
    auditEnabled,
    holder,         \* currentSerHolder: the pair that owns it, or Nil
    enabled,        \* per serializer, its holder: Enabled ...
    last,           \* ... and LastMutations, LastOutputZC
    running,
    reply,          \* the response to the last request
    asked,          \* history: the last bind that named a type and a format
    truth           \* history: what the functions really did in the last request

vars == <<ser, des, schema, auditEnabled, holder, enabled, last, running, reply, asked, truth>>

\* A response.  ran is the pair whose function produced it; value is the output
\* of a serializer, or the fields whose data is not what was decoded.
NoAudit == [mutations |-> {}, zc |-> {}, unstable |-> FALSE, inputMutated |-> FALSE]
Response(op, status, ran, value, audit) ==
    [op |-> op, status |-> status, ran |-> ran, value |-> value, audit |-> audit]
Plain(op, status) == Response(op, status, Nil, {}, NoAudit)
NoTruth == [value |-> {}, reused |-> FALSE, failed |-> FALSE, audit |-> NoAudit]

-----------------------------------------------------------------------------
(* The probes of auditcheck.go. *)

\* cloneValue: is the leaf of this shape copied, or still shared with the value
\* it was cloned from?
Cloned(p) ==
    LET c[n \in DOMAIN p] ==
            IF p[n] \in Wrappers THEN c[n + 1] ELSE p[n] \notin {"blobs", "numbers"}
    IN c[1]

\* Mutant of ByBits: floats are compared as reflect.DeepEqual compares them.
ByBitsNowhere(p) == \A n \in DOMAIN p : p[n] \notin Numbers

\* valuesEqual: does it walk down to the leaf and compare floats by their bits?
\* What it leaves to reflect.DeepEqual finds a NaN unequal to itself.
ByBits(p) == \A n \in DOMAIN p : p[n] \notin {"any", "variant", "numbers"}
Noisy == {f \in NaNs : ~ByBits(Shape[f])}

\* Mutant of Snapped: the payload of a variant is passed over.
SnappedNoVariant(p) ==
    LET s[n \in DOMAIN p] ==
            CASE p[n] \in {"bytes", "string", "strings"} -> TRUE
              [] p[n] \in {"struct", "structs"} -> s[n + 1]
              [] p[n] \in {"any", "map"} ->
                    p[n + 1] \in {"bytes", "string"} \/ (p[n + 1] = "struct" /\ s[n + 1])
              [] OTHER -> FALSE
    IN s[1]

\* collectFieldSnaps: is there a snapshot that covers the leaf of this shape?
Snapped(p) ==
    LET s[n \in DOMAIN p] ==
            CASE p[n] \in {"bytes", "string", "strings"} -> TRUE
              [] p[n] \in {"struct", "structs"} -> s[n + 1]
              [] p[n] \in {"any", "map", "variant"} ->
                    p[n + 1] \in {"bytes", "string"} \/ (p[n + 1] = "struct" /\ s[n + 1])
              [] OTHER -> FALSE
    IN s[1]

\* compareFieldMaps after a probe changed fs: what differs from the clone.  A
\* slice the clone shares is equal to itself.
Seen(fs) == {f \in fs \cup Noisy : Cloned(Shape[f])}

\* detectZeroCopy flips the buffer: a field that shares it changes, is reported
\* and restored if it has a snapshot, and stays flipped if it has none.
Aliased(c) == IF c.empty THEN {} ELSE {f \in c.shares : Snapped(Shape[f])}
LeftFlipped(c) == IF c.empty THEN {} ELSE {f \in c.shares : ~Snapped(Shape[f])}

-----------------------------------------------------------------------------
Init ==
    /\ ser = Nil /\ des = Nil /\ schema = "none"
    /\ auditEnabled = FALSE /\ holder = Nil
    /\ enabled = [p \in Serializers |-> FALSE]
    /\ last = [p \in Serializers |-> [mutations |-> {}, zc |-> {}]]
    /\ running = TRUE
    /\ reply = Plain("none", "none")
    /\ asked = Nil
    /\ truth = NoTruth

Answer(r, t) == running /\ running' = TRUE /\ reply' = r /\ truth' = t
Unbound == <<schema, auditEnabled, enabled, asked>>

\* An empty line, or one that is not JSON, gets no answer.
Ignore ==
    /\ Answer(Plain("none", "none"), NoTruth)
    /\ UNCHANGED <<ser, des, holder, Unbound, last>>

\* Ping and unknown ops change nothing that is bound.
Ping ==
    /\ Answer(Plain("ping", "OK"), NoTruth)
    /\ UNCHANGED <<ser, des, holder, Unbound, last>>

UnknownOp ==
    /\ Answer(Plain("other", "ERROR"), NoTruth)
    /\ UNCHANGED <<ser, des, holder, Unbound, last>>

\* A bind that does not parse is refused and changes nothing; one without a type,
\* or with a known type and no format, is refused with its schema already taken.
\* Either way the old functions stay bound.
BindMalformed(t) ==
    /\ Answer(Plain("bind", "ERROR"), NoTruth)
    /\ schema' = t
    /\ UNCHANGED <<ser, des, auditEnabled, holder, enabled, last, asked>>

\* Mutant of BindSkipped: the old functions stay bound.
BindSkippedKeeps(p) ==
    /\ p \notin Registered
    /\ Answer(Plain("bind", "SKIPPED"), NoTruth)
    /\ schema' = p[1] /\ asked' = p
    /\ UNCHANGED <<ser, des, holder, auditEnabled, enabled, last>>

\* emitSkip: a pair that is not registered clears the bindings.
BindSkipped(p) ==
    /\ p \notin Registered
    /\ Answer(Plain("bind", "SKIPPED"), NoTruth)
    /\ schema' = p[1] /\ asked' = p
    /\ ser' = Nil /\ des' = Nil /\ holder' = Nil
    /\ UNCHANGED <<auditEnabled, enabled, last>>

\* Mutant of BindTo: the holder of the pair is not switched.
BindToKeepsHolder(p, audit) ==
    /\ p \in Registered
    /\ Answer(Plain("bind", "OK"), NoTruth)
    /\ schema' = p[1] /\ asked' = p
    /\ ser' = IF p \in Serializers THEN p ELSE Nil
    /\ des' = IF p \in Deserializers THEN p ELSE Nil
    /\ auditEnabled' = audit
    /\ UNCHANGED <<holder, enabled, last>>

\* Mutant of BindTo: a direction the pair does not have is bound all the same.
BindToBothWays(p, audit) ==
    /\ p \in Registered
    /\ Answer(Plain("bind", "OK"), NoTruth)
    /\ schema' = p[1] /\ asked' = p
    /\ ser' = IF p \in Serializers THEN p ELSE Nil
    /\ des' = p
    /\ auditEnabled' = audit
    /\ holder' = IF p \in Serializers THEN p ELSE Nil
    /\ enabled' = IF p \in Serializers THEN [enabled EXCEPT ![p] = audit] ELSE enabled
    /\ UNCHANGED last

\* Mutant of BindTo: a direction the pair does not have is left as it was.
BindToKeepsStale(p, audit) ==
    /\ p \in Registered
    /\ Answer(Plain("bind", "OK"), NoTruth)
    /\ schema' = p[1] /\ asked' = p
    /\ ser' = IF p \in Serializers THEN p ELSE ser
    /\ des' = IF p \in Deserializers THEN p ELSE des
    /\ auditEnabled' = audit
    /\ holder' = IF p \in Serializers THEN p ELSE Nil
    /\ enabled' = IF p \in Serializers THEN [enabled EXCEPT ![p] = audit] ELSE enabled
    /\ UNCHANGED last

\* A registered pair is bound in the directions it has, with its audit holder.
BindTo(p, audit) ==
    /\ p \in Registered
    /\ Answer(Plain("bind", "OK"), NoTruth)
    /\ schema' = p[1] /\ asked' = p
    /\ ser' = IF p \in Serializers THEN p ELSE Nil
    /\ des' = IF p \in Deserializers THEN p ELSE Nil
    /\ auditEnabled' = audit
    /\ holder' = IF p \in Serializers THEN p ELSE Nil
    /\ enabled' = IF p \in Serializers THEN [enabled EXCEPT ![p] = audit] ELSE enabled
    /\ UNCHANGED last

\* A direction that is not registered is skipped; with neither bound, an error.
SerializeUnbound ==
    /\ ser = Nil
    /\ Answer(Plain("serialize", IF des # Nil THEN "SKIPPED" ELSE "ERROR"), NoTruth)
    /\ UNCHANGED <<ser, des, holder, Unbound, last>>

DeserializeUnbound ==
    /\ des = Nil
    /\ Answer(Plain("deserialize", IF ser # Nil THEN "SKIPPED" ELSE "ERROR"), NoTruth)
    /\ UNCHANGED <<ser, des, holder, Unbound, last>>

\* Data that does not decode under the schema, or a hex string that is not hex.
BadPayload(op) ==
    /\ IF op = "serialize" THEN ser # Nil ELSE des # Nil
    /\ Answer(Plain(op, "ERROR"), NoTruth)
    /\ UNCHANGED <<ser, des, holder, Unbound, last>>

\* The wrapper of buildSerializer looks for output aliasing only in bytes.
OutputProbe(p, c) == IF p \in Texts \/ c.out = "empty" THEN {} ELSE Seen(c.shares)

\* The holder of p after a call: a failed call leaves it alone.
HolderAfter(p, c, h) ==
    IF c.fails \/ ~enabled[p] THEN h
    ELSE [mutations |-> Seen(c.mutates), zc |-> OutputProbe(p, c)]

\* The bytes of the first call, read after the second, which may write over them.
Overwritten(c1, c2) == auditEnabled /\ c2.reuses /\ c1.out # "empty" /\ c2.out # "empty"
Emitted(c1, c2) == IF Overwritten(c1, c2) THEN c2.out ELSE c1.out

Unstable(c1, c2) == c2.fails \/ Emitted(c1, c2) # c2.out

\* Mutant of SerializeAudit: the holder is read after the repeat.
SerializeAuditLate(c1, c2) ==
    LET h == IF holder = Nil THEN [mutations |-> {}, zc |-> {}]
             ELSE HolderAfter(holder, c2, HolderAfter(holder, c1, last[holder])) IN
    IF ~auditEnabled THEN NoAudit
    ELSE [mutations |-> h.mutations, zc |-> h.zc, unstable |-> Unstable(c1, c2),
          inputMutated |-> FALSE]

\* serializeAudit: what the holder recorded in the first call, and the repeat.
SerializeAudit(c1, c2) ==
    LET h == IF holder = Nil THEN [mutations |-> {}, zc |-> {}]
             ELSE HolderAfter(holder, c1, last[holder]) IN
    IF ~auditEnabled THEN NoAudit
    ELSE [mutations |-> h.mutations, zc |-> h.zc, unstable |-> Unstable(c1, c2),
          inputMutated |-> FALSE]

\* The serializer is called, and under audit called again.
Serialize(c1, c2) ==
    /\ ser # Nil
    /\ \/ /\ c1.fails
          /\ Answer(Plain("serialize", "ERROR"), NoTruth)
          /\ UNCHANGED last
       \/ /\ ~c1.fails
          /\ Answer(Response("serialize", "OK", ser, {Emitted(c1, c2)}, SerializeAudit(c1, c2)),
                    [value |-> {c1.out}, reused |-> Overwritten(c1, c2), failed |-> c2.fails,
                     audit |-> [mutations |-> c1.mutates,
                                zc |-> IF ser \in Texts THEN {} ELSE c1.shares,
                                unstable |-> c2.fails \/ c1.out # c2.out,
                                inputMutated |-> FALSE]])
          /\ LET h == HolderAfter(ser, c1, last[ser]) IN
             last' = [last EXCEPT ![ser] = IF auditEnabled THEN HolderAfter(ser, c2, h) ELSE h]
    /\ UNCHANGED <<ser, des, holder, Unbound>>

\* compareFieldMaps on the results of two calls: a NaN may differ from itself.
RepeatShows(c) == c.again = "differs" \/ Noisy # {}

\* deserializeAudit: the mutation check, the repeat, and the probe last.
DeserializeAudit(c) ==
    IF ~auditEnabled THEN NoAudit
    ELSE [mutations |-> {}, zc |-> Aliased(c), unstable |-> c.again = "fails" \/ RepeatShows(c),
          inputMutated |-> c.mutates]

\* The deserializer is called, audited, and its fields are encoded.
Deserialize(c) ==
    /\ des # Nil
    /\ \/ /\ c.fails \/ ~c.encodes
          /\ Answer(Plain("deserialize", "ERROR"), NoTruth)
       \/ /\ ~c.fails /\ c.encodes
          /\ Answer(Response("deserialize", "OK", des,
                             IF auditEnabled THEN LeftFlipped(c) ELSE {}, DeserializeAudit(c)),
                    [value |-> {}, reused |-> FALSE, failed |-> c.again = "fails",
                     audit |-> [mutations |-> {}, zc |-> c.shares, unstable |-> c.again # "same",
                                inputMutated |-> c.mutates]])
    /\ UNCHANGED <<ser, des, holder, Unbound, last>>

\* The exit request, or the end of stdin.
Exit ==
    /\ running
    /\ running' = FALSE
    /\ UNCHANGED <<ser, des, holder, Unbound, last, reply, truth>>

Exited == ~running /\ UNCHANGED vars

Next ==
    \/ Ignore \/ Ping \/ UnknownOp \/ Exit \/ Exited
    \/ \E t \in Types \cup {schema} : BindMalformed(t)
    \/ \E p \in Pairs : BindSkipped(p) \/ \E audit \in BOOLEAN : BindTo(p, audit)
    \/ SerializeUnbound \/ DeserializeUnbound
    \/ \E op \in {"serialize", "deserialize"} : BadPayload(op)
    \/ \E c1, c2 \in SerCalls : Serialize(c1, c2)
    \/ \E c \in DesCalls : Deserialize(c)

Spec == Init /\ [][Next]_vars

-----------------------------------------------------------------------------
(* Properties. *)

Audits == [mutations : SUBSET Fields, zc : SUBSET Fields, unstable : BOOLEAN,
           inputMutated : BOOLEAN]
Payloads == SUBSET (Fields \cup {"x", "y", "empty"})

Ops == {"none", "ping", "other", "bind", "serialize", "deserialize"}
Statuses == {"none", "OK", "SKIPPED", "ERROR"}
Replies == [op : Ops, status : Statuses, ran : Registered \cup {Nil}, value : Payloads,
            audit : Audits]
Truths == [value : Payloads, reused : BOOLEAN, failed : BOOLEAN, audit : Audits]

\* The variables of the request loop keep their types (run.go:157-161).
TypeOK ==
    /\ ser \in Serializers \cup {Nil}
    /\ des \in Deserializers \cup {Nil}
    /\ holder \in Serializers \cup {Nil}
    /\ schema \in Types \cup {"none"}
    /\ auditEnabled \in BOOLEAN /\ running \in BOOLEAN
    /\ enabled \in [Serializers -> BOOLEAN]
    /\ last \in [Serializers -> [mutations : SUBSET Fields, zc : SUBSET Fields]]
    /\ reply \in Replies
    /\ asked \in Pairs \cup {Nil}
    /\ truth \in Truths

\* Every field is held in a shape the probes look into, and a NaN in one that is
\* compared by its bits.
AllKnown ==
    /\ \A f \in Fields : Cloned(Shape[f]) /\ (Leaf(f) \notin Numbers => Snapped(Shape[f]))
    /\ Noisy = {}

\* The last request was carried out by a function of the Suite.
Worked == reply.status = "OK" /\ reply.op \in {"serialize", "deserialize"}

\* An OK answer comes from the pair the runner asked for last: after a SKIPPED
\* bind nothing runs against the previous type (run.go:179-181).
RunsWhatWasAsked == Worked => reply.ran = asked

\* Audit findings are about the request they are attached to: never left over in
\* a holder from an earlier request, another pair or the repeat call
\* (run.go:91, suite.go:245-258), and no NaN is taken for a change
\* (auditcheck.go:155-157).  A serializer that writes over the output of its last
\* call is compared with itself, so it is reported only when the repeat fails.
AuditTruthful ==
    Worked =>
        IF ~auditEnabled THEN reply.audit = NoAudit
        ELSE /\ reply.audit.mutations = truth.audit.mutations
             /\ reply.audit.zc = truth.audit.zc
             /\ reply.audit.inputMutated = truth.audit.inputMutated
             /\ reply.audit.unstable <=>
                   IF truth.reused THEN truth.failed ELSE truth.audit.unstable

\* Auditing does not change the answer: the probes restore what they flipped
\* (auditcheck.go:215-218, docs/protocol.md:294), unless the serializer itself
\* overwrote its first output in the repeat call.
AuditHarmless == Worked => reply.value = truth.value \/ truth.reused

\* What the runner relies on: requests are carried out by the pair the last bind
\* selected, or refused for the reason the status gives (run.go:178-243,
\* docs/protocol.md:259, 501).
Contract == INSTANCE BoundWorker
    WITH Works <- {"serialize", "deserialize"},
         Can <- [serialize |-> Serializers, deserialize |-> Deserializers],
         selected <- IF ser # Nil THEN ser ELSE des,
         answer <- [op |-> reply.op, status |-> reply.status, ran |-> reply.ran]

\* Every request is handled as BoundWorker says, or changes nothing there.
ImplementsBoundWorker == Contract!Spec

\* The inductive invariant of the bindings: what is bound is what was asked for,
\* in every direction it has, and the holder is the bound serializer's, enabled as
\* the bind said.
BindingInv ==
    /\ ser # Nil => ser = asked
    /\ des # Nil => des = asked
    /\ holder = ser
    /\ ser # Nil => enabled[ser] = auditEnabled
    /\ ser # Nil /\ asked \in Deserializers => des # Nil
    /\ des # Nil /\ asked \in Serializers => ser # Nil
=============================================================================
