------------------------------ MODULE CaseFlow ------------------------------
(***************************************************************************)
(* One case on its way through the system: loaded from its YAML file,      *)
(* encoded, sent to a Go worker, decoded there, handed to the worker's own *)
(* serializer, given back by its deserializer, encoded again and compared  *)
(* with the case.  CaseData is the runner's half, GoFieldMap the worker's. *)
(*                                                                         *)
(* The worker's own code is the unknown: its deserializer may give back    *)
(* what its serializer was given, give it back with other NaN bits, with   *)
(* one value changed, or with one field left out.  How it declares its     *)
(* data is an input too (Styles): no struct at all, a struct that fits the *)
(* schema, one with the fields in an embedded struct, a type with a        *)
(* whole-type converter, and two that do not fit.                          *)
(***************************************************************************)
EXTENDS GoFieldMap

CONSTANTS Cases,   \* the inputs: records [schema, raw]
          Styles   \* how the worker declares its data, see Model

VARIABLES
    case,      \* the input
    style,     \* the worker's declaration, "none" until it matters
    stage,     \* the next step
    data,      \* TestCase.Data, after loading
    wire,      \* the encoded case: the request, and what is expected back
    request,   \* the FieldMap decoded from the request
    handed,    \* what the worker's serializer is called with
    changed,   \* what the worker's code does with it: "no", "nan", "null" or "value"
    back,      \* what its deserializer returns
    got,       \* the data of the response
    verdict

vars == <<case, style, stage, data, wire, request, handed, changed, back, got, verdict>>

schema == case.schema

-----------------------------------------------------------------------------
(* The worker's declarations.                                               *)

RECURSIVE GoType(_)
StructType(fields) ==
    [fs |-> [i \in DOMAIN fields |-> [key |-> fields[i].name, g |-> GoType(fields[i].type)]]]

\* The field type that fits a schema type.
GoType(ft) ==
    CASE ft.base \in Scalars -> [g |-> "val", t |-> GoScalar(ft.base)]
      [] ft.base = "enum"    -> [g |-> "val", t |-> <<"string">>]
      [] ft.base = "sum"     -> [g |-> "conv", t |-> VariantT]
      [] ft.base = "struct"  -> [g |-> "struct", m |-> StructType(ft.fields)]
      [] ft.base = "optional" -> [g |-> "ptr", e |-> GoType(ft.elem)]
      [] ft.base = "array"   -> [g |-> "array", n |-> ft.n, e |-> GoType(ft.elem)]
      [] ft.base = "map"     -> [g |-> "map", e |-> GoType(ft.elem)]
      [] ft.base = "list"    ->
           IF ft.elem.base = "struct" THEN [g |-> "slice", e |-> GoType(ft.elem)]
           ELSE IF ft.elem.base \in Scalars THEN [g |-> "val", t |-> SliceOf(GoScalar(ft.elem.base))]
           ELSE [g |-> "val", t |-> SliceOf(<<"any">>)]

\* Not the field type that fits: a type that reflect can convert the elements
\* to, or *big.Int for an optional 128-bit integer.
MisfitType(ft) ==
    CASE ft.base = "optional" /\ ft.elem.base = "uint128" -> GoType(ft.elem)
      [] ft.base \in {"array", "map"} /\ ft.elem.base \in {"uint8", "int64"} ->
           [GoType(ft) EXCEPT !.e = [g |-> "val", t |-> IF ft.elem.base = "int64" THEN <<"float32">>
                                                        ELSE IF ft.base = "array" THEN <<"string">>
                                                        ELSE <<"int8">>]]
      [] OTHER -> [g |-> "val", t |-> <<"int">>]

Model(sty, fields) ==
    LET exact == StructType(fields)
    IN  CASE sty = "exact"    -> exact
          [] sty = "embedded" -> [fs |-> <<[key |-> "", g |-> [g |-> "embed", m |-> exact]]>>]
          [] sty = "whole"    -> [whole |-> TRUE]
          [] sty = "missing"  -> [fs |-> Tail(exact.fs)]
          [] sty = "misfit"   -> [exact EXCEPT !.fs[1].g = MisfitType(fields[1].type)]

\* One value of a struct or FieldMap changed, at any depth: another value, a
\* value for a null, a list cut short, a map entry lost or added.
RECURSIVE Changes(_)
Changes(x) ==
    LET At1(f, Rebuild(_)) ==
            {Rebuild([f EXCEPT ![k] = y]) : <<k, y>> \in
                UNION {{<<j, z>> : z \in Changes(f[j])} : j \in DOMAIN f}}
        Shorter(v) == IF Is("list", v) /\ v # [list |-> <<>>] THEN {[list |-> Front(v.list)]} ELSE {}
        Values == {Iface(<<"string">>, [text |-> "other"]), Iface(<<"uint8">>, [num |-> 1])}
    IN  CASE Is("num", x)  -> {[num |-> IF x.num = 0 THEN 1 ELSE 0]}
          [] Is("flt", x)  -> {[flt |-> [whole |-> IF x.flt = [whole |-> 0] THEN 1 ELSE 0]]}
          [] Is("bool", x) -> {[bool |-> ~x.bool]}
          [] IsString(x)   -> {[text |-> "other"]} \ {x}
          [] Is("list", x) -> At1(x.list, LAMBDA f : [list |-> f])
          [] Is("st", x)   -> At1(x.st, LAMBDA f : [st |-> f])
          [] Is("map", x)  -> At1(x.map, LAMBDA f : [map |-> f])
                              \cup {[map |-> Restrict(x.map, DOMAIN x.map \ {k})] :
                                       k \in DOMAIN x.map}
                              \cup {[map |-> ("new" :> x.map[k]) @@ x.map] : k \in DOMAIN x.map}
          [] Is("fm", x)   -> At1(x.fm, LAMBDA f : [fm |-> f])
                              \cup {[fm |-> [x.fm EXCEPT ![k] = y]] :
                                       k \in {j \in DOMAIN x.fm : x.fm[j] = NilIface}, y \in Values}
          [] Is("x", x)    -> {[x EXCEPT !.x = y] : y \in Changes(x.x) \cup Shorter(x.x)}
          [] Is("tag", x)  -> {[x EXCEPT !.val = y] : y \in Changes(x.val)}
          [] OTHER         -> {}

\* Every NaN with other bits.
RECURSIVE OtherNaNs(_)
OtherNaNs(x) ==
    LET Each(f) == [k \in DOMAIN f |-> OtherNaNs(f[k])]
    IN  CASE Is("flt", x)  -> IF Is("nan", x.flt) THEN [flt |-> [nan |-> "other"]] ELSE x
          [] Is("list", x) -> [list |-> Each(x.list)]
          [] Is("st", x)   -> [st |-> Each(x.st)]
          [] Is("map", x)  -> [map |-> Each(x.map)]
          [] Is("fm", x)   -> [fm |-> Each(x.fm)]
          [] Is("x", x)    -> [x EXCEPT !.x = OtherNaNs(x.x)]
          [] Is("tag", x)  -> [x EXCEPT !.val = OtherNaNs(x.val)]
          [] OTHER         -> x

-----------------------------------------------------------------------------
Init ==
    /\ case \in Cases
    /\ style = "none"
    /\ stage = "load"
    /\ data = Nil /\ wire = Nil /\ request = Nil /\ handed = Nil /\ back = Nil /\ got = Nil
    /\ changed = "no"
    /\ verdict = "none"

\* Mutant of Step: the error is noted and the work goes on.
StepNoReturn(from, r, to, failure) ==
    /\ stage = from
    /\ stage' = to
    /\ verdict' = IF IsOk(r) THEN verdict ELSE failure

\* The step's result goes on to the next stage, or ends the case.
Step(from, r, to, failure) ==
    /\ stage = from
    /\ stage' = IF IsOk(r) THEN to ELSE "done"
    /\ verdict' = IF IsOk(r) THEN verdict ELSE failure

Keep(v, r) == IF IsOk(r) THEN r.ok ELSE v

\* loadTypeFile: a case that cannot be decoded or is not valid stops the run.
LoadedCase ==
    Then(DecodeCaseData(schema, case.raw),
         LAMBDA d : IF Validate(schema, d) THEN Ok(d) ELSE Err)

Load ==
    /\ Step("load", LoadedCase, "encode", "load_error")
    /\ data' = Keep(data, LoadedCase)
    /\ UNCHANGED <<case, style, wire, request, handed, changed, back, got>>

\* runTest: a case that cannot be encoded is an error row for every worker.
Encode ==
    LET r == EncodeCase(data, schema)
    IN  /\ Step("encode", r, "decode", "encode_error")
        /\ wire' = (IF IsOk(r) THEN r.ok.obj ELSE wire)
        /\ UNCHANGED <<case, style, data, request, handed, changed, back, got>>

\* The worker decodes the data of a serialize request.
DecodeRequest ==
    LET r == DecodeFieldMap(wire, SchemaFields(schema))
    IN  /\ Step("decode", r, "serialize", "worker_error")
        /\ request' = Keep(request, r)
        /\ UNCHANGED <<case, style, data, wire, handed, changed, back, got>>

\* With a Model the serializer is called with a struct filled from the
\* FieldMap, without one with the FieldMap itself.
CallSerializer ==
    \E sty \in Styles :
        LET r == IF sty = "fieldmap" THEN Ok([fm |-> request])
                 ELSE Fill(Model(sty, schema), request)
        IN  /\ Step("serialize", r, "deserialize", "worker_error")
            /\ style' = sty
            /\ handed' = Keep(handed, r)
            /\ UNCHANGED <<case, data, wire, request, changed, back, got>>

\* The bytes travel and the worker's deserializer rebuilds the value.
CallDeserializer ==
    /\ stage = "deserialize"
    /\ stage' = "reply"
    /\ \/ back' = handed /\ changed' = "no"
       \/ OtherNaNs(handed) # handed /\ back' = OtherNaNs(handed) /\ changed' = "nan"
       \/ \E x \in Changes(handed) : back' = x /\ changed' = "value"
       \/ /\ style = "fieldmap"
          /\ \E k \in DOMAIN request :
                /\ back' = [fm |-> Restrict(request, DOMAIN request \ {k})]
                /\ changed' = IF wire[k] = Nil THEN "null" ELSE "value"
    /\ UNCHANGED <<case, style, data, wire, request, handed, got, verdict>>

\* The struct is read back into a FieldMap and that into the response, which
\* the runner parses as JSON.
EncodeReply ==
    LET fm == IF style = "fieldmap" THEN back.fm ELSE Extract(Model(style, schema), back)
        r  == EncodeFieldMap(fm, SchemaFields(schema))
    IN  /\ Step("reply", r, "judge", "worker_error")
        /\ got' = Keep(got, r)
        /\ UNCHANGED <<case, style, data, wire, request, handed, changed, back>>

Judge ==
    /\ stage = "judge"
    /\ stage' = "done"
    /\ verdict' = IF DataDiff(wire, got, schema) = {} THEN "pass" ELSE "fail"
    /\ UNCHANGED <<case, style, data, wire, request, handed, changed, back, got>>

Done == stage = "done" /\ UNCHANGED vars

Next ==
    \/ Load
    \/ Encode
    \/ DecodeRequest
    \/ CallSerializer
    \/ CallDeserializer
    \/ EncodeReply
    \/ Judge
    \/ Done

Spec == Init /\ [][Next]_vars
-----------------------------------------------------------------------------
(* Properties.                                                              *)

\* The scalars of authored data, with the types they are written for.
RECURSIVE Leaves(_, _)
Leaves(ft, node) ==
    LET In(f, TypeOf(_)) == UNION {Leaves(TypeOf(k), f[k]) : k \in DOMAIN f}
        Sub(fields, f) == In(Restrict(f, DOMAIN f \cap Names(fields)),
                             LAMBDA k : Named(fields, k).type)
    IN  CASE ft.base = "optional" /\ node # Nil -> Leaves(ft.elem, node)
          [] ft.base \in {"list", "array"} /\ Is("seq", node) -> In(node.seq, LAMBDA k : ft.elem)
          [] ft.base = "map" /\ Is("mapping", node) -> In(node.mapping, LAMBDA k : ft.elem)
          [] ft.base = "struct" /\ Is("mapping", node) -> Sub(ft.fields, node.mapping)
          [] ft.base = "sum" /\ Is("mapping", node) -> Sub(ft.variants, node.mapping)
          [] OTHER -> {[type |-> ft, node |-> node]}

CaseLeaves == Leaves(Struct(schema), [mapping |-> case.raw])

\* What the worker's own code is given for a field: an interface value.
Given(k) ==
    LET fm == IF style = "fieldmap" THEN request ELSE Extract(Model(style, schema), handed)
    IN  IF k \in DOMAIN fm THEN fm[k] ELSE NilIface

\* The numbers a float type has, in halves; its infinities are at the ends.
FloatGrid(base) ==
    LET top == 2^Mantissa(base)
    IN  {m * u : m \in -top .. top,
                 u \in {v \in {2^k : k \in 0 .. Exp64} : v * top <= FloatEnd(base)}}

\* The float f is the number x if the type has it, and otherwise one of the two
\* of the type that x lies between (rounding twice need not give the nearer).
StandsFor(base, f, x) ==
    LET at == IF Is("inf", f) THEN f.inf * FloatEnd(base) ELSE Halves(f)
    IN  IF IsFinite(x)
        THEN /\ ~Is("nan", f) /\ at \in FloatGrid(base)
             /\ \A g \in FloatGrid(base) : ~(Halves(x) <= g /\ g < at) /\ ~(at < g /\ g <= Halves(x))
        ELSE f = x

\* The value x stands for what was written as node: the reference definition
\* of the way from a case file to a worker.  Keys the schema does not have and
\* what is written under a unit tag stand for nothing.
RECURSIVE Represents(_, _, _)
Represents(ft, node, v) ==
    LET Lifted(e, x) == IF e.base = "struct" THEN Iface(FieldMapT, x)
                        ELSE Iface(GoScalar(e.base), x)
    IN  CASE v = NilIface -> node = Nil
          [] v # NilIface /\ ft.base \in SmallInts -> node = [int |-> v.x.num]
          [] v # NilIface /\ ft.base \in ExactInts ->
               node \in {[int |-> v.x.num], [quoted |-> v.x.num]}
          [] v # NilIface /\ ft.base \in Floats ->
               StandsFor(ft.base, v.x.flt,
                         CASE Is("float", node)  -> node.float
                           [] Is("int", node)    -> [whole |-> node.int]
                           [] Is("quoted", node) -> [whole |-> node.quoted]
                           [] OTHER              -> Nil)
          [] v # NilIface /\ ft.base = "bytes" ->
               \/ Is("hex", node) /\ Numbers(node.hex) = v.x
               \/ Is("seq", node) /\ v.x = [list |-> [i \in DOMAIN node.seq |->
                                                        [num |-> node.seq[i].int]]]
          [] v # NilIface /\ ft.base \in {"bool", "string", "enum"} -> Generic(node) = v.x
          [] v # NilIface /\ ft.base = "optional" -> node # Nil /\ Represents(ft.elem, node, v)
          [] v # NilIface /\ ft.base \in {"list", "array"} ->
               /\ Is("seq", node) /\ DOMAIN node.seq = DOMAIN v.x.list
               /\ \A i \in DOMAIN node.seq :
                      Represents(ft.elem, node.seq[i], Lifted(ft.elem, v.x.list[i]))
          [] v # NilIface /\ ft.base = "map" ->
               /\ Is("mapping", node) /\ DOMAIN node.mapping = DOMAIN v.x.map
               /\ \A k \in DOMAIN node.mapping :
                      Represents(ft.elem, node.mapping[k], v.x.map[k])
          [] v # NilIface /\ ft.base = "struct" ->
               /\ Is("mapping", node)
               /\ \A k \in DOMAIN node.mapping \cap Names(ft.fields) :
                      Represents(Named(ft.fields, k).type, node.mapping[k],
                                 IF k \in DOMAIN v.x.fm THEN v.x.fm[k] ELSE NilIface)
          [] v # NilIface /\ ft.base = "sum" ->
               LET type == Named(ft.variants, v.x.tag).type
               IN  \/ node = [text |-> v.x.tag]
                   \/ /\ Is("mapping", node) /\ DOMAIN node.mapping = {v.x.tag}
                      /\ type # Unit => Represents(type, node.mapping[v.x.tag], v.x.val)

\* The intermediate values appear stage by stage, and only a finished case has
\* a verdict.
TypeOK ==
    /\ case \in Cases /\ style \in Styles \cup {"none"}
    /\ stage \in {"load", "encode", "decode", "serialize", "deserialize", "reply",
                  "judge", "done"}
    /\ verdict \in {"none", "load_error", "encode_error", "worker_error", "fail", "pass"}
    /\ changed \in {"no", "nan", "null", "value"}
    /\ (verdict = "none") <=> (stage # "done")
    /\ verdict \in {"pass", "fail"} => got # Nil /\ wire # Nil

\* A passing case was really tested: every value written in the case file is
\* what the worker's own code was given, exactly or, for a number a float field
\* does not have, as a neighbour of it in that type, which past the largest is
\* an infinity: encodeValue's float32(f) and toFloat64 round without a word
\* (schema-directed decoding in casedata.go, the wire encodings of proto.go,
\* numFromJSON's unchecked narrowing and reflect.go's silent drops).  A null
\* for a type that has no null, an integer out of its width, a field the
\* worker's struct lacks or declares otherwise: none of them may end green.
PassMeansDelivered ==
    verdict = "pass" /\ changed # "null" =>
        \A k \in DOMAIN case.raw : Represents(Named(schema, k).type, case.raw[k], Given(k))

\* Kinds of element the containers of the Go library hold.
Supported(ft) ==
    CASE ft.base \in {"list", "optional", "map"} -> ft.elem.base \in Scalars \cup {"struct"}
      [] ft.base = "array" -> ft.elem.base \in Scalars
      [] OTHER -> TRUE

SupportedSchema == \A i \in DOMAIN schema : Supported(schema[i].type)

\* A worker whose deserializer gives back anything but what its serializer was
\* given - one value at any depth, one map entry, one field - does not pass
\* (EncodeFieldMap, the JSON round trip and DataDiff lose no difference).  To
\* leave out a field that is null in the case is no change: DataDiff reads a
\* missing field as null.  The struct elements of an array have no schema of
\* their own on the wire and are not covered (SchemaFieldOfType).
ChangeNeverPasses == changed = "value" /\ SupportedSchema => verdict # "pass"

\* Forms the generated schema accepts and the runner does not carry through: a
\* hex string with capitals comes back without them, a quoted decimal has no
\* bounds there, a float written as an integer above int64 is a uint64, which
\* toFloat64 does not take, and a number past float64 is left a string.
Gap(leaf) ==
    \/ leaf.type.base = "bytes" /\ Is("hex", leaf.node) /\ leaf.node.up
    \/ leaf.type.base \in ExactInts /\ Is("quoted", leaf.node)
         /\ leaf.node.quoted \notin IntRange(leaf.type.base)
    \/ leaf.type.base \in Floats /\ Is("int", leaf.node)
         /\ leaf.node.int \in Unsigned(Bits64) \ Signed(Bits64)
    \/ leaf.type.base \in Floats /\ Is("dec", Generic(leaf.node))

Accepted == ObjectAccepts(schema, case.raw) /\ ~\E leaf \in CaseLeaves : Gap(leaf)

\* NaN is compared by value for a float that is a field of the case itself.
Faithful ==
    \/ changed = "no"
    \/ changed = "nan" /\ \A leaf \in CaseLeaves :
                               Is("float", leaf.node) => leaf.type \in
                                   {schema[i].type : i \in DOMAIN schema}

Fits == style \notin {"missing", "misfit"}

\* A case that the schema generated for editors accepts passes with every
\* worker that gives back what it was given, however it declares its data: the
\* two descriptions of a case file agree, and no step of the way turns a
\* correct worker into a failing one.
FaithfulPasses ==
    /\ stage = "done" /\ Faithful /\ Fits /\ Accepted /\ SupportedSchema
    => verdict = "pass"
=============================================================================
