------------------------------ MODULE CaseData ------------------------------
(***************************************************************************)
(* The runner's side of one case: the YAML data of a case file is decoded  *)
(* field by field as its schema demands (internal/conf/casedata.go),       *)
(* validated (conf.go), encoded for the wire and normalised through JSON   *)
(* (internal/proto/proto.go, orch.go), and later compared with what a      *)
(* worker sends back (internal/cmp/cmp.go).  The JSON Schema that          *)
(* cmd/serify/schema.go generates for editors is here too, as the set of   *)
(* data it accepts.                                                        *)
(*                                                                         *)
(* A value of any of these languages is a record whose field names say     *)
(* what it is: [int |-> 3], [text |-> "x"], [list |-> <<...>>], [obj |-> f]*)
(* and so on; Nil is null.  A string is one of                             *)
(*   [text |-> s]             plain text                                   *)
(*   [dec |-> n]              the decimal spelling of n                    *)
(*   [hex |-> bs, up |-> b]   the hex spelling of bytes, with capitals?    *)
(*   [fhex |-> f, n |-> k]    the k-byte little-endian hex of the float f  *)
(* and no spelling is also another.  A float is [whole |-> n], [frac |-> n]*)
(* (n and a half), [inf |-> sign] or [nan |-> payload].  Kinds keep their  *)
(* order of widths and not their sizes: ByteBits stands for 8, Bits64 for  *)
(* 64, Bits128 for 128; the mantissas of the floats have Mant32 (24) and   *)
(* Mant64 (53) bits and their finite values end below 2^Exp32 (2^128) and  *)
(* 2^Exp64 (2^1024), so that floats round and overflow.  YAML aliases are  *)
(* followed by the decoder and do not occur.                               *)
(***************************************************************************)
EXTENDS Integers, Sequences, FiniteSets, SequencesExt

CONSTANTS ByteBits, Bits64, Bits128, Mant32, Mant64, Exp32, Exp64

ASSUME WidthsAssumption ==
    /\ ByteBits \in Nat \ {0} /\ Bits64 \in Nat /\ Bits128 \in Nat
    /\ ByteBits < Bits64 /\ Bits64 < Bits128

\* A small integer is a float64 exactly, a 64-bit one is not; every integer
\* kind is within float64 and a 128-bit one may be beyond float32.
ASSUME FloatsAssumption ==
    /\ Mant32 \in Nat \ {0} /\ Mant64 \in Nat /\ Exp32 \in Nat /\ Exp64 \in Nat
    /\ Mant32 < Mant64 /\ ByteBits <= Mant64 /\ Mant64 < Bits64 - 1
    /\ Mant64 <= Exp32 /\ Exp32 <= Bits128 /\ Bits128 < Exp64

-----------------------------------------------------------------------------
(* Results: a function that can fail returns Ok(v) or Err.                  *)

Ok(v) == [ok |-> v]

Err == [err |-> TRUE]

IsOk(r) == "ok" \in DOMAIN r

\* Every element succeeds, or the first failure is the result of the whole.
AllOk(rs) == IF \A k \in DOMAIN rs : IsOk(rs[k])
             THEN Ok([k \in DOMAIN rs |-> rs[k].ok])
             ELSE Err

Then(r, Op(_)) == IF IsOk(r) THEN Op(r.ok) ELSE Err

Nil == [nil |-> TRUE]

Is(tag, v) == tag \in DOMAIN v

IsString(v) == DOMAIN v \cap {"text", "dec", "hex", "fhex"} # {}

OneKey(f) == Cardinality(DOMAIN f) = 1

KeyOf(f) == CHOOSE k \in DOMAIN f : TRUE

\* A sum value in memory and on the wire: {tag: payload}.
Tagged(tag, v) == [obj |-> [t \in {tag} |-> v]]

-----------------------------------------------------------------------------
(* Floats.  A finite one is a whole number of halves.                       *)

Floats == {"float32", "float64"}

FloatLen(base) == IF base = "float32" THEN 4 ELSE 8

Mantissa(base) == IF base = "float32" THEN Mant32 ELSE Mant64

\* The halves of the first power of two the type does not have.
FloatEnd(base) == 2^(IF base = "float32" THEN Exp32 + 1 ELSE Exp64 + 1)

IsFinite(f) == DOMAIN f \cap {"whole", "frac"} # {}

Halves(f) == IF "whole" \in DOMAIN f THEN 2 * f.whole ELSE 2 * f.frac + 1

OfHalves(h) == IF h % 2 = 0 THEN [whole |-> h \div 2] ELSE [frac |-> h \div 2]

\* The conversions float64(n) and float32(f): the nearest number with so many
\* bits, the even one of two; an infinity past the largest.
FloatOf(base, f) ==
    IF ~IsFinite(f) THEN f
    ELSE LET sign == IF Halves(f) < 0 THEN -1 ELSE 1
             m    == sign * Halves(f)
             past(h) == h >= FloatEnd(base)
             ulp  == CHOOSE u \in {2^k : k \in 0 .. Exp64} :
                         /\ m < u * 2^Mantissa(base)
                         /\ u > 1 => 2 * m >= u * 2^Mantissa(base)
             up   == \/ 2 * (m % ulp) > ulp
                     \/ 2 * (m % ulp) = ulp /\ (m \div ulp) % 2 = 1
             h    == ulp * (m \div ulp + IF up THEN 1 ELSE 0)
         IN  IF past(m) THEN [inf |-> sign]
             ELSE IF past(h) THEN [inf |-> sign] ELSE OfHalves(sign * h)

\* strconv.ParseFloat of a decimal: an error when it is out of range.
ParseFloat(n) ==
    LET f == FloatOf("float64", [whole |-> n])
    IN  IF Is("inf", f) THEN Err ELSE Ok(f)

-----------------------------------------------------------------------------
(* Types (conf.FieldType) and fields (conf.Field).                          *)

Unsigned(bits) == 0 .. 2^bits - 1

Signed(bits) == -(2^(bits - 1)) .. 2^(bits - 1) - 1

\* The fixed-width integers that travel as JSON numbers: uint8 and int8 stand
\* for uint8..uint32 and int8..int32.
SmallInts == {"uint8", "int8"}

ExactInts == {"uint64", "int64", "uint128", "int128"}

IntRange(base) ==
    CASE base = "uint8"   -> Unsigned(ByteBits)
      [] base = "int8"    -> Signed(ByteBits)
      [] base = "uint64"  -> Unsigned(Bits64)
      [] base = "int64"   -> Signed(Bits64)
      [] base = "uint128" -> Unsigned(Bits128)
      [] base = "int128"  -> Signed(Bits128)

Scalars == SmallInts \cup ExactInts \cup Floats \cup {"bool", "string", "bytes"}

Scalar(base) == [base |-> base]

Elem(base, ft) == [base |-> base, elem |-> ft]

ArrayOf(ft, n) == [base |-> "array", elem |-> ft, n |-> n]

Struct(fields) == [base |-> "struct", fields |-> fields]

Enum(values) == [base |-> "enum", values |-> values]

Sum(variants) == [base |-> "sum", variants |-> variants]

Field(name, ft) == [name |-> name, type |-> ft]

\* A variant without a payload has this type (a nil Type in the code).
Unit == [base |-> "unit"]

Names(fields) == {fields[i].name : i \in DOMAIN fields}

\* findVariant and the byName maps: the entry of that name.
Named(fields, name) == CHOOSE f \in ToSet(fields) : f.name = name

-----------------------------------------------------------------------------
(* Decoding the YAML of a case.  Nodes: [int], [quoted], [text], [float],    *)
(* [bool], [hex], Nil, [seq] and [mapping].                                 *)

\* What a float64 cannot hold even as a float is left a string.
GenericFloat(x) ==
    IF IsFinite(x) /\ Is("inf", FloatOf("float64", x)) THEN [dec |-> x.whole]
    ELSE [flt |-> FloatOf("float64", x)]

\* yaml.v3 decoding into `any`: an integer becomes int, uint64 or, when it
\* fits neither, a float64.
RECURSIVE Generic(_)
Generic(node) ==
    CASE Is("int", node) ->
           IF node.int \in Signed(Bits64) THEN node
           ELSE IF node.int \in Unsigned(Bits64) THEN [uint |-> node.int]
           ELSE GenericFloat([whole |-> node.int])
      [] Is("quoted", node)  -> [dec |-> node.quoted]
      [] Is("float", node)   -> GenericFloat(node.float)
      [] Is("seq", node)     -> [list |-> [i \in DOMAIN node.seq |-> Generic(node.seq[i])]]
      [] Is("mapping", node) -> [obj |-> [k \in DOMAIN node.mapping |-> Generic(node.mapping[k])]]
      [] OTHER               -> node

\* Mutant of DecodeExactInt: the integer is held in 64 bits.
DecodeExactInt64(node) ==
    CASE Is("int", node)    -> Ok(node.int % 2^Bits64)
      [] Is("quoted", node) -> Ok(node.quoted % 2^Bits64)
      [] OTHER              -> Err

\* A bare integer or a quoted decimal, at full precision; not a float form.
DecodeExactInt(node) ==
    CASE Is("int", node)    -> Ok(node.int)
      [] Is("quoted", node) -> Ok(node.quoted)
      [] OTHER              -> Err

RECURSIVE DecodeDataValue(_, _)
RECURSIVE DecodeCaseData(_, _)

\* A mapping names one variant; a bare scalar only a variant with no payload.
\* A unit variant keeps no payload whatever was written under its tag.
DecodeSumValue(ft, node) ==
    CASE Is("text", node) ->
           IF /\ node.text \in Names(ft.variants)
              /\ Named(ft.variants, node.text).type = Unit
           THEN Ok(Tagged(node.text, Nil)) ELSE Err
      [] Is("mapping", node) ->
           IF ~OneKey(node.mapping) \/ ~(DOMAIN node.mapping \subseteq Names(ft.variants))
           THEN Err
           ELSE LET tag  == KeyOf(node.mapping)
                    type == Named(ft.variants, tag).type
                IN  IF type = Unit THEN Ok(Tagged(tag, Nil))
                    ELSE Then(DecodeDataValue(type, node.mapping[tag]),
                              LAMBDA v : Ok(Tagged(tag, v)))
      [] OTHER -> Err

\* null is accepted for every type; lists, maps and structs go element by
\* element; kinds with no case of their own are decoded generically.
DecodeDataValue(ft, node) ==
    IF node = Nil THEN Ok(Nil)
    ELSE CASE ft.base \in ExactInts ->
                Then(DecodeExactInt(node),
                     LAMBDA n : IF n \in IntRange(ft.base) THEN Ok([exact |-> n]) ELSE Err)
           [] ft.base = "optional" -> DecodeDataValue(ft.elem, node)
           [] ft.base \in {"list", "array"} ->
                IF ~Is("seq", node) THEN Err
                ELSE Then(AllOk([i \in DOMAIN node.seq |->
                                   DecodeDataValue(ft.elem, node.seq[i])]),
                          LAMBDA vs : Ok([list |-> vs]))
           [] ft.base = "map" ->
                IF ~Is("mapping", node) THEN Err
                ELSE Then(AllOk([k \in DOMAIN node.mapping |->
                                   DecodeDataValue(ft.elem, node.mapping[k])]),
                          LAMBDA vs : Ok([obj |-> vs]))
           [] ft.base = "struct" ->
                IF ~Is("mapping", node) THEN Err
                ELSE Then(DecodeCaseData(ft.fields, node.mapping),
                          LAMBDA vs : Ok([obj |-> vs]))
           [] ft.base = "sum" -> DecodeSumValue(ft, node)
           [] OTHER -> Ok(Generic(node))

\* A key the schema does not have is decoded generically and kept.
DecodeCaseData(schema, raw) ==
    AllOk([k \in DOMAIN raw |->
             IF k \in Names(schema)
             THEN DecodeDataValue(Named(schema, k).type, raw[k])
             ELSE Ok(Generic(raw[k]))])

\* The loader's last look at a case: top-level keys and top-level enums.
Validate(schema, data) ==
    \A k \in DOMAIN data :
        /\ k \in Names(schema)
        /\ LET ft == Named(schema, k).type
           IN  ft.base = "enum" => Is("text", data[k]) /\ data[k].text \in ft.values

-----------------------------------------------------------------------------
(* Encoding for the wire.                                                   *)

ToFloat64(v) ==
    CASE Is("flt", v) -> Ok(v.flt)
      [] Is("int", v) -> Ok(FloatOf("float64", [whole |-> v.int]))
      [] Is("dec", v) -> ParseFloat(v.dec)
      [] OTHER        -> Err

\* A byte of a byte array; a float is accepted when it is whole.
ToByte(v) ==
    LET n == CASE Is("int", v) -> v.int
               [] Is("flt", v) /\ Is("whole", v.flt) -> v.flt.whole
               [] OTHER -> -1
    IN  IF n \in Unsigned(ByteBits) THEN Ok(n) ELSE Err

\* A string is taken to be hex already and is not looked at.
EncodeBytes(v) ==
    CASE IsString(v)   -> Ok(v)
      [] Is("list", v) -> Then(AllOk([i \in DOMAIN v.list |-> ToByte(v.list[i])]),
                               LAMBDA bs : Ok([hex |-> bs, up |-> FALSE]))
      [] OTHER         -> Err

RECURSIVE EncodeValue(_, _)
\* A struct is read through its schema: a key the schema lacks is dropped, a
\* missing one skipped.
EncodeStruct(v, fields) ==
    IF ~Is("obj", v) THEN Err
    ELSE Then(AllOk([k \in DOMAIN v.obj \cap Names(fields) |->
                       EncodeValue(v.obj[k], Named(fields, k).type)]),
              LAMBDA vs : Ok([obj |-> vs]))

EncodeSum(v, variants) ==
    IF ~Is("obj", v) THEN Err
    ELSE IF ~OneKey(v.obj) \/ ~(DOMAIN v.obj \subseteq Names(variants)) THEN Err
    ELSE LET tag  == KeyOf(v.obj)
             type == Named(variants, tag).type
         IN  IF type = Unit THEN Ok(Tagged(tag, Nil))
             ELSE Then(EncodeValue(v.obj[tag], type), LAMBDA e : Ok(Tagged(tag, e)))

EncodeValue(v, ft) ==
    CASE ft.base \in Floats ->
           Then(ToFloat64(v), LAMBDA f : Ok([fhex |-> FloatOf(ft.base, f), n |-> FloatLen(ft.base)]))
      [] ft.base \in ExactInts ->       \* fmt.Sprintf("%v", v)
           Ok(IF v = Nil THEN [text |-> "<nil>"] ELSE [dec |-> v.exact])
      [] ft.base = "bytes"    -> EncodeBytes(v)
      [] ft.base = "struct"   -> EncodeStruct(v, ft.fields)
      [] ft.base = "optional" -> IF v = Nil THEN Ok(Nil) ELSE EncodeValue(v, ft.elem)
      [] ft.base \in {"list", "array"} ->
           IF ~Is("list", v) THEN Err
           ELSE IF ft.base = "array" /\ Len(v.list) # ft.n THEN Err
           ELSE Then(AllOk([i \in DOMAIN v.list |-> EncodeValue(v.list[i], ft.elem)]),
                     LAMBDA vs : Ok([list |-> vs]))
      [] ft.base = "map" ->
           IF ~Is("obj", v) THEN Err
           ELSE Then(AllOk([k \in DOMAIN v.obj |-> EncodeValue(v.obj[k], ft.elem)]),
                     LAMBDA vs : Ok([obj |-> vs]))
      [] ft.base = "enum"     -> IF IsString(v) THEN Ok(v) ELSE Err
      [] ft.base = "sum"      -> EncodeSum(v, ft.variants)
      [] OTHER                -> Ok(v)

EncodeData(data, schema) ==
    IF DOMAIN data \subseteq Names(schema)
    THEN AllOk([k \in DOMAIN data |-> EncodeValue(data[k], Named(schema, k).type)])
    ELSE Err

\* json.Marshal and back: every number is a float64, and NaN and infinities
\* cannot be written.
RECURSIVE JsonRoundTrip(_)
JsonRoundTrip(v) ==
    CASE Is("int", v)  -> Ok([flt |-> FloatOf("float64", [whole |-> v.int])])
      [] Is("uint", v) -> Ok([flt |-> FloatOf("float64", [whole |-> v.uint])])
      [] Is("flt", v)  -> IF IsFinite(v.flt) THEN Ok(v) ELSE Err
      [] Is("list", v) -> Then(AllOk([i \in DOMAIN v.list |-> JsonRoundTrip(v.list[i])]),
                               LAMBDA vs : Ok([list |-> vs]))
      [] Is("obj", v)  -> Then(AllOk([k \in DOMAIN v.obj |-> JsonRoundTrip(v.obj[k])]),
                               LAMBDA vs : Ok([obj |-> vs]))
      [] OTHER         -> Ok(v)

\* What the request carries and what the answer is compared with: obj.
EncodeCase(data, schema) ==
    Then(EncodeData(data, schema), LAMBDA vs : JsonRoundTrip([obj |-> vs]))

-----------------------------------------------------------------------------
(* The schema a worker is bound to.                                         *)

\* FieldType.String(): the spelling of a type names the kinds and loses the
\* fields of a struct.
RECURSIVE TypeString(_)
TypeString(ft) ==
    CASE ft.base \in {"optional", "list", "map"} -> [ft EXCEPT !.elem = TypeString(ft.elem)]
      [] ft.base = "array"  -> [ft EXCEPT !.elem = TypeString(ft.elem)]
      [] ft.base = "struct" -> Scalar("struct")
      [] ft.base = "sum"    ->
           Sum([i \in DOMAIN ft.variants |->
                  Field(ft.variants[i].name, TypeString(ft.variants[i].type))])
      [] OTHER -> ft

\* Beside its spelling a field carries the fields of the struct it is made
\* of - not for an array - and the variants of a sum.
RECURSIVE SchemaFieldOfType(_, _)
SchemaFieldOfType(name, ft) ==
    LET nested == CASE ft.base = "struct" -> ft.fields
                    [] ft.base \in {"list", "optional", "map"} /\ ft.elem.base = "struct"
                         -> ft.elem.fields
                    [] OTHER -> <<>>
        arms   == IF ft.base = "sum" THEN ft.variants ELSE <<>>
        Wire(fields) == [i \in DOMAIN fields |->
                           SchemaFieldOfType(fields[i].name, fields[i].type)]
    IN  [name |-> name, type |-> TypeString(ft), fields |-> Wire(nested), variants |-> Wire(arms)]

SchemaFields(schema) ==
    [i \in DOMAIN schema |-> SchemaFieldOfType(schema[i].name, schema[i].type)]

-----------------------------------------------------------------------------
(* Comparing the answer with the case.                                      *)

\* Mutant of IsNaNHex: only the 4-byte form is known.
IsNaNHex32(v) == Is("fhex", v) /\ Is("nan", v.fhex) /\ v.n = 4

IsNaNHex(v) == Is("fhex", v) /\ Is("nan", v.fhex)

At(f, k) == IF k \in DOMAIN f THEN f[k] ELSE Nil

FloatFields(schema) == {k \in Names(schema) : Named(schema, k).type.base \in Floats}

\* Mutant of DataDiff: only the fields the answer has are compared.
DataDiffPresent(expected, got, schema) ==
    {k \in DOMAIN got :
        /\ At(expected, k) # got[k]
        /\ ~(k \in FloatFields(schema) /\ IsNaNHex(At(expected, k)) /\ IsNaNHex(got[k]))}

\* The fields that differ: two NaNs of a top-level float are equal, a missing
\* field is null, and a field the case does not have is a difference.
DataDiff(expected, got, schema) ==
    {k \in Names(schema) :
        /\ At(expected, k) # At(got, k)
        /\ ~(k \in FloatFields(schema) /\ IsNaNHex(At(expected, k)) /\ IsNaNHex(At(got, k)))}
      \cup (DOMAIN got \ DOMAIN expected)

-----------------------------------------------------------------------------
(* The generated JSON Schema, as the set of nodes it accepts.               *)

RECURSIVE SchemaAccepts(_, _)
\* object(): every field is required and no other key is allowed.
ObjectAccepts(fields, raw) ==
    /\ DOMAIN raw = Names(fields)
    /\ \A k \in DOMAIN raw : SchemaAccepts(Named(fields, k).type, raw[k])

\* A bare unit tag, or a mapping with exactly one variant.
SumAccepts(variants, node) ==
    \/ /\ Is("text", node) /\ node.text \in Names(variants)
       /\ Named(variants, node.text).type = Unit
    \/ /\ Is("mapping", node) /\ OneKey(node.mapping)
       /\ \A t \in DOMAIN node.mapping :
              /\ t \in Names(variants)
              /\ SchemaAccepts(Named(variants, t).type, node.mapping[t])

SchemaAccepts(ft, node) ==
    CASE ft = Unit              -> node = Nil
      [] ft.base = "optional"   -> node = Nil \/ SchemaAccepts(ft.elem, node)
      [] ft.base \in {"list", "array"} ->
           /\ Is("seq", node)
           /\ ft.base = "array" => Len(node.seq) = ft.n
           /\ \A i \in DOMAIN node.seq : SchemaAccepts(ft.elem, node.seq[i])
      [] ft.base = "map"        ->
           Is("mapping", node) /\ \A k \in DOMAIN node.mapping :
                                      SchemaAccepts(ft.elem, node.mapping[k])
      [] ft.base = "struct"     -> Is("mapping", node) /\ ObjectAccepts(ft.fields, node.mapping)
      [] ft.base = "enum"       -> Is("text", node) /\ node.text \in ft.values
      [] ft.base = "sum"        -> SumAccepts(ft.variants, node)
      [] ft.base = "bytes"      ->
           \/ Is("hex", node)
           \/ /\ Is("seq", node)
              /\ \A i \in DOMAIN node.seq : SchemaAccepts(Scalar("uint8"), node.seq[i])
      [] ft.base \in SmallInts  -> Is("int", node) /\ node.int \in IntRange(ft.base)
      [] ft.base \in ExactInts  ->   \* the bounds are of the integer form only
           \/ Is("int", node) /\ node.int \in IntRange(ft.base)
           \/ Is("quoted", node) /\ (ft.base \in {"uint64", "uint128"} => node.quoted >= 0)
      [] ft.base \in Floats     -> Is("int", node) \/ Is("float", node)
      [] ft.base = "bool"       -> Is("bool", node)
      [] ft.base = "string"     -> DOMAIN node \cap {"text", "quoted", "hex"} # {}
=============================================================================
