----------------------------- MODULE GoFieldMap -----------------------------
(***************************************************************************)
(* The worker's side of one case, as the Go worker library does it: wire   *)
(* JSON into a FieldMap and back (lib/go/serify/protocol.go), the typed    *)
(* accessors of a FieldMap (fieldmap.go), and the reflective bridge        *)
(* between a FieldMap and the worker's own struct (reflect.go).            *)
(*                                                                         *)
(* A FieldMap is a function from keys to interface values [t, x]: t is the *)
(* dynamic Go type, spelled as a sequence (<<"[]", "uint8">>), and x the   *)
(* value: [num], [flt], [bool], a string, [list], [fm] (a nested FieldMap),*)
(* [map], or [tag, val] (a *Variant).  []byte and []uint8 are one type, so *)
(* bytes are a list of numbers.                                            *)
(***************************************************************************)
EXTENDS CaseData

Iface(t, x) == [t |-> t, x |-> x]

NilIface == Iface(<<"nil">>, Nil)

FieldMapT == <<"*", "FieldMap">>

VariantT == <<"*", "Variant">>

MapT == <<"map">>

SliceOf(t) == <<"[]">> \o t

BytesT == SliceOf(<<"uint8">>)

\* The Go type decodeScalar stores for a kind.
GoScalar(base) ==
    CASE base \in {"uint128", "int128"} -> <<"*", "big.Int">>
      [] base = "bytes"                 -> BytesT
      [] base = "struct"                -> FieldMapT
      [] OTHER                          -> <<base>>

Numbers(bs) == [list |-> [i \in DOMAIN bs |-> [num |-> bs[i]]]]

\* T(n) for a fixed-width T: the compiler converts through a wider integer and
\* keeps the low bits.
Wrap(base, n) ==
    LET bits == IF base \in SmallInts THEN ByteBits ELSE Bits64
    IN  IF base \in {"uint8", "uint64"} THEN n % 2^bits
        ELSE ((n + 2^(bits - 1)) % 2^bits) - 2^(bits - 1)

\* A float truncated toward zero; what is no number gives some integer.
Truncated(f) ==
    CASE Is("whole", f) -> f.whole
      [] Is("frac", f)  -> IF f.frac < 0 THEN f.frac + 1 ELSE f.frac
      [] OTHER          -> 0

\* Any JSON number, truncated toward zero and narrowed without a check; null
\* leaves the float at 0.
NumFromJSON(base, r) ==
    CASE r = Nil      -> Ok([num |-> 0])
      [] Is("flt", r) -> Ok([num |-> Wrap(base, Truncated(r.flt))])
      [] OTHER        -> Err

\* uintFromString, intFromString, bigFromString: a decimal string in range.
IntFromString(base, r) ==
    IF Is("dec", r) THEN IF r.dec \in IntRange(base) THEN Ok([num |-> r.dec]) ELSE Err
    ELSE Err

\* json.Unmarshal of null into a string or a bool leaves the zero value.
StringFromJSON(r) ==
    CASE r = Nil -> Ok([text |-> ""]) [] IsString(r) -> Ok(r) [] OTHER -> Err

FloatFromHex(base, r) ==
    IF Is("fhex", r) THEN IF r.n = FloatLen(base) THEN Ok([flt |-> r.fhex]) ELSE Err
    ELSE Err

BytesFromHex(r) ==
    CASE r = Nil -> Ok(Numbers(<<>>)) [] Is("hex", r) -> Ok(Numbers(r.hex)) [] OTHER -> Err

-----------------------------------------------------------------------------
(* Wire JSON to FieldMap.  A type is its spelling, see TypeString.          *)

RECURSIVE DecodeField(_, _)
\* The schema's fields that are present; the others stay absent.
DecodeFieldMap(raw, schema) ==
    AllOk([k \in DOMAIN raw \cap Names(schema) |-> DecodeField(Named(schema, k), raw[k])])

\* A scalar or a nested struct; no other spelling is known here.
DecodeScalar(type, fields, r) ==
    LET x == CASE type.base \in SmallInts -> NumFromJSON(type.base, r)
               [] type.base \in ExactInts -> IntFromString(type.base, r)
               [] type.base \in Floats    -> FloatFromHex(type.base, r)
               [] type.base = "bool"      -> IF r = Nil THEN Ok([bool |-> FALSE])
                                             ELSE IF Is("bool", r) THEN Ok(r) ELSE Err
               [] type.base = "string"    -> StringFromJSON(r)
               [] type.base = "bytes"     -> BytesFromHex(r)
               [] type.base = "struct"    ->
                    IF r = Nil THEN Ok([fm |-> <<>>])
                    ELSE IF ~Is("obj", r) THEN Err
                    ELSE Then(DecodeFieldMap(r.obj, fields), LAMBDA f : Ok([fm |-> f]))
               [] OTHER -> Err
    IN  Then(x, LAMBDA v : Ok(Iface(GoScalar(type.base), v)))

\* Elements are scalars or structs, collected in a slice of their Go type.
DecodeList(elem, fields, r) ==
    LET items == CASE r = Nil -> <<>> [] Is("list", r) -> r.list [] OTHER -> <<>>
    IN  IF ~(r = Nil \/ Is("list", r)) \/ elem.base \notin Scalars \cup {"struct"} THEN Err
        ELSE Then(AllOk([i \in DOMAIN items |-> DecodeScalar(elem, fields, items[i])]),
                  LAMBDA vs : Ok(Iface(SliceOf(GoScalar(elem.base)),
                                       [list |-> [i \in DOMAIN vs |-> vs[i].x]])))

\* An array is a list of the declared length.
DecodeArray(type, fields, r) ==
    Then(DecodeList(type.elem, fields, r),
         LAMBDA v : IF Len(v.x.list) = type.n THEN Ok(v) ELSE Err)

DecodeOptional(elem, fields, r) ==
    IF r = Nil THEN Ok(NilIface) ELSE DecodeScalar(elem, fields, r)

DecodeMap(elem, fields, r) ==
    IF ~(r = Nil \/ Is("obj", r)) THEN Err
    ELSE LET obj == IF r = Nil THEN <<>> ELSE r.obj
         IN  Then(AllOk([k \in DOMAIN obj |-> DecodeScalar(elem, fields, obj[k])]),
                  LAMBDA vs : Ok(Iface(MapT, [map |-> vs])))

\* Exactly one known variant; the payload is decoded as a field of its own.
DecodeSum(variants, r) ==
    IF ~Is("obj", r) THEN Err
    ELSE IF ~OneKey(r.obj) \/ ~(DOMAIN r.obj \subseteq Names(variants)) THEN Err
    ELSE LET tag == KeyOf(r.obj)
             sv  == Named(variants, tag)
             Of(v) == Ok(Iface(VariantT, [tag |-> tag, val |-> v]))
         IN  IF sv.type = Unit THEN Of(NilIface) ELSE Then(DecodeField(sv, r.obj[tag]), Of)

DecodeField(sf, r) ==
    CASE sf.type.base = "list"     -> DecodeList(sf.type.elem, sf.fields, r)
      [] sf.type.base = "optional" -> DecodeOptional(sf.type.elem, sf.fields, r)
      [] sf.type.base = "array"    -> DecodeArray(sf.type, sf.fields, r)
      [] sf.type.base = "map"      -> DecodeMap(sf.type.elem, sf.fields, r)
      [] sf.type.base = "enum"     ->
           Then(StringFromJSON(r), LAMBDA s : Ok(Iface(<<"string">>, s)))
      [] sf.type.base = "sum"      -> DecodeSum(sf.variants, r)
      [] OTHER                     -> DecodeScalar(sf.type, sf.fields, r)

-----------------------------------------------------------------------------
(* FieldMap to wire JSON.                                                   *)

RECURSIVE EncodeField(_, _)
\* The schema's fields that the map has.
EncodeFieldMap(fm, schema) ==
    AllOk([k \in DOMAIN fm \cap Names(schema) |-> EncodeField(Named(schema, k), fm[k])])

\* Small integers, booleans and strings go out as they are; every other kind
\* must be stored as its own Go type.  A nil *big.Int is written as 0.
EncodeScalar(type, fields, v) ==
    CASE type.base \in SmallInts \cup {"bool", "string"} ->
           Ok(IF Is("num", v.x) THEN [flt |-> [whole |-> v.x.num]] ELSE v.x)
      [] type.base \in ExactInts ->
           IF v.t # GoScalar(type.base) THEN Err
           ELSE Ok([dec |-> IF v.x = Nil THEN 0 ELSE v.x.num])
      [] type.base \in Floats ->
           IF v.t # GoScalar(type.base) THEN Err
           ELSE Ok([fhex |-> v.x.flt, n |-> FloatLen(type.base)])
      [] type.base = "bytes" ->
           IF v.t # BytesT THEN Err
           ELSE Ok([hex |-> [i \in DOMAIN v.x.list |-> v.x.list[i].num], up |-> FALSE])
      [] type.base = "struct" ->
           IF v.t # FieldMapT THEN Err
           ELSE Then(EncodeFieldMap(v.x.fm, fields), LAMBDA vs : Ok([obj |-> vs]))
      [] OTHER -> Err

EncodeList(elem, fields, v) ==
    IF elem.base \notin Scalars \cup {"struct"} THEN Err
    ELSE IF v.t # SliceOf(GoScalar(elem.base)) THEN Err
    ELSE Then(AllOk([i \in DOMAIN v.x.list |->
                       EncodeScalar(elem, fields, Iface(GoScalar(elem.base), v.x.list[i]))]),
              LAMBDA vs : Ok([list |-> vs]))

\* A nil interface is null; a typed nil is not one.
EncodeOptional(elem, fields, v) ==
    IF v = NilIface THEN Ok(Nil)
    ELSE IF elem.base = "string" /\ v.t # <<"string">> THEN Err
    ELSE EncodeScalar(elem, fields, v)

EncodeMap(elem, fields, v) ==
    IF v.t # MapT THEN Err
    ELSE Then(AllOk([k \in DOMAIN v.x.map |-> EncodeScalar(elem, fields, v.x.map[k])]),
              LAMBDA vs : Ok([obj |-> vs]))

EncodeVariant(variants, v) ==
    IF v.t # VariantT THEN Err
    ELSE IF v.x.tag \notin Names(variants) THEN Err
    ELSE LET sv == Named(variants, v.x.tag)
         IN  IF sv.type = Unit THEN Ok(Tagged(v.x.tag, Nil))
             ELSE Then(EncodeField(sv, v.x.val), LAMBDA e : Ok(Tagged(v.x.tag, e)))

EncodeField(sf, v) ==
    CASE sf.type.base \in {"list", "array"} -> EncodeList(sf.type.elem, sf.fields, v)
      [] sf.type.base = "optional" -> EncodeOptional(sf.type.elem, sf.fields, v)
      [] sf.type.base = "enum"     -> IF v.t = <<"string">> THEN Ok(v.x) ELSE Err
      [] sf.type.base = "sum"      -> EncodeVariant(sf.variants, v)
      [] sf.type.base = "map"      -> EncodeMap(sf.type.elem, sf.fields, v)
      [] OTHER                     -> EncodeScalar(sf.type, sf.fields, v)

-----------------------------------------------------------------------------
(* The reflective bridge.  A struct type is [fs |-> <<[key, g], ...>>] or    *)
(* [whole |-> TRUE], a type with a converter from and to a whole FieldMap;   *)
(* the type g of a struct field is one of                                   *)
(*   [g |-> "val", t]      a scalar, a slice of scalars, []byte, *big.Int    *)
(*   [g |-> "conv", t]     a type with a converter; t is its carrier         *)
(*   [g |-> "struct", m], [g |-> "embed", m], [g |-> "slice", e] of structs, *)
(*   [g |-> "array", n, e], [g |-> "map", e], [g |-> "ptr", e]               *)
(* and a struct value [st |-> <<x, ...>>] holds one x per field.            *)

RECURSIVE Zero(_)
Zero(g) ==
    CASE g.g \in {"struct", "embed"} ->
           [st |-> [i \in DOMAIN g.m.fs |-> Zero(g.m.fs[i].g)]]
      [] g.g = "array"               -> [list |-> [i \in 1 .. g.n |-> Zero(g.e)]]
      [] g.g = "slice"               -> [list |-> <<>>]
      [] g.g = "map"                 -> [map |-> <<>>]
      [] g.g = "ptr"                 -> Nil
      [] g.g = "conv"                -> [tag |-> "", val |-> NilIface]
      [] OTHER ->
           CASE g.t[1] = "[]"               -> [list |-> <<>>]
             [] g.t[1] = "*"                -> Nil
             [] g.t[1] \in Floats           -> [flt |-> [whole |-> 0]]
             [] g.t[1] = "bool"             -> [bool |-> FALSE]
             [] g.t[1] = "string"           -> [text |-> ""]
             [] OTHER                       -> [num |-> 0]

\* getTyped and the accessors built on it: the dynamic type must be T.
GetTyped(fm, key, t) == IF fm[key].t = t THEN Ok(fm[key].x) ELSE Err

IntegerTypes == {<<b>> : b \in SmallInts \cup {"uint64", "int64", "int"}}

NumberTypes == IntegerTypes \cup {<<b>> : b \in Floats}

\* reflect's ConvertibleTo between different types, for numbers and strings: any
\* number to any number, and an integer to the string of that rune.
Convertible(from, to) ==
    \/ from \in NumberTypes /\ to \in NumberTypes
    \/ from \in IntegerTypes /\ to = <<"string">>

\* reflect's Convert.
Converted(x, to) ==
    IF to = <<"string">> THEN [text |-> "rune"]
    ELSE IF to[1] \in Floats
    THEN [flt |-> FloatOf(to[1], IF Is("flt", x) THEN x.flt ELSE [whole |-> x.num])]
    ELSE [num |-> Wrap(to[1], IF Is("flt", x) THEN Truncated(x.flt) ELSE x.num)]

RECURSIVE Fill(_, _)
\* One element of a Go array: an element that is no FieldMap leaves a struct
\* zero, a number is converted.
SetArrayElem(e, v) ==
    CASE e.g = "struct" -> IF v.t = FieldMapT THEN Fill(e.m, v.x.fm) ELSE Ok(Zero(e))
      [] e.g = "val"    -> IF v.t = e.t THEN Ok(v.x)
                           ELSE IF Convertible(v.t, e.t)
                           THEN Ok(Converted(v.x, e.t)) ELSE Err

FillArray(g, v) ==
    IF v.t[1] # "[]" THEN Err
    ELSE IF Len(v.x.list) # g.n THEN Err
    ELSE Then(AllOk([i \in 1 .. g.n |-> SetArrayElem(g.e, Iface(Tail(v.t), v.x.list[i]))]),
              LAMBDA xs : Ok([list |-> xs]))

\* Entries that are no FieldMap, or cannot be converted, are left out.
FillMap(g, v) ==
    LET Keeps(w) == IF g.e.g = "struct" THEN w.t = FieldMapT
                    ELSE w.t = g.e.t \/ Convertible(w.t, g.e.t)
        kept == {k \in DOMAIN v.x.map : Keeps(v.x.map[k])}
    IN  Then(AllOk([k \in kept |-> SetArrayElem(g.e, v.x.map[k])]),
             LAMBDA xs : Ok([map |-> xs]))

\* optional<T>: nil, a nested struct, or the value itself.
FillPointer(e, v) ==
    IF v = NilIface THEN Ok(Nil)
    ELSE IF e.g = "struct" THEN IF v.t = FieldMapT THEN Fill(e.m, v.x.fm) ELSE Err
    ELSE IF v.t = e.t THEN Ok(v.x) ELSE Err

FillField(g, fm, key) ==
    CASE g.g \in {"val", "conv"} -> GetTyped(fm, key, g.t)
      [] g.g = "struct" -> IF fm[key].t = FieldMapT THEN Fill(g.m, fm[key].x.fm) ELSE Err
      [] g.g = "array"  -> FillArray(g, fm[key])
      [] g.g = "slice"  ->
           IF fm[key].t # SliceOf(FieldMapT) THEN Err
           ELSE Then(AllOk([i \in DOMAIN fm[key].x.list |->
                              Fill(g.e.m, fm[key].x.list[i].fm)]),
                     LAMBDA xs : Ok([list |-> xs]))
      [] g.g = "map"    -> IF fm[key].t = MapT THEN FillMap(g, fm[key]) ELSE Err
      [] g.g = "ptr"    -> FillPointer(g.e, fm[key])

\* A missing key leaves its field zero; an embedded struct is filled from the
\* same map.
Fill(m, fm) ==
    IF "whole" \in DOMAIN m THEN Ok([fm |-> fm])
    ELSE Then(AllOk([i \in DOMAIN m.fs |->
                       LET g == m.fs[i].g
                       IN  IF g.g = "embed" THEN Fill(g.m, fm)
                           ELSE IF m.fs[i].key \notin DOMAIN fm THEN Ok(Zero(g))
                           ELSE FillField(g, fm, m.fs[i].key)]),
              LAMBDA xs : Ok([st |-> xs]))

RECURSIVE Extract(_, _)
\* Structs become FieldMaps wherever they occur; converters give their
\* carrier back; a nil pointer is a nil interface.
ExtractField(g, x) ==
    CASE g.g \in {"val", "conv"} -> Iface(g.t, x)
      [] g.g = "struct" -> Iface(FieldMapT, [fm |-> Extract(g.m, x)])
      [] g.g \in {"array", "slice"} ->
           IF g.e.g = "struct"
           THEN Iface(SliceOf(FieldMapT),
                      [list |-> [i \in DOMAIN x.list |-> [fm |-> Extract(g.e.m, x.list[i])]]])
           ELSE Iface(SliceOf(g.e.t), x)
      [] g.g = "map" ->
           Iface(MapT, [map |-> [k \in DOMAIN x.map |->
                                   IF g.e.g = "struct"
                                   THEN Iface(FieldMapT, [fm |-> Extract(g.e.m, x.map[k])])
                                   ELSE Iface(g.e.t, x.map[k])]])
      [] g.g = "ptr" ->
           IF x = Nil THEN NilIface
           ELSE IF g.e.g = "struct" THEN Iface(FieldMapT, [fm |-> Extract(g.e.m, x)])
           ELSE Iface(g.e.t, x)

\* Every field is written, the nil and the zero ones too.
Extract(m, v) ==
    IF "whole" \in DOMAIN m THEN v.fm
    ELSE LET Of(i) == LET f == m.fs[i]
                      IN  IF f.g.g = "embed" THEN Extract(f.g.m, v.st[i])
                          ELSE [k \in {f.key} |-> ExtractField(f.g, v.st[i])]
             maps  == [i \in DOMAIN m.fs |-> Of(i)]
         IN  FoldLeft(LAMBDA acc, f : f @@ acc, <<>>, maps)
=============================================================================
