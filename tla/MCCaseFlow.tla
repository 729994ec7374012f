----------------------------- MODULE MCCaseFlow -----------------------------
(* Cases of two fields: "a" of every type below, "b" a small integer.        *)
EXTENDS CaseFlow

MCNested == Struct(<<Field("x", Scalar("uint8")), Field("y", Elem("optional", Scalar("string"))),
                     Field("e", Enum({"on", "off"}))>>)

MCPoint == Struct(<<Field("x", Scalar("uint8"))>>)

MCSum == Sum(<<Field("none", Unit), Field("some", Scalar("uint64")),
               Field("many", Elem("list", Scalar("uint8")))>>)

MCTypes ==
    {Scalar(b) : b \in Scalars}
      \cup {Enum({"on", "off"}), MCSum, MCNested}
      \cup {Elem("list", t) : t \in {Scalar("uint8"), Scalar("uint128"), Scalar("bytes"),
                                     Scalar("float64"), MCPoint, Enum({"on"})}}
      \cup {Elem("optional", t) : t \in {Scalar("uint8"), Scalar("uint128"), Scalar("string"),
                                         Scalar("bytes"), MCPoint}}
      \cup {Elem("map", t) : t \in {Scalar("uint8"), Scalar("int64"), MCPoint,
                                    Elem("list", Scalar("uint8"))}}
      \cup {ArrayOf(Scalar("uint8"), 2), ArrayOf(MCPoint, 1)}

\* Numbers on both sides of every width's bounds.
MCInts == {-1, 0, 1} \cup UNION {{2^(b-1) - 1, 2^(b-1), 2^b - 1, 2^b} :
                                   b \in {ByteBits, Bits64, Bits128, Exp64}}

\* Halves that float32 rounds, that rounding twice moves to the farther side,
\* that float64 rounds too, past float32 on both sides and past float64.
MCFloats ==
    {[frac |-> n] : n \in {1, 2, 4, 10, -3}} \cup {[inf |-> s] : s \in {1, -1}}
      \cup {[whole |-> n] : n \in {2^Exp32, -2^Exp32, 2^Exp64}} \cup {[nan |-> "quiet"]}

MCScalarNodes ==
    {[int |-> n] : n \in MCInts}
      \cup {[quoted |-> 1], [quoted |-> 2^Bits128]}
      \cup {[text |-> "on"], [text |-> "none"], [text |-> "some"]}
      \cup {[float |-> f] : f \in MCFloats}
      \cup {[bool |-> TRUE], Nil}
      \cup {[hex |-> <<1, 0>>, up |-> u] : u \in BOOLEAN}

\* Texts are given to bytes fields only as something that is no hex.
MCContainerNodes(elems) ==
    {[seq |-> s] : s \in {<<>>, <<[int |-> 1], [int |-> 1]>>} \cup {<<e>> : e \in elems}}
      \cup {[mapping |-> <<>>]}
      \cup {[mapping |-> [k \in {t} |-> e]] : t \in {"x", "some", "none"}, e \in elems}

MCElems == {[int |-> 1], [int |-> 2^ByteBits], [quoted |-> 1], Nil, [float |-> [nan |-> "quiet"]],
            [hex |-> <<1>>, up |-> FALSE], [text |-> "on"]}

MCPoints == {[mapping |-> [k \in {"x"} |-> e]] : e \in MCElems}
              \cup {[mapping |-> <<>>], [mapping |-> [k \in {"x", "zz"} |-> [int |-> 1]]]}

MCNestedNodes ==
    {[mapping |-> [x |-> x, y |-> y, e |-> e]] :
        x \in {[int |-> 1], [int |-> 2^ByteBits], [quoted |-> 1]},
        y \in {Nil, [text |-> "on"], [int |-> 1]},
        e \in {[text |-> "on"], [text |-> "none"], Nil}}
      \cup {[mapping |-> [x |-> [int |-> 1], e |-> [text |-> "on"], zz |-> [int |-> 1]]]}

MCNodes ==
    MCScalarNodes \cup MCContainerNodes(MCElems) \cup MCNestedNodes
      \cup {[seq |-> s] : s \in {<<p>> : p \in MCPoints}}
      \cup {[mapping |-> [k \in {"k"} |-> e]] : e \in MCPoints \cup MCElems}
      \cup {[mapping |-> [k \in {"k"} |-> [seq |-> <<[int |-> 1]>>]]],
            [mapping |-> [k \in {"many"} |-> [seq |-> <<[int |-> 1]>>]]]}
      \cup MCPoints

MCSecond == {<<>>, [b |-> [int |-> 1]], [b |-> Nil], [zz |-> [int |-> 1]]}

MCCases ==
    {[schema |-> <<Field("a", t), Field("b", Scalar("uint8"))>>, raw |-> r] :
        t \in MCTypes,
        r \in {[a |-> n, b |-> [int |-> 1]] : n \in MCNodes}
                \cup {s @@ [a |-> [int |-> 1]] : s \in MCSecond}
                \cup {[b |-> [int |-> 1]]}}

MCStyles == {"fieldmap", "exact", "embedded", "whole", "missing", "misfit"}
=============================================================================
