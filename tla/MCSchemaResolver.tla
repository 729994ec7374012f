--------------------------- MODULE MCSchemaResolver ---------------------------
(* All type files over a few names with at most two references each. *)
EXTENDS SchemaResolver

Short(S) == {<<>>} \cup {<<r>> : r \in S} \cup {<<r, s>> : r, s \in S}
Declarations ==
    [kind : {"struct", "sum"}, refs : Short(Refs)]
    \cup [kind : {"transparent"}, refs : {s \in Short(Refs) : Len(s) <= 1}]
    \cup [kind : {"broken"}, refs : {<<>>}]
Importing(d, imports) == [kind |-> d.kind, imports |-> imports, refs |-> d.refs]

\* Every file imports what it names.
Named(refs) == SelectSeq(refs, LAMBDA r : r \in Names)
SmallSuites == [Names -> {Importing(d, Named(d.refs)) : d \in Declarations}]

\* a and b may import more or less than they name; c is a record of scalars.
Lists == {s \in Short(Names) : Len(s) = 2 => s[1] # s[2]}
Declared == {d \in Declarations : "nowhere" \notin Items(d.refs)}
Leaf == [kind |-> "struct", imports |-> <<>>, refs |-> <<>>]
MixedSuites ==
    {[n \in Names |-> IF n = "c" THEN Leaf ELSE s[n]] :
        s \in [{"a", "b"} -> {Importing(d, imports) : d \in Declared, imports \in Lists}]}

AllSuites == SmallSuites \cup MixedSuites

RootAB == <<"a", "b">>
=============================================================================
