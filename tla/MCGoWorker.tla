------------------------------ MODULE MCGoWorker ------------------------------
(* A Suite with a serializer-only and a string pair, and an unknown format. *)
EXTENDS GoWorker

BothWays == {<<"T", "bin">>, <<"T", "txt">>, <<"U", "bin">>}
NotTSer == {<<"T", "bin">>, <<"T", "txt">>}
NotUDes == {<<"T", "bin">>, <<"U", "bin">>}
TextPairs == {<<"T", "txt">>}

\* Shapes the probes know, n holding a NaN, and the [][]byte of a list<bytes>.
KnownShapes == [f |-> <<"variant", "struct", "map", "bytes">>, g |-> <<"structs", "strings">>,
                n |-> <<"structs", "map", "number">>]
BlobShapes == [f |-> <<"blobs">>, g |-> <<"bytes">>]

Does(fails, out, mutates, shares) ==
    [fails |-> fails, out |-> out, mutates |-> mutates, shares |-> shares, reuses |-> FALSE]
FewSerCalls == {Does(TRUE, "x", {}, {}), Does(FALSE, "x", {}, {}), Does(FALSE, "empty", {}, {}),
                Does(FALSE, "x", {"f"}, {"g"}), Does(FALSE, "y", {"g"}, {"f", "g"}),
                Does(FALSE, "x", {"n"} \cap Fields, {}),
                [Does(FALSE, "y", {}, {}) EXCEPT !.reuses = TRUE],
                [Does(TRUE, "y", {}, {}) EXCEPT !.reuses = TRUE]}
AllDesCalls == {c \in DesCall : /\ c.shares \subseteq {"f", "g"}
                                /\ c.empty => c.shares = {} /\ ~c.mutates}
=============================================================================
