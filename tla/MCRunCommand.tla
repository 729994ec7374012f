----------------------------- MODULE MCRunCommand -----------------------------
(* Command lines for RunCommand, each set around one part of the input.       *)
EXTENDS RunCommand

MCLangs == {"go", "rust"}

MCFlags == [valid |-> TRUE, ref |-> "go", buildOnly |-> FALSE, noBuild |-> FALSE, csv |-> FALSE,
            table |-> TRUE]

MCFormat(name, oracle) == [name |-> name, oracle |-> oracle]

MCFile(name, formats, cases) == [name |-> name, ok |-> TRUE, formats |-> formats, cases |-> cases]

MCBinary == MCFormat(<<"bin">>, "bytes")

MCTwoCases == <<MCFile("T", <<MCBinary>>, <<<<"a">>, <<"b">>>>)>>

MCTwoTypes == <<MCFile("T", <<MCBinary>>, <<<<"a">>>>), MCFile("R", <<>>, <<>>),
                MCFile("U", <<MCFormat(<<"json">>, "semantic")>>, <<<<"a">>>>)>>

MCSameName == <<MCFile("T", <<MCBinary>>, <<<<"a">>, <<"a">>>>)>>

MCSlashes == <<MCFile("T", <<MCFormat(<<"x">>, "bytes"), MCFormat(<<"x", "y">>, "bytes")>>,
                      <<<<"y", "z">>, <<"z">>>>)>>

MCBadFiles ==
    {<<>>, <<MCFile("T", <<>>, <<>>)>>, <<MCFile("T", <<>>, <<<<"a">>>>)>>,
     <<MCFile("T", <<MCFormat(<<"bin">>, "")>>, <<<<"a">>>>)>>,
     <<MCFile("T", <<MCBinary>>, <<<<>>>>)>>,
     MCTwoCases \o <<[MCFile("U", <<MCBinary>>, <<>>) EXCEPT !.ok = FALSE]>>}

MCDir(l) == [markers |-> {l}, manifest |-> TRUE, builds |-> TRUE, starts |-> TRUE]

MCDirs == <<MCDir("go"), MCDir("rust")>>

MCOddDirs ==
    {<<MCDir("rust"), MCDir("go")>>, <<MCDir("go")>>, <<MCDir("rust")>>,
     <<MCDir("go"), MCDir("go")>>,
     <<[MCDir("go") EXCEPT !.markers = {}]>>, <<[MCDir("go") EXCEPT !.markers = MCLangs]>>,
     <<MCDir("go"), [MCDir("rust") EXCEPT !.manifest = FALSE]>>,
     <<MCDir("go"), [MCDir("rust") EXCEPT !.builds = FALSE]>>,
     <<MCDir("go"), [MCDir("rust") EXCEPT !.starts = FALSE]>>}

MCKnown == {[ok |-> TRUE, ids |-> {}], [ok |-> FALSE, ids |-> {}],
            [ok |-> TRUE, ids |-> {<<"T", "bin", "a">>}]}

MCSkips(ts, os) == [ok |-> TRUE, types |-> ts, ops |-> os]

MCSkipFiles == {MCSkips({}, {}), [MCSkips({}, {}) EXCEPT !.ok = FALSE],
                MCSkips({"T"}, {}), MCSkips({}, {<<"deserialize", "T">>}),
                MCSkips({"T"}, {<<"deserialize", "U">>})}

MCInput(flags, files, config, dirs, known, enforce, skips) ==
    [flags |-> flags, files |-> files, config |-> config, dirs |-> dirs,
     known |-> [l \in MCLangs |-> IF l = "rust" THEN known ELSE [ok |-> TRUE, ids |-> {}]],
     enforce |-> enforce,
     skips |-> [l \in MCLangs |-> IF l = "rust" THEN skips ELSE MCSkips({"T"}, {})]]

MCConfig == [ok |-> TRUE, ref |-> ""]

MCNoKnown == [ok |-> TRUE, ids |-> {}]

MCInputs ==
    {MCInput(MCFlags, MCTwoCases, MCConfig, MCDirs, k, s[1], s[2]) :
        k \in MCKnown, s \in BOOLEAN \X {MCSkips({}, {})}}
      \cup {MCInput(MCFlags, MCTwoCases, MCConfig, MCDirs, MCNoKnown, TRUE, s) : s \in MCSkipFiles}
      \cup {MCInput([MCFlags EXCEPT !.csv = c, !.table = ~c], MCTwoTypes, MCConfig, MCDirs, MCNoKnown,
                    TRUE, s) :
              c \in BOOLEAN, s \in {MCSkips({}, {}), MCSkips({"T"}, {<<"deserialize", "U">>})}}
      \cup {MCInput([MCFlags EXCEPT !.csv = TRUE, !.table = FALSE], MCSameName, MCConfig, MCDirs,
                    MCNoKnown, FALSE, MCSkips({}, {}))}
      \cup {MCInput(MCFlags, MCSlashes, MCConfig, <<MCDir("go")>>, MCNoKnown, TRUE, MCSkips({}, {}))}
      \cup {MCInput(MCFlags, f, MCConfig, MCDirs, MCNoKnown, TRUE, MCSkips({}, {})) : f \in MCBadFiles}
      \cup {MCInput([MCFlags EXCEPT !.noBuild = n, !.buildOnly = b], MCTwoTypes, MCConfig, d, MCNoKnown,
                    FALSE, MCSkips({}, {})) : n \in BOOLEAN, b \in BOOLEAN, d \in MCOddDirs}
      \cup {MCInput([MCFlags EXCEPT !.valid = v, !.ref = r, !.buildOnly = b], MCTwoTypes,
                    [ok |-> o, ref |-> cr], MCDirs, MCNoKnown, FALSE, MCSkips({}, {})) :
              v \in BOOLEAN, r \in {"", "rust"}, b \in BOOLEAN, o \in BOOLEAN, cr \in {"", "go"}}
=============================================================================
