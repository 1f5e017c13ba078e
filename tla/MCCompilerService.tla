------------------------- MODULE MCCompilerService -------------------------
(***************************************************************************)
(* Instances of CompilerService for TLC.                                   *)
(***************************************************************************)
EXTENDS CompilerService, TLC

MCContains ==
  "python" :> {"py"} @@ "js" :> {"js"} @@ "go" :> {"go"} @@ "cpp" :> {"c"}
  @@ "javascript" :> {"c"} @@ "node.js" :> {"js"} @@ "c++" :> {"c"}
  @@ "pypy-c" :> {"py", "c"} @@ "cargo" :> {"go", "c"} @@ "rust" :> {}

MCNames == DOMAIN MCContains

Plain == [base64 |-> TRUE, length |-> 20, matches |-> {}]

MCCodes ==
  {[Plain EXCEPT !.base64 = FALSE], [Plain EXCEPT !.length = MaxCodeLength + 1]}
  \cup {[Plain EXCEPT !.length = MaxCodeLength]}
  \cup {[Plain EXCEPT !.matches = {<<"common", "forkBombs">>}],
        [Plain EXCEPT !.matches = {<<"js", "dangerousModules">>}],
        [Plain EXCEPT !.matches = {<<"cpp", "dangerousOperations">>}],
        [Plain EXCEPT !.matches = {<<"python", "dangerousModules">>, <<"go", "infiniteLoops">>}]}

\* "OK 53" and "ERR", each with a line feed.
MCLines == {<<79, 75, 32, 53, 51, 10>>, <<69, 82, 82, 10>>}
MCLengths == {0, 2, MaxResponse, MaxResponse + 1}

\* Every place in the line and in the length, and the ends of the texts.
MCCuts == 1..12 \cup {10 + n : n \in MCLengths}

=============================================================================
