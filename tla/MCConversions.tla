--------------------------- MODULE MCConversions ---------------------------
(***************************************************************************)
(* Inputs for Conversions: expression trees of depth three over a few      *)
(* leaves and of depth two over all kinds of values, every text of at most *)
(* MaxTokens tokens, jobs of two steps that write at most three entries to *)
(* $GITHUB_ENV, answers with at most three fields, answers with at most    *)
(* two cut at every byte, batches of at most two rows or steps.            *)
(***************************************************************************)
EXTENDS Conversions

-----------------------------------------------------------------------------
(* Expressions *)

Texts == {"", "true", "false", "0", "1", "2", "A", "a", "env", "contains", "success", "none"}
Lower == [t \in Texts |-> IF t = "A" THEN "a" ELSE t]
Parsable == [t \in Texts |-> CASE t = "0" -> 0 [] t = "1" -> 1 [] t = "2" -> 2 [] OTHER -> NaN]
Digit == (0 :> "0") @@ (1 :> "1") @@ (2 :> "2")
Prefix == {<<t, "">> : t \in Texts} \cup {<<t, t>> : t \in Texts}
Inside == [f \in {"contains", "startswith", "endswith"} |-> Prefix]
Known == (<<"env", "a">> :> String("A")) @@ (<<"env", "1">> :> Number(2))

Lit(type, v) == [op |-> "lit", tok |-> [type |-> type, v |-> v, text |-> "1"]]
Ref(path) == [op |-> "ref", path |-> path]
Tree(op, args) == [op |-> op, args |-> args]
Call(f, args) == [op |-> "call", path |-> <<f>>, args |-> args]

FewLeaves == {Lit("LitNumber", Number(0)), Lit("LitString", String("a")), Ref(<<"env", "a">>)}
Leaves == FewLeaves \cup
  {Lit("LitNull", Null), Lit("LitBool", Boolean(TRUE)), Lit("LitBool", Boolean(FALSE)),
   Lit("LitNumber", Number(1)), Lit("LitString", String("1")), Lit("LitString", String("")),
   Ref(<<"env", "A">>), Ref(<<"none">>), Call("success", <<>>)}

Grown(trees, binary) ==
  trees \cup {Tree("not", <<e>>) : e \in trees}
        \cup {Tree(op, <<l, r>>) : op \in binary, l, r \in trees}
        \cup {Call("contains", <<l, r>>) : l, r \in trees}

SmallTrees == Grown(Leaves, {"and", "or"} \cup Compare)
              \cup Grown(Grown(FewLeaves, {"or", "and", "OpEq"}), {"and", "or", "OpLt"})

TokenKinds ==
  {[type |-> "Identifier", text |-> "contains"], [type |-> "LitNumber", text |-> "1", v |-> Number(1)],
   Tok("LParen"), Tok("RParen"), Tok("Comma"), Tok("Dot"), Tok("OpOr"), Tok("OpNot")}

-----------------------------------------------------------------------------
(* Files *)

Pair(key, value, crlf, bare) ==
  [form |-> "pair", key |-> <<key>>, value |-> <<value>>, delimiter |-> <<>>,
   crlf |-> crlf, bare |-> bare]
Heredoc(key, value, delimiter, crlf, bare) ==
  [form |-> "heredoc", key |-> <<key>>, value |-> value, delimiter |-> delimiter,
   crlf |-> crlf, bare |-> bare]
Directory(value, crlf, bare) ==
  [form |-> "path", value |-> <<value>>, crlf |-> crlf, bare |-> bare]

EntryKinds ==
  {Pair("A", <<"x">>, FALSE, FALSE), Pair("A", <<>>, TRUE, FALSE),
   Pair("B", <<"x", "=", "y">>, FALSE, FALSE), Pair("A", <<"x", "<<", "y">>, FALSE, FALSE),
   Pair("A", <<"y">>, FALSE, TRUE),
   Heredoc("A", <<>>, <<"E">>, FALSE, FALSE),
   Heredoc("B", << <<"A", "=", "y">>, <<>> >>, <<"E", "=">>, TRUE, FALSE),
   Heredoc("B", << <<>>, <<"x", "<<", "E">> >>, <<"E">>, FALSE, FALSE),
   Heredoc("A", << <<"E">> >>, <<"E">>, FALSE, FALSE),
   Heredoc("B", << <<"y">> >>, <<"E">>, TRUE, TRUE)}
DirectoryKinds ==
  {Directory(<<>>, FALSE, FALSE), Directory(<<"p">>, FALSE, FALSE),
   Directory(<<"q">>, TRUE, FALSE), Directory(<<"q">>, FALSE, TRUE)}

Listed(set, n) == UNION {[1..k -> set] : k \in 0..n}
Wrote(output, env, path) == [output |-> output, env |-> env, path |-> path]

StepPairs ==
  {<<Wrote(<<>>, e, <<>>), Wrote(<<>>, f, <<>>)>> :
     e \in Listed(EntryKinds, 2), f \in Listed(EntryKinds, 1)}
  \cup {<<Wrote(e, f, <<>>), Wrote(f, e, <<>>)>> :
           e \in Listed(EntryKinds, 1), f \in Listed(EntryKinds, 2)}
  \cup {<<Wrote(<<>>, <<>>, p), Wrote(<<>>, <<>>, q)>> :
           p, q \in Listed(DirectoryKinds, 2)}

-----------------------------------------------------------------------------
(* Messages *)

Num(n, v) == [n |-> n, wire |-> VARINT, raw |-> Unsigned(v), means |-> v]
Bin(n, raw, means) == [n |-> n, wire |-> BYTES, raw |-> raw, means |-> means]
Str(n, s) == Bin(n, s, s)
Msg(n, fields, means) == Bin(n, WireMessage(fields), means)
Fixed64 == [n |-> 20, wire |-> FIXED64, raw |-> <<1, 2, 3, 4, 5, 6, 7, 8>>, means |-> 0]
Fixed32 == [n |-> 9, wire |-> FIXED32, raw |-> <<9, 18, 27, 36>>, means |-> 0]
Unknown == {Fixed64, Fixed32, Num(8, 300), Str(10, <<8, 5>>)}

Output == Msg(1, <<Str(2, <<66>>), Str(1, <<65>>)>>, 0)
Need == Msg(6, <<Str(1, <<74>>), Msg(2, <<Output, Num(2, 2)>>, 0)>>,
            << <<74>>, [outputs |-> << << <<65>>, <<66>> >> >>, result |-> 2]>>)
ContextField ==
  Msg(3, <<Msg(1, <<Str(1, <<65>>), Msg(2, <<Str(3, <<66>>)>>, 0)>>, 0),
           Msg(1, <<Str(1, <<67>>), Msg(2, <<Num(4, 1)>>, 0)>>, 0)>>,
      << << <<65>>, <<66>> >>, << <<67>>, <<>> >> >>)

TaskFields ==
  Unknown \cup
  {Num(1, 1), Num(1, 300), Num(1, -1), Str(2, [k \in 1..130 |-> 8]), Str(2, <<>>), ContextField,
   Msg(4, <<Str(1, <<65>>), Str(2, <<>>)>>, << <<65>>, <<>> >>), Str(5, <<77>>), Need,
   Msg(7, <<Str(1, <<65>>), Num(3, 1), Str(2, <<66>>)>>, << <<65>>, <<66>> >>)}

Delivery == {<<"ok", 200>>, <<"ok", 500>>, <<"timeout", 0>>, <<"error", 0>>}
Poll(fields, before, after, d, cut) ==
  [rpc |-> "FetchTask", fields |-> fields, before |-> before, after |-> after,
   curl |-> d[1], code |-> d[2], cut |-> cut]
\* Cut at every byte of the task and of what surrounds it.
CutPolls ==
  UNION {LET bytes == WireMessage(b) \o Embedded(1, <<Num(1, 300), x>>) \o WireMessage(a)
         IN  {Poll(<<Num(1, 300), x>>, b, a, <<"ok", 200>>, c) : c \in 1..Len(bytes)} :
           x \in TaskFields, b, a \in {<<>>, <<Num(2, 129)>>}}
Polls ==
  {Poll(f, <<>>, <<Num(2, 7)>>, <<"ok", 200>>, 0) : f \in Listed(TaskFields, 3)}
  \cup {Poll(f, <<x, Num(2, -1)>>, <<y>>, d, 0) :
          f \in Listed(TaskFields, 1), x, y \in Unknown, d \in Delivery}
AnAnswer(rpc, f, d, cut) ==
  [rpc |-> rpc, fields |-> f, curl |-> d[1], code |-> d[2], cut |-> cut,
   id |-> 5, index |-> 4, rows |-> <<0, 0>>]
Answers(rpc, lists) ==
  {AnAnswer(rpc, f, d, 0) : f \in lists, d \in Delivery}
  \cup UNION {{AnAnswer(rpc, f, <<"ok", 200>>, c) : c \in 1..Len(Embedded(1, f))} : f \in lists}
RunnerFields == {Num(1, 3), Str(2, <<85>>), Str(3, <<84>>), Str(4, <<78>>), Str(9, <<76>>),
                 Str(9, [k \in 1..124 |-> 77]), Num(8, 128)}
StateFields == {Num(1, 300), [Num(2, 1) EXCEPT !.means = "success"],
                [Num(2, 4) EXCEPT !.means = "skipped"], [Num(2, 0) EXCEPT !.means = "unknown"]}
                \cup Unknown
ServerSays ==
  CutPolls \cup Polls \cup Answers("Register", Listed(RunnerFields, 2))
  \cup Answers("Declare", Listed(RunnerFields, 1))
  \cup Answers("Ping", Listed({Str(1, <<65>>), Str(1, <<>>)} \cup Unknown, 2))
  \cup Answers("UpdateTask", Listed(StateFields, 2))
  \cup Answers("UpdateLog", Listed({Num(1, 6), Num(1, 128)} \cup Unknown, 2))

Rows == [secs : {0, 300}, nanos : {0, 5}, content : {<<>>, <<65, 66>>}]
Steps == [id : {0, 128}, result : {1, 2}, started : {0, 300}, stopped : {300},
          index : {0, 127}, length : {0, 1}]
Outputs == {<< <<65>>, <<>> >>, << <<>>, <<66>> >>}
Labels == Listed({<<>>, <<76>>, [k \in 1..128 |-> 76]}, 2)

RunnerSays ==
  [rpc : {"UpdateLog"}, id : {1, -1}, index : {0, 127, 128}, rows : Listed(Rows, 2),
   no_more : BOOLEAN]
  \cup [rpc : {"UpdateTask"}, id : {300}, result : {0, 3}, steps : Listed(Steps, 2),
        started : {300}, stopped : {0}, outputs : {<<>>}]
  \cup [rpc : {"UpdateTask"}, id : {1}, result : {1}, steps : Listed(Steps, 1),
        started : {0, 127}, stopped : {0, 300}, outputs : Listed(Outputs, 2)]
  \cup [rpc : {"Declare"}, version : {<<49>>, <<>>}, labels : Labels]
  \cup [rpc : {"Register"}, token : {<<84>>, <<>>}, name : {<<78>>}, version : {<<49>>}, labels : Labels]
  \cup [rpc : {"Ping"}, data : {<<>>, <<65>>}]
  \cup [rpc : {"FetchTask"}, version : {0, 1, 127, 128, 16383, 16384, 2097152, -1}]
=============================================================================
