--------------------------- MODULE ExprEvaluator ---------------------------
(***************************************************************************)
(* The expression language of `${{ }}` and if: (src/src/workflow/          *)
(* ExprEvaluator.cpp): values and their loose comparison, and the          *)
(* recursive-descent parser, which evaluates while it parses. It reads     *)
(* tokens; the characters they are made of are left out, and what the code *)
(* asks of a string (its lower case, the number it starts with, whether it *)
(* contains another one) is given by tables.                               *)
(***************************************************************************)
EXTENDS Integers, Sequences, SequencesExt

CONSTANTS
  NaN,        \* what a string that is no number converts to
  Text,       \* the strings
  LowerOf,    \* [Text -> Text], tolower
  NumberOf,   \* [Text -> Int \cup {NaN}], std::stod
  TextOf,     \* [Int -> Text], how a number is written
  Within,     \* [contains, startswith, endswith -> set of pairs of Text]
  Context     \* the flat map of dotted paths (sequences of Text) to values

ASSUME TextAssumption == {"", "true", "false"} \subseteq Text

-----------------------------------------------------------------------------
(* ExprValue *)

Null == [type |-> "Null", b |-> FALSE, n |-> 0, s |-> ""]
Boolean(v) == [type |-> "Bool", b |-> v, n |-> 0, s |-> ""]
Number(v) == [type |-> "Number", b |-> FALSE, n |-> v, s |-> ""]
String(v) == [type |-> "String", b |-> FALSE, n |-> 0, s |-> v]

IsTruthy(v) ==
  CASE v.type = "Null"   -> FALSE
    [] v.type = "Bool"   -> v.b
    [] v.type = "Number" -> v.n # 0 /\ v.n # NaN
    [] v.type = "String" -> v.s # ""

AsString(v) ==
  CASE v.type = "Null"   -> ""
    [] v.type = "Bool"   -> IF v.b THEN "true" ELSE "false"
    [] v.type = "Number" -> TextOf[v.n]
    [] v.type = "String" -> v.s

ToNumber(v) ==
  CASE v.type = "Null"   -> 0
    [] v.type = "Bool"   -> IF v.b THEN 1 ELSE 0
    [] v.type = "Number" -> v.n
    [] v.type = "String" -> NumberOf[v.s]

\* Comparisons with NaN are false.
SameNumber(x, y) == x # NaN /\ y # NaN /\ x = y
Less(x, y) == x # NaN /\ y # NaN /\ x < y
LessEq(x, y) == Less(x, y) \/ SameNumber(x, y)

\* null against the zero value of the other operand's type.
EqualsNull(v) ==
  CASE v.type = "Null"   -> TRUE
    [] v.type = "Bool"   -> v.b = FALSE
    [] v.type = "Number" -> v.n = 0
    [] v.type = "String" -> v.s = ""

\* Faulty variant: strings are compared as they are written.
LooseEqExact(l, r) ==
  CASE l.type = "Null" -> EqualsNull(r)
    [] r.type = "Null" -> EqualsNull(l)
    [] "Bool" \in {l.type, r.type} -> IsTruthy(l) = IsTruthy(r)
    [] "Number" \in {l.type, r.type} -> SameNumber(ToNumber(l), ToNumber(r))
    [] OTHER -> l.s = r.s

\* operator==
LooseEq(l, r) ==
  CASE l.type = "Null" -> EqualsNull(r)
    [] r.type = "Null" -> EqualsNull(l)
    [] "Bool" \in {l.type, r.type} -> IsTruthy(l) = IsTruthy(r)
    [] "Number" \in {l.type, r.type} -> SameNumber(ToNumber(l), ToNumber(r))
    [] OTHER -> LowerOf[l.s] = LowerOf[r.s]

LowerPath(path) == [k \in DOMAIN path |-> LowerOf[path[k]]]

\* ExprContext::get: the path as it is written, else one that differs in case
\* only, else null.
Get(path) ==
  IF path \in DOMAIN Context THEN Context[path]
  ELSE LET alike == {q \in DOMAIN Context : LowerPath(q) = LowerPath(path)}
       IN  IF alike = {} THEN Null ELSE Context[CHOOSE q \in alike : TRUE]

\* fnContains, fnStartsWith, fnEndsWith: with fewer than two arguments nothing
\* is found.
Search(f, args) ==
  LET arg(k) == LowerOf[AsString(args[k])]
  IN  Boolean(Len(args) >= 2 /\ <<arg(1), arg(2)>> \in Within[f])

\* fnJoin returns its first argument.
Join(args) == String(IF args = <<>> THEN "" ELSE AsString(args[1]))

\* callFunction: the functions of the job's state (no caller ever sets that
\* state, so it is always a success), those that look for a string in another
\* one, join, and null for a name that is not known. format, the JSON functions
\* and hashFiles are left out.
CallFunction(path, args) ==
  LET f == LowerPath(path) IN
  CASE f \in {<<"always">>, <<"success">>} -> Boolean(TRUE)
    [] f \in {<<"failure">>, <<"cancelled">>} -> Boolean(FALSE)
    [] Len(f) = 1 /\ f[1] \in DOMAIN Within -> Search(f[1], args)
    [] f = <<"join">> -> Join(args)
    [] OTHER -> Null

-----------------------------------------------------------------------------
(* Parser. A call is given the tokens and a position and returns the value *)
(* with the position after it; loops says that the code would not return.  *)

Compare == {"OpEq", "OpNeq", "OpLt", "OpLte", "OpGt", "OpGte"}
Literals == {"LitString", "LitNumber", "LitBool", "LitNull"}

Peek(ts, p) == IF p > Len(ts) THEN "Eof" ELSE ts[p].type
Parsed(v, p) == [v |-> v, pos |-> p, loops |-> FALSE]

RECURSIVE ParseOr(_, _), ParseAnd(_, _), ParseNot(_, _), ParseComparison(_, _),
          ParsePrimary(_, _), OrRest(_, _), AndRest(_, _), PathRest(_, _, _),
          Arguments(_, _, _)

\* || is the first operand that is true, else the last one.
OrRest(ts, left) ==
  IF left.loops \/ Peek(ts, left.pos) # "OpOr" THEN left
  ELSE LET right == ParseAnd(ts, left.pos + 1) IN
       OrRest(ts, [right EXCEPT !.v = IF IsTruthy(left.v) THEN left.v ELSE right.v])

ParseOr(ts, p) == OrRest(ts, ParseAnd(ts, p))

\* && is the first operand that is false, else the last one.
AndRest(ts, left) ==
  IF left.loops \/ Peek(ts, left.pos) # "OpAnd" THEN left
  ELSE LET right == ParseNot(ts, left.pos + 1) IN
       AndRest(ts, [right EXCEPT !.v = IF IsTruthy(left.v) THEN right.v ELSE left.v])

ParseAnd(ts, p) == AndRest(ts, ParseNot(ts, p))

\* ! applies to the whole comparison that follows.
ParseNot(ts, p) ==
  IF Peek(ts, p) = "OpNot"
  THEN LET r == ParseNot(ts, p + 1) IN [r EXCEPT !.v = Boolean(~IsTruthy(@))]
  ELSE ParseComparison(ts, p)

CompareAs(op, l, r) ==
  CASE op = "OpEq"  -> LooseEq(l, r)
    [] op = "OpNeq" -> ~LooseEq(l, r)
    [] op = "OpLt"  -> Less(ToNumber(l), ToNumber(r))
    [] op = "OpLte" -> LessEq(ToNumber(l), ToNumber(r))
    [] op = "OpGt"  -> Less(ToNumber(r), ToNumber(l))
    [] op = "OpGte" -> LessEq(ToNumber(r), ToNumber(l))

\* At most one comparison: a == b == c leaves the second one unread.
ParseComparison(ts, p) ==
  LET left == ParsePrimary(ts, p) IN
  IF left.loops \/ Peek(ts, left.pos) \notin Compare THEN left
  ELSE LET right == ParsePrimary(ts, left.pos + 1) IN
       [right EXCEPT !.v = Boolean(CompareAs(Peek(ts, left.pos), left.v, @))]

\* Further parts of a dotted path; a dot that nothing follows is skipped.
PathRest(ts, p, path) ==
  IF Peek(ts, p) # "Dot" THEN <<path, p>>
  ELSE IF Peek(ts, p + 1) \in {"Identifier", "LitNumber"}
       THEN PathRest(ts, p + 2, Append(path, ts[p + 1].text))
       ELSE PathRest(ts, p + 1, path)

\* Faulty variant: a comma is required after every argument but the last.
ArgumentsStrict(ts, p, args) ==
  IF Peek(ts, p) \in {"RParen", "Eof"} THEN <<args, p, FALSE>>
  ELSE LET a == ParseOr(ts, p) IN
       IF a.loops \/ (a.pos = p /\ Peek(ts, p) # "Comma")
          \/ Peek(ts, a.pos) \notin {"Comma", "RParen", "Eof"}
       THEN <<args, a.pos, TRUE>>
       ELSE Arguments(ts, IF Peek(ts, a.pos) = "Comma" THEN a.pos + 1 ELSE a.pos,
                      Append(args, a.v))

\* The loop of parseCall. An argument that reads nothing, where no comma
\* follows, is read again and again: the loop does not end.
Arguments(ts, p, args) ==
  IF Peek(ts, p) \in {"RParen", "Eof"} THEN <<args, p, FALSE>>
  ELSE LET a == ParseOr(ts, p) IN
       IF a.loops \/ (a.pos = p /\ Peek(ts, p) # "Comma")
       THEN <<args, a.pos, TRUE>>
       ELSE Arguments(ts, IF Peek(ts, a.pos) = "Comma" THEN a.pos + 1 ELSE a.pos,
                      Append(args, a.v))

ParseCall(ts, p, path) ==
  LET r == Arguments(ts, p + 1, <<>>) IN
  IF r[3] THEN [v |-> Null, pos |-> r[2], loops |-> TRUE]
  ELSE Parsed(CallFunction(path, r[1]),
              IF Peek(ts, r[2]) = "RParen" THEN r[2] + 1 ELSE r[2])

\* A token that starts no operand is null, and is left where it is.
ParsePrimary(ts, p) ==
  CASE Peek(ts, p) = "LParen" ->
         LET r == ParseOr(ts, p + 1) IN
         IF ~r.loops /\ Peek(ts, r.pos) = "RParen" THEN [r EXCEPT !.pos = @ + 1] ELSE r
    [] Peek(ts, p) \in Literals -> Parsed(ts[p].v, p + 1)
    [] Peek(ts, p) = "Identifier" ->
         LET r == PathRest(ts, p + 1, <<ts[p].text>>) IN
         IF Peek(ts, r[2]) = "LParen" THEN ParseCall(ts, r[2], r[1])
         ELSE Parsed(Get(r[1]), r[2])
    [] OTHER -> Parsed(Null, p)

\* evaluateExpr: blank text is the empty string; what is left over after the
\* expression is ignored.
EvaluateExpr(ts) == IF ts = <<>> THEN Parsed(String(""), 1) ELSE ParseOr(ts, 1)

-----------------------------------------------------------------------------
(* What the parser is compared with: expression trees, their meaning, and *)
(* how they are written with as few parentheses as the grammar allows     *)

RECURSIVE Meaning(_), Written(_, _)

\* Two values are equal if they are of one type and the same (case apart), or
\* are so once the one is converted to the type of the other: null to
\* anything, anything to Bool, else to Number.
Convert(v, type) ==
  CASE v.type = type   -> v
    [] type = "Bool"   -> Boolean(IsTruthy(v))
    [] type = "Number" -> Number(ToNumber(v))
    [] type = "String" -> String("")
CommonType(l, r) ==
  LET types == {l.type, r.type} \ {"Null"} IN
  CASE types = {} -> "Null"
    [] "Bool" \in types -> "Bool"
    [] "Number" \in types -> "Number"
    [] OTHER -> "String"
MeansEqual(l, r) ==
  LET t == CommonType(l, r)
      x == Convert(l, t)
      y == Convert(r, t)
  IN  CASE t = "Number" -> SameNumber(x.n, y.n)
        [] t = "String" -> LowerOf[x.s] = LowerOf[y.s]
        [] OTHER -> x = y

\* Trees: [op, args] with op a literal token, a path, "call", "not", "and",
\* "or" or a comparison.
Meaning(e) ==
  CASE e.op = "lit" -> e.tok.v
    [] e.op = "ref" -> Get(e.path)
    [] e.op = "call" -> CallFunction(e.path, [k \in DOMAIN e.args |-> Meaning(e.args[k])])
    [] e.op = "not" -> Boolean(~IsTruthy(Meaning(e.args[1])))
    [] e.op = "and" -> IF IsTruthy(Meaning(e.args[1])) THEN Meaning(e.args[2])
                       ELSE Meaning(e.args[1])
    [] e.op = "or"  -> IF IsTruthy(Meaning(e.args[1])) THEN Meaning(e.args[1])
                       ELSE Meaning(e.args[2])
    [] e.op \in {"OpEq", "OpNeq"} ->
         Boolean(MeansEqual(Meaning(e.args[1]), Meaning(e.args[2])) = (e.op = "OpEq"))
    [] OTHER -> Boolean(CompareAs(e.op, Meaning(e.args[1]), Meaning(e.args[2])))

Tok(t) == [type |-> t]
Level(e) == CASE e.op = "or" -> 1 [] e.op = "and" -> 2 [] e.op = "not" -> 3
              [] e.op \in Compare -> 4 [] OTHER -> 5

\* The tokens of e where an operand of the given level is due.
Written(e, level) ==
  LET arg(k, l) == Written(e.args[k], l)
      dotted(path) == FlattenSeq([k \in DOMAIN path |->
                        IF k = 1 THEN <<[type |-> "Identifier", text |-> path[k]]>>
                        ELSE <<Tok("Dot"), [type |-> "Identifier", text |-> path[k]]>>])
      bare == CASE e.op = "lit" -> <<e.tok>>
                [] e.op = "ref" -> dotted(e.path)
                [] e.op = "call" ->
                     dotted(e.path) \o <<Tok("LParen")>>
                     \o FlattenSeq([k \in DOMAIN e.args |->
                          IF k = 1 THEN arg(k, 1) ELSE <<Tok("Comma")>> \o arg(k, 1)])
                     \o <<Tok("RParen")>>
                [] e.op = "not" -> <<Tok("OpNot")>> \o arg(1, 3)
                [] e.op = "and" -> arg(1, 2) \o <<Tok("OpAnd")>> \o arg(2, 3)
                [] e.op = "or"  -> arg(1, 1) \o <<Tok("OpOr")>> \o arg(2, 2)
                [] OTHER -> arg(1, 5) \o <<Tok(e.op)>> \o arg(2, 5)
  IN IF Level(e) >= level THEN bare
     ELSE <<Tok("LParen")>> \o bare \o <<Tok("RParen")>>
=============================================================================
