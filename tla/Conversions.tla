---------------------------- MODULE Conversions ----------------------------
(***************************************************************************)
(* The runner's conversions between text or bytes and values, each against *)
(* a reference: expressions (ExprEvaluator), the files of a job's steps    *)
(* (EnvFiles), and the messages of the RunnerService (RunnerClient). A     *)
(* behaviour picks one input; the properties are about what the code makes *)
(* of it.                                                                  *)
(***************************************************************************)
EXTENDS ExprEvaluator, EnvFiles, RunnerClient

CONSTANTS
  Trees,       \* expression trees
  Tokens,      \* the tokens of arbitrary expression texts
  MaxTokens,   \* the longest of them
  Jobs,        \* sequences of what the steps of a job write
  Responses,   \* what the server answers, and how it arrives
  Requests     \* what the runner is to send

VARIABLE input

Nothing == [subject |-> "nothing"]

Init == input = Nothing

WellFormed == /\ input = Nothing
              /\ \E e \in Trees : input' = [subject |-> "tree", tree |-> e]

\* Any text at all, one token more at a time.
AnyText ==
  /\ \/ input = Nothing /\ \E t \in Tokens : input' = [subject |-> "text", tokens |-> <<t>>]
     \/ /\ input.subject = "text"
        /\ Len(input.tokens) < MaxTokens
        /\ \E t \in Tokens : input' = [input EXCEPT !.tokens = Append(@, t)]

StepsWrite == /\ input = Nothing
              /\ \E j \in Jobs : input' = [subject |-> "job", steps |-> j]

ServerAnswers == /\ input = Nothing
                 /\ \E r \in Responses : input' = [subject |-> "response", sent |-> r]

RunnerSends == /\ input = Nothing
               /\ \E r \in Requests : input' = [subject |-> "request", sent |-> r]

Next == WellFormed \/ AnyText \/ StepsWrite \/ ServerAnswers \/ RunnerSends

Spec == Init /\ [][Next]_input

-----------------------------------------------------------------------------
(* Expressions *)

\* An expression of the grammar has the value its tree has, whatever the
\* precedence of its operators and however it is parenthesised, and the parser
\* reads it to its end (ExprEvaluator.cpp, the parse functions and ==).
ParserFollowsGrammar ==
  input.subject = "tree" =>
    LET ts == Written(input.tree, 1)
        r == EvaluateExpr(ts)
    IN  ~r.loops /\ r.pos = Len(ts) + 1 /\ r.v = Meaning(input.tree)

\* The evaluation of any text ends, however malformed it is, unless it has a
\* dot inside a call that continues no path: an argument that ends in a call
\* or a literal, followed by ".name" (ExprEvaluator.cpp, parseCall's loop).
EvaluationEnds ==
  input.subject = "text" =>
    LET ts == input.tokens
        typeAt(k) == IF k = 0 THEN "Eof" ELSE ts[k].type
    IN  EvaluateExpr(ts).loops =>
          \E k \in DOMAIN ts :
            /\ ts[k].type = "Dot"
            /\ typeAt(k - 1) \notin {"Identifier", "Dot"}
            /\ \E j \in 2..(k - 1) : /\ typeAt(j) = "LParen"
                                     /\ typeAt(j - 1) \in {"Identifier", "Dot", "LitNumber"}

-----------------------------------------------------------------------------
(* The files of a job *)

Entries(field) == FlattenSeq([k \in DOMAIN input.steps |-> input.steps[k][field]])
AfterSteps ==
  FoldLeft(AfterStep, FreshEnv,
           [k \in DOMAIN input.steps |->
              [output |-> FileOf(input.steps[k].output), env |-> FileOf(input.steps[k].env),
               path |-> FileOf(input.steps[k].path)]])

\* A variable set through $GITHUB_ENV keeps the last value any step gave it, in
\* either format and with either line ending, up to the first entry that the
\* formats cannot carry, or whose last line is not ended and runs into what a
\* later step writes: the file is read again as a whole after every step, so
\* that entry swallows what later steps write, never what earlier ones wrote.
\* The directories of $GITHUB_PATH are searched in the order they were written
\* in, with the same exception, and the outputs of a step are the ones it wrote
\* and no other step's (EnvManager::applyEnvChanges, applyPathChanges,
\* parseOutputs, resetBetweenSteps). EnvManager.h says otherwise of both: by
\* line 75 the env and path files are cleared between steps, by lines 7 and 69
\* a step prepends to PATH, where the code adds behind earlier steps' entries.
EnvSurvives ==
  input.subject = "job" =>
    LET all == Entries("env")
        sound == Sound(all)
        later == {all[k].key : k \in (Len(sound) + 1)..Len(all)}
        kept == LastWrites(sound)
        paths == Sound(Entries("path"))
        directories == FirstSeen(SelectSeq([k \in DOMAIN paths |-> paths[k].value[1]],
                                           LAMBDA l : l # <<>>))
        searched == FirstSeen(AfterSteps.prepends)
        own == Last(input.steps).output
    IN  /\ sound = all => AfterSteps.overrides = kept
        /\ \A key \in DOMAIN kept \ later : /\ key \in DOMAIN AfterSteps.overrides
                                            /\ AfterSteps.overrides[key] = kept[key]
        /\ IsPrefix(directories, searched)
        /\ paths = Entries("path") => searched = directories
        /\ Sound(own) = own => AfterSteps.outputs = LastWrites(own)

-----------------------------------------------------------------------------
(* Messages: the reference encoding. A field is [n, wire, raw, means]: its *)
(* number, its wire type, its number or its bytes, and what they mean. The *)
(* numbers, types and results are those of actions-proto-go as the         *)
(* comments of RunnerClient.cpp quote them (131, 160-166, 185-190, 211,    *)
(* 227, 242, 321-329 and on). proto/runner.proto, which is not compiled    *)
(* in, has others, see README.md.                                          *)

Size(v) == CHOOSE d \in 1..4 : v < 128^d /\ (d = 1 \/ v >= 128^(d - 1))
WireNumber(v) ==
  [k \in 1..Size(v) |-> ((v \div 128^(k - 1)) % 128) + (IF k < Size(v) THEN 128 ELSE 0)]
WireField(x) ==
  WireNumber(x.n * 8 + x.wire)
  \o CASE x.wire = VARINT -> WireNumber(x.raw)
       [] x.wire = BYTES -> WireNumber(Len(x.raw)) \o x.raw
       [] OTHER -> x.raw
WireMessage(fields) == FlattenSeq([k \in DOMAIN fields |-> WireField(fields[k])])

Meant(fields, n) ==
  LET own == SelectSeq(fields, LAMBDA x : x.n = n)
  IN  [k \in DOMAIN own |-> own[k].means]
LastMeant(fields, n, default) ==
  IF Meant(fields, n) = <<>> THEN default ELSE Last(Meant(fields, n))

TaskMeant(fields) ==
  [id |-> LastMeant(fields, 1, 0), payload |-> LastMeant(fields, 2, <<>>),
   context |-> FlattenSeq(Meant(fields, 3)), secrets |-> Meant(fields, 4),
   machine |-> LastMeant(fields, 5, <<>>), needs |-> Meant(fields, 6),
   vars |-> Meant(fields, 7)]

Arrived(s, bytes) ==
  [curl |-> s.curl, code |-> s.code, body |-> SubSeq(bytes, 1, Len(bytes) - s.cut)]
InFull(s) == s.curl = "ok" /\ s.code = 200 /\ s.cut = 0
CutShort(s) == s.curl = "ok" /\ s.code = 200 /\ s.cut > 0
Embedded(n, fields) == WireField([n |-> n, wire |-> BYTES, raw |-> WireMessage(fields)])

\* Each compares what the RPC returned, r, with what was sent, s.
FetchUnderstood(s, sent, r) ==
  CASE InFull(s) -> r = <<[task |-> sent,
                           version |-> LastMeant(s.before \o s.after, 2, 0)]>>
    [] CutShort(s) -> r = <<>> \/ r[1].task \subseteq sent
    [] OTHER -> r = <<>> \/ r[1].task = {}

TasksSent(task) == IF task.id = 0 THEN {} ELSE {task}

RunnerMeant(fields) ==
  [uuid |-> LastMeant(fields, 2, <<>>), token |-> LastMeant(fields, 3, <<>>),
   name |-> LastMeant(fields, 4, <<>>), labels |-> Meant(fields, 9)]
RegisterUnderstood(s, runner, r) ==
  CASE InFull(s) -> r = <<runner>>
    [] CutShort(s) -> r \in {<<>>, <<RunnerMeant(<<>>)>>}
    [] OTHER -> r = <<>>

PingUnderstood(s, r) ==
  /\ InFull(s) => r = <<LastMeant(s.fields, 1, <<>>)>>
  /\ CutShort(s) => r \in {<<>>, << <<>> >>} \cup {<<m>> : m \in Range(Meant(s.fields, 1))}

StateUnderstood(s, r) ==
  /\ InFull(s) => r = <<[task_id |-> LastMeant(s.fields, 1, 0),
                         state |-> LastMeant(s.fields, 2, "")]>>
  /\ CutShort(s) => r = <<>> \/ (r[1].task_id \in {0, s.id} /\ r[1].state = "")

\* An answer that does not say how far the log was stored counts as all of it.
AckUnderstood(s, r) ==
  LET silent == s.curl = "timeout" \/ (InFull(s) /\ s.fields = <<>>)
  IN  /\ silent => r = <<s.index + Len(s.rows)>>
      /\ InFull(s) /\ ~silent => r = <<LastMeant(s.fields, 1, 0)>>
      /\ CutShort(s) /\ s.cut < Len(WireMessage(s.fields)) =>
           r = <<>> \/ r[1] <= Max({0} \cup Range(Meant(s.fields, 1)))
      /\ s.curl = "error" \/ (s.curl = "ok" /\ s.code # 200) => r = <<>>

Understood(s) ==
  CASE s.rpc = "FetchTask" ->
         FetchUnderstood(s, TasksSent(TaskMeant(s.fields)),
           FetchTask(Arrived(s, WireMessage(s.before) \o Embedded(1, s.fields)
                                \o WireMessage(s.after))))
    [] s.rpc = "Register" ->
         RegisterUnderstood(s, RunnerMeant(s.fields),
                            RegisterRunner(Arrived(s, Embedded(1, s.fields))))
    [] s.rpc = "Declare" ->
         RegisterUnderstood(s, RunnerMeant(s.fields), Declare(Arrived(s, Embedded(1, s.fields))))
    [] s.rpc = "UpdateTask" ->
         StateUnderstood(s, UpdateTask(Arrived(s, Embedded(1, s.fields)), s.id))
    [] s.rpc = "UpdateLog" ->
         AckUnderstood(s, UpdateLog(Arrived(s, WireMessage(s.fields)), s.index, s.rows))
    [] s.rpc = "Ping" -> PingUnderstood(s, Ping(Arrived(s, WireMessage(s.fields))))

\* The runner reads what the server answered, whatever the order of the fields
\* and whatever fields there are that it does not know. An answer that is cut
\* short, at whichever byte, is never taken for another one: of a poll it
\* yields the task that was sent, none or an exception; of a registration an
\* exception, or a runner without a token, which cmdRegister refuses
\* (main.cpp:317); of a batch of rows it acknowledges no more than the server
\* did, unless nothing of it is left. An answer with an error status yields no
\* task, no runner and no acknowledgement (RunnerClient.cpp, the decoders and
\* doRPC_url).
ResponseUnderstood == input.subject = "response" => Understood(input.sent)

\* What the server reads: the fields of actions-proto-go, absent ones as zero.
Numbers(fields, n) == Signed(LastOf(fields, n, 0))
TimeOf(f) == <<Numbers(f, 1), Numbers(f, 2)>>
TimeRead(b) == TimeOf(ReadStrict(b, (1 :> VARINT) @@ (2 :> VARINT)))
RowOf(time, content) == [secs |-> time[1], nanos |-> time[2], content |-> content]
RowRead(b) ==
  LET f == ReadStrict(b, KeyAndValue)
  IN  RowOf(TimeRead(LastOf(f, 1, <<>>)), LastOf(f, 2, <<>>))
StepOf(f, Secs(_)) ==
  [id |-> Numbers(f, 1), result |-> Numbers(f, 2), started |-> Secs(LastOf(f, 3, <<>>)),
   stopped |-> Secs(LastOf(f, 4, <<>>)), index |-> Numbers(f, 5), length |-> Numbers(f, 6)]
StepRead(b) ==
  StepOf(ReadStrict(b, [k \in 1..6 |-> IF k \in {3, 4} THEN BYTES ELSE VARINT]),
         LAMBDA t : TimeRead(t)[1])
Mapped(values, F(_)) == [k \in DOMAIN values |-> F(values[k])]
OutputRead(b) == DecodeMapEntry(b)[1]

\* Each compares the fields f the server read with what was to be sent, s.
LogRead(s, f) ==
  /\ Numbers(f, 1) = s.id /\ Numbers(f, 2) = s.index
  /\ Mapped(All(f, 3), RowRead) = s.rows
  /\ (LastOf(f, 4, 0) = 1) = s.no_more
TaskRead(s, t) ==
  /\ Numbers(t, 1) = s.id /\ Numbers(t, 2) = s.result
  /\ TimeRead(LastOf(t, 3, <<>>))[1] = s.started
  /\ TimeRead(LastOf(t, 4, <<>>))[1] = s.stopped
  /\ Mapped(All(t, 5), StepRead) = s.steps
UpdateRead(s, f) ==
  /\ TaskRead(s, ReadStrict(LastOf(f, 1, <<>>),
                            [k \in 1..5 |-> IF k \in 3..5 THEN BYTES ELSE VARINT]))
  /\ Mapped(All(f, 2), OutputRead) = s.outputs
RegistrationRead(s, f) ==
  /\ LastOf(f, 1, <<>>) = s.name /\ LastOf(f, 2, <<>>) = s.token
  /\ All(f, 6) = s.labels

ServerReads(s) ==
  CASE s.rpc = "UpdateLog" ->
         LogRead(s, ReadStrict(EncodeUpdateLogRequest(s.id, s.index, s.rows, s.no_more),
                               [k \in 1..4 |-> IF k = 3 THEN BYTES ELSE VARINT]))
    [] s.rpc = "UpdateTask" ->
         UpdateRead(s, ReadStrict(EncodeUpdateTaskRequest(s.id, s.result, s.steps, s.started,
                                                          s.stopped, s.outputs), KeyAndValue))
    [] s.rpc = "Declare" ->
         All(ReadStrict(EncodeDeclareRequest(s.version, s.labels), 2 :> BYTES), 2) = s.labels
    [] s.rpc = "Register" ->
         RegistrationRead(s, ReadStrict(EncodeRegisterRequest(s.token, s.name, s.labels, s.version),
                                        [k \in {1, 2, 5, 6} |-> BYTES]))
    [] s.rpc = "FetchTask" ->
         Numbers(ReadStrict(EncodeFetchTaskRequest(s.version), 1 :> VARINT), 1) = s.version
    [] s.rpc = "Ping" ->
         LastOf(ReadStrict(EncodePingRequest(s.data), 1 :> BYTES), 1, <<>>) = s.data

\* The server reads what the runner was to send: every row of a batch, empty
\* ones and ones without a time too, so that the index it acknowledges counts
\* the same rows; every step with its result and its place in the log, every
\* output, every label (RunnerClient.cpp, the encoders). The server's side is
\* the schema the encoders' comments quote, not the one of proto/runner.proto.
RequestUnderstood == input.subject = "request" => ServerReads(input.sent)
=============================================================================
