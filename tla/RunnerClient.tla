---------------------------- MODULE RunnerClient ----------------------------
(***************************************************************************)
(* The client of the RunnerService (src/src/client/RunnerClient.cpp): the  *)
(* hand-written protobuf encoder and decoder, and what an RPC makes of the *)
(* server's reply. A string is the sequence of its bytes. Integers have    *)
(* Word values, 2^64 in the code.                                          *)
(***************************************************************************)
EXTENDS Integers, Sequences, SequencesExt

CONSTANT Word

ASSUME WordAssumption == Word \in Nat /\ Word >= 128 /\ Word % 128 = 0

Unsigned(v) == v % Word
Signed(v) == IF v >= Word \div 2 THEN v - Word ELSE v

-----------------------------------------------------------------------------
(* Encoding helpers *)

VARINT == 0
FIXED64 == 1
BYTES == 2
FIXED32 == 5

\* Groups of seven bits, the low ones first; all but the last are marked.
AppendVarint[v \in Nat] ==
  IF v > 127 THEN <<128 + (v % 128)>> \o AppendVarint[v \div 128] ELSE <<v>>

AppendTag(field, type) == AppendVarint[field * 8 + type]

\* Faulty variant: an empty string is left out, as proto3 allows.
AppendStringUnlessEmpty(field, s) ==
  IF s = <<>> THEN <<>> ELSE AppendTag(field, BYTES) \o AppendVarint[Len(s)] \o s

\* A string is written even if it is empty.
AppendString(field, s) == AppendTag(field, BYTES) \o AppendVarint[Len(s)] \o s

\* Zero (FALSE for a bool) and the empty message are left out.
AppendInt64(field, v) ==
  IF v = 0 THEN <<>> ELSE AppendTag(field, VARINT) \o AppendVarint[Unsigned(v)]
AppendBool(field, v) == AppendInt64(field, IF v THEN 1 ELSE 0)
AppendMessage(field, msg) == IF msg = <<>> THEN <<>> ELSE AppendString(field, msg)

EncodeTimestamp(secs, nanos) == AppendInt64(1, secs) \o AppendInt64(2, nanos)

-----------------------------------------------------------------------------
(* Decoding helpers. A field that cannot be read makes the decoder throw;  *)
(* the list of fields then ends with Overrun.                              *)

Overrun == [field |-> -1, value |-> 0]
Throws(fields) == \E k \in DOMAIN fields : fields[k].field = Overrun.field

\* A number that the bytes do not end is taken as it stands.
DecodeVarint(b, p) ==
  LET ends == {k \in p..Len(b) : b[k] < 128}
      last == IF ends = {} THEN Len(b) ELSE Min(ends)
      group(k) == ((b[k] % 128) * 128^(k - p)) % Word
  IN  [v |-> FoldLeft(LAMBDA sum, k : (sum + group(k)) % Word, 0,
                      [k \in 1..(last - p + 1) |-> p + k - 1]),
       ok |-> TRUE, pos |-> last + 1]

\* Faulty variant: what is there is taken for the string.
DecodeStringShort(b, p) ==
  LET n == DecodeVarint(b, p)
      last == Min({n.pos + n.v - 1, Len(b)})
  IN  [ok |-> TRUE, v |-> SubSeq(b, n.pos, last), pos |-> last + 1]

\* Throws where the length points past the end.
DecodeString(b, p) ==
  LET n == DecodeVarint(b, p)
      last == n.pos + n.v - 1
  IN  [ok |-> last <= Len(b), v |-> SubSeq(b, n.pos, Min({last, Len(b)})), pos |-> last + 1]

\* Positions are integers: a length so large that the pointer wraps around
\* (RunnerClient.cpp:113, 123) is left out. No server writes such a length, and
\* cutting an answer short produces none.
SkipField(b, p, type) ==
  CASE type = VARINT  -> DecodeVarint(b, p).pos
    [] type = FIXED64 -> p + 8
    [] type = BYTES   -> LET n == DecodeVarint(b, p) IN n.pos + n.v
    [] type = FIXED32 -> p + 4

\* The loop every decoder is: the fields of known, in the order of the bytes,
\* the others skipped. The strict decoders also skip a known field of
\* another wire type, the others read it as what they expect.
RECURSIVE ReadFrom(_, _, _, _)

Found(b, field, d, known, strict) ==
  IF d.ok THEN <<[field |-> field, value |-> d.v]>> \o ReadFrom(b, d.pos, known, strict)
  ELSE <<Overrun>>

ReadField(b, tag, known, strict) ==
  LET field == tag.v \div 8
      type == tag.v % 8
      mine == field \in DOMAIN known /\ (strict => type = known[field])
  IN
  CASE mine /\ known[field] = VARINT ->
         Found(b, field, DecodeVarint(b, tag.pos), known, strict)
    [] mine /\ known[field] = BYTES ->
         Found(b, field, DecodeString(b, tag.pos), known, strict)
    [] ~mine /\ type \in {VARINT, FIXED64, BYTES, FIXED32} ->
         ReadFrom(b, SkipField(b, tag.pos, type), known, strict)
    [] OTHER -> <<Overrun>>

ReadFrom(b, p, known, strict) ==
  IF p > Len(b) THEN <<>> ELSE ReadField(b, DecodeVarint(b, p), known, strict)

Read(b, known) == ReadFrom(b, 1, known, FALSE)
ReadStrict(b, known) == ReadFrom(b, 1, known, TRUE)

All(fields, f) ==
  LET own == SelectSeq(fields, LAMBDA x : x.field = f)
  IN  [k \in DOMAIN own |-> own[k].value]
FinalOf(values, default) == IF values = <<>> THEN default ELSE Last(values)
LastOf(fields, f, default) == FinalOf(All(fields, f), default)

-----------------------------------------------------------------------------
(* The messages. What a decoder returns is <<message>>, or <<>> where it   *)
(* throws.                                                                 *)

\* The message that Build makes of the fields, unless reading them threw.
Decoded(fields, Build(_)) == IF Throws(fields) THEN <<>> ELSE Build(fields)

\* The same of a list of messages.
AllDecoded(list) ==
  IF \E k \in DOMAIN list : list[k] = <<>> THEN <<>> ELSE << [k \in DOMAIN list |-> list[k][1]] >>
Each(values, Decode(_)) == AllDecoded([k \in DOMAIN values |-> Decode(values[k])])

Merged(messages, known) ==
  FlattenSeq([k \in DOMAIN messages |-> ReadStrict(messages[k], known)])

KeyAndValue == (1 :> BYTES) @@ (2 :> BYTES)

DecodeMapEntry(b) ==
  Decoded(ReadStrict(b, KeyAndValue),
          LAMBDA f : << <<LastOf(f, 1, <<>>), LastOf(f, 2, <<>>)>> >>)

\* An entry of a Struct: a value that is no string_value is read as "".
DecodeStructEntry(b) ==
  Decoded(ReadStrict(b, KeyAndValue), LAMBDA f :
    Decoded(Merged(All(f, 2), 3 :> BYTES), LAMBDA value :
      << <<LastOf(f, 1, <<>>), LastOf(value, 3, <<>>)>> >>))

\* Entries without a key are dropped, here and from the needs.
Keyed(entries) == SelectSeq(entries, LAMBDA e : e[1] # <<>>)
KeyedAll(decoded) == IF decoded = <<>> THEN <<>> ELSE <<Keyed(decoded[1])>>

DecodeStruct(b) ==
  Decoded(ReadStrict(b, 1 :> BYTES), LAMBDA f : KeyedAll(Each(All(f, 1), DecodeStructEntry)))

NeedOf(name, outputs, result) ==
  IF outputs = <<>> THEN <<>> ELSE << <<name, [outputs |-> outputs[1], result |-> result]>> >>

DecodeNeed(b) ==
  Decoded(ReadStrict(b, KeyAndValue), LAMBDA f :
    Decoded(Merged(All(f, 2), (1 :> BYTES) @@ (2 :> VARINT)), LAMBDA need :
      NeedOf(LastOf(f, 1, <<>>), Each(All(need, 1), DecodeMapEntry), LastOf(need, 2, 0))))

TaskOf(f, context, secrets, needs, vars) ==
  IF <<>> \in {context, secrets, needs, vars} THEN <<>>
  ELSE <<[id |-> Signed(LastOf(f, 1, 0)), payload |-> LastOf(f, 2, <<>>),
          context |-> FlattenSeq(context[1]), secrets |-> secrets[1],
          machine |-> LastOf(f, 5, <<>>), needs |-> needs[1], vars |-> vars[1]]>>

DecodeTask(b) ==
  Decoded(Read(b, [k \in 1..7 |-> IF k = 1 THEN VARINT ELSE BYTES]), LAMBDA f :
    TaskOf(f, Each(All(f, 3), DecodeStruct), Each(All(f, 4), DecodeMapEntry),
         KeyedAll(Each(All(f, 6), DecodeNeed)), Each(All(f, 7), DecodeMapEntry)))

\* A task without an id is no task. task is a set of at most one.
RealTask(tasks) ==
  LET real == SelectSeq(tasks, LAMBDA t : t.id # 0)
  IN  IF real = <<>> THEN {} ELSE {Last(real)}
Fetched(tasks, version) ==
  IF tasks = <<>> THEN <<>> ELSE <<[task |-> RealTask(tasks[1]), version |-> version]>>

DecodeFetchTaskResponse(b) ==
  Decoded(Read(b, (1 :> BYTES) @@ (2 :> VARINT)), LAMBDA f :
    Fetched(Each(All(f, 1), DecodeTask), Signed(LastOf(f, 2, 0))))

DecodePingResponse(b) ==
  Decoded(ReadStrict(b, 1 :> BYTES), LAMBDA f : <<LastOf(f, 1, <<>>)>>)

DecodeRunner(b) ==
  Decoded(Read(b, [k \in {2, 3, 4, 9} |-> BYTES]), LAMBDA f :
    <<[uuid |-> LastOf(f, 2, <<>>), token |-> LastOf(f, 3, <<>>),
       name |-> LastOf(f, 4, <<>>), labels |-> All(f, 9)]>>)

\* The first runner; what follows it is not looked at.
FirstRunner(f) ==
  CASE f = <<>> -> DecodeRunner(<<>>)
    [] f # <<>> /\ Throws(<<f[1]>>) -> <<>>
    [] OTHER -> DecodeRunner(f[1].value)
DecodeRegisterResponse(b) == FirstRunner(ReadStrict(b, 1 :> BYTES))

ResultName(result) ==
  CASE result = -1 -> ""
    [] result \in 1..4 -> <<"success", "failure", "cancelled", "skipped">>[result]
    [] OTHER -> "unknown"
DecodeUpdateTaskResponse(b) ==
  Decoded(ReadStrict(b, 1 :> BYTES), LAMBDA f :
    Decoded(Merged(All(f, 1), (1 :> VARINT) @@ (2 :> VARINT)), LAMBDA state :
      <<[task_id |-> Signed(LastOf(state, 1, 0)),
         state |-> ResultName(LastOf(state, 2, -1))]>>))

DecodeUpdateLogResponse(b) ==
  Decoded(ReadStrict(b, 1 :> VARINT), LAMBDA f : <<Signed(LastOf(f, 1, 0))>>)

Strings(field, list) == FlattenSeq([k \in DOMAIN list |-> AppendString(field, list[k])])

EncodePingRequest(data) == AppendString(1, data)

EncodeRegisterRequest(token, name, labels, version) ==
  AppendString(1, name) \o AppendString(2, token) \o AppendString(5, version)
  \o Strings(6, labels)

EncodeDeclareRequest(version, labels) == AppendString(1, version) \o Strings(2, labels)

EncodeFetchTaskRequest(version) == AppendInt64(1, version)

\* A time of zero is no time.
AppendTime(field, secs) ==
  IF secs = 0 THEN <<>> ELSE AppendMessage(field, EncodeTimestamp(secs, 0))

EncodeStep(s) ==
  AppendInt64(1, s.id) \o AppendInt64(2, s.result) \o AppendTime(3, s.started)
  \o AppendTime(4, s.stopped) \o AppendInt64(5, s.index) \o AppendInt64(6, s.length)

EncodeUpdateTaskRequest(id, result, steps, started, stopped, outputs) ==
  AppendMessage(1,
    AppendInt64(1, id) \o AppendInt64(2, result) \o AppendTime(3, started)
    \o AppendTime(4, stopped)
    \o FlattenSeq([k \in DOMAIN steps |-> AppendMessage(5, EncodeStep(steps[k]))]))
  \o FlattenSeq([k \in DOMAIN outputs |->
       AppendMessage(2, AppendString(1, outputs[k][1]) \o AppendString(2, outputs[k][2]))])

EncodeRow(row) ==
  AppendMessage(1, EncodeTimestamp(row.secs, row.nanos)) \o AppendString(2, row.content)

EncodeUpdateLogRequest(id, index, rows, no_more) ==
  AppendInt64(1, id) \o AppendInt64(2, index)
  \o FlattenSeq([k \in DOMAIN rows |-> AppendMessage(3, EncodeRow(rows[k]))])
  \o AppendBool(4, no_more)

-----------------------------------------------------------------------------
(* RPCs. A reply is [curl, code, body]; <<>> says that the method throws. *)

\* doRPC_url: a timeout counts as an empty answer, any other failure and any
\* status but 2xx throw.
DoRPC(reply) ==
  CASE reply.curl = "timeout" -> << <<>> >>
    [] reply.curl = "ok" /\ reply.code \in 200..299 -> <<reply.body>>
    [] OTHER -> <<>>

\* An answer without a body is replaced by a default, or by an exception.
Reached(body, default, Decode(_)) ==
  CASE body = <<>> -> <<>>
    [] body = << <<>> >> -> default
    [] OTHER -> Decode(body[1])
Answer(reply, default, Decode(_)) == Reached(DoRPC(reply), default, Decode)

Ping(reply) == Answer(reply, << <<>> >>, DecodePingResponse)
RegisterRunner(reply) == Answer(reply, <<>>, DecodeRegisterResponse)
Declare(reply) == Answer(reply, <<>>, DecodeRegisterResponse)
FetchTask(reply) ==
  Answer(reply, <<[task |-> {}, version |-> 0]>>, DecodeFetchTaskResponse)
UpdateTask(reply, id) ==
  Answer(reply, <<[task_id |-> id, state |-> ""]>>, DecodeUpdateTaskResponse)

\* Rows the server did not answer for count as acknowledged.
UpdateLog(reply, index, rows) ==
  Answer(reply, <<index + Len(rows)>>, DecodeUpdateLogResponse)
=============================================================================
