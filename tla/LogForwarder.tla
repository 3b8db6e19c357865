---------------------------- MODULE LogForwarder ----------------------------
(***************************************************************************)
(* LogForwarder (src/src/runner/LogForwarder.cpp): the thread-safe queue   *)
(* of a job's log lines and the worker thread that sends them in batches   *)
(* with the UpdateLog RPC, and the two ends it works between: the executor *)
(* thread that appends lines and calls finish(), and the server, which     *)
(* answers each call with the number of lines it holds (ack_index).        *)
(*                                                                         *)
(* A line is its number in append order: nothing here looks at its text.   *)
(* The interleavings kept are the ones the locks of the code allow: append *)
(* and drain are critical sections of mutex_, the load of done_ after the  *)
(* drain is outside it, and each UpdateLog call is one step, during which  *)
(* the executor thread is the only other one to move between two calls.    *)
(***************************************************************************)
EXTENDS Integers, Sequences

CONSTANTS MaxLines,    \* bound: lines the job writes
          BatchSize,   \* batch_size, 50 in TaskExecutor::execute
          Faults       \* what may go wrong with an UpdateLog call

FaultKinds == {"partial",   \* the server stores only some of the rows
               "refused",   \* the call throws and the server stored nothing
               "lost",      \* the call throws although the server stored rows
               "timeout"}   \* the call times out: an empty response body

ASSUME LinesAssumption == MaxLines \in Nat
ASSUME BatchAssumption == BatchSize \in Nat \ {0}
ASSUME FaultsAssumption == Faults \subseteq FaultKinds

Retries == 3

VARIABLES
  appended,     \* number of lines appended so far (names the next line)
  queue,        \* queue_
  done,         \* done_
  wpc,          \* where workerLoop is
  batch, rows,  \* sendBatch: the batch, and what of it is still to be sent
  is_last,      \* workerLoop's is_last, sendBatch's no_more
  index,        \* sendBatch's index
  retries,      \* attempts left
  next_index,   \* next_index_
  total_sent,   \* total_sent_
  caller,       \* the executor thread: running, in finish(), returned from it
  slog,         \* server: the lines it holds
  closed,       \* server: it has seen no_more with every row before it
  unconfirmed   \* history: the worker moved past rows no ack has confirmed

worker == <<wpc, batch, rows, is_last, index, retries, next_index, total_sent>>
server == <<slog, closed>>
vars == <<appended, queue, done, worker, caller, server, unconfirmed>>

Init ==
  /\ appended = 0 /\ queue = <<>> /\ done = FALSE
  /\ wpc = "wait" /\ batch = <<>> /\ rows = <<>> /\ is_last = FALSE
  /\ index = 0 /\ retries = 0 /\ next_index = 0 /\ total_sent = 0
  /\ caller = "running"
  /\ slog = <<>> /\ closed = FALSE /\ unconfirmed = FALSE

-----------------------------------------------------------------------------
(* The executor thread *)

\* append() / appendWithTime(): push under the lock, then notify.
AppendLine ==
  /\ caller = "running"
  /\ appended < MaxLines
  /\ appended' = appended + 1
  /\ queue' = Append(queue, appended + 1)
  /\ UNCHANGED <<done, worker, caller, server, unconfirmed>>

\* finish(): set done_ and notify; the executor appends nothing after it.
Finish ==
  /\ caller = "running"
  /\ done' = TRUE
  /\ caller' = "joining"
  /\ UNCHANGED <<appended, queue, worker, server, unconfirmed>>

\* finish() returns once the worker has ended.
Join ==
  /\ caller = "joining" /\ wpc = "exited"
  /\ caller' = "finished"
  /\ UNCHANGED <<appended, queue, done, worker, server, unconfirmed>>

-----------------------------------------------------------------------------
(* The worker thread *)

Least(a, b) == IF a < b THEN a ELSE b

\* The wait ends when there is a line, when done_ is set, or at the flush
\* deadline, so it may always end; at most batch_size_ lines are taken.
Drain ==
  /\ wpc = "wait"
  /\ LET k == Least(Len(queue), BatchSize) IN
       /\ batch' = SubSeq(queue, 1, k)
       /\ queue' = SubSeq(queue, k + 1, Len(queue))
  /\ wpc' = "drained"
  /\ UNCHANGED <<appended, done, rows, is_last, index, retries, next_index,
                 total_sent, caller, server, unconfirmed>>

\* Faulty variant: an empty round is never the last one.
LoadDoneOnlyWithLines ==
  /\ wpc = "drained"
  /\ is_last' = (done /\ batch # <<>>)
  /\ wpc' = IF batch # <<>> THEN "send" ELSE "wait"
  /\ rows' = batch /\ index' = next_index /\ retries' = Retries
  /\ UNCHANGED <<appended, queue, done, batch, next_index, total_sent, caller,
                 server, unconfirmed>>

\* done_ is loaded after the lock is released; it decides both whether this
\* is the last round and the no_more flag. sendBatch starts here.
LoadDone ==
  /\ wpc = "drained"
  /\ is_last' = done
  /\ wpc' = IF batch # <<>> \/ done THEN "send" ELSE "wait"
  /\ rows' = batch
  /\ index' = next_index
  /\ retries' = Retries
  /\ UNCHANGED <<appended, queue, done, batch, next_index, total_sent, caller,
                 server, unconfirmed>>

End == index + Len(rows)

\* Faulty variant: done_ is read again after the batch has been sent.
AfterSendReload == IF done THEN "exited" ELSE "wait"

\* Where the worker goes when sendBatch returns.
AfterSend == IF is_last THEN "exited" ELSE "wait"

\* The server holds slog and is sent rows for positions index .. End - 1. It
\* ignores rows it has, refuses rows that would leave a gap, and otherwise
\* appends the new ones; m is the number of lines it holds afterwards.
StoreLengths ==
  IF index <= Len(slog) /\ Len(slog) < End
  THEN IF "partial" \in Faults THEN Len(slog)..End ELSE {End}
  ELSE {Len(slog)}

Store(m) ==
  /\ slog' = slog \o SubSeq(rows, Len(slog) + 1 - index, m - index)
  /\ closed' = (closed \/ (is_last /\ End <= m))

\* RunnerClient::updateLog: proto3 does not encode a zero, so ack_index = 0
\* arrives as an empty body, which is read as "all rows accepted".
WireAck(m) == IF m = 0 THEN End ELSE m

\* Faulty variants of the next definition: the acked rows are not erased, or
\* one row too many is erased.
HandleAckKeepsRows(ack) ==
  IF ack < End
  THEN /\ index' = ack /\ retries' = retries - 1
       /\ UNCHANGED <<wpc, rows, next_index, total_sent>>
  ELSE /\ next_index' = End /\ total_sent' = total_sent + Len(batch)
       /\ wpc' = AfterSend
       /\ UNCHANGED <<rows, index, retries>>

HandleAckOffByOne(ack) ==
  IF ack < End
  THEN /\ rows' = IF ack > index THEN SubSeq(rows, ack - index + 2, Len(rows))
                                 ELSE rows
       /\ index' = ack /\ retries' = retries - 1
       /\ UNCHANGED <<wpc, next_index, total_sent>>
  ELSE /\ next_index' = End /\ total_sent' = total_sent + Len(batch)
       /\ wpc' = AfterSend
       /\ UNCHANGED <<rows, index, retries>>

\* The tail of the while loop of sendBatch: resend from ack_index, or done.
HandleAck(ack) ==
  IF ack < End
  THEN /\ rows' = IF ack > index THEN SubSeq(rows, ack - index + 1, Len(rows))
                                 ELSE rows
       /\ index' = ack
       /\ retries' = retries - 1
       /\ UNCHANGED <<wpc, next_index, total_sent>>
  ELSE /\ next_index' = End
       /\ total_sent' = total_sent + Len(batch)
       /\ wpc' = AfterSend
       /\ UNCHANGED <<rows, index, retries>>

Sending == wpc = "send" /\ retries > 0

\* updateLog returns the server's answer.
Answered ==
  /\ Sending
  /\ \E m \in StoreLengths :
       /\ Store(m)
       /\ HandleAck(WireAck(m))
       /\ unconfirmed' = (unconfirmed \/ (m < End /\ End <= WireAck(m)))
  /\ UNCHANGED <<appended, queue, done, batch, is_last, caller>>

\* The RPC times out, before or after the server has acted: doRPC_url returns
\* an empty string and updateLog reports every row as accepted.
TimedOut ==
  /\ Sending /\ "timeout" \in Faults
  /\ \/ \E m \in StoreLengths : Store(m)
     \/ UNCHANGED server
  /\ HandleAck(End)
  /\ unconfirmed' = TRUE
  /\ UNCHANGED <<appended, queue, done, batch, is_last, caller>>

\* updateLog throws, before or after the server has acted: sleep and retry.
Thrown ==
  /\ Sending
  /\ \/ "lost" \in Faults /\ \E m \in StoreLengths : Store(m)
     \/ "refused" \in Faults /\ UNCHANGED server
  /\ retries' = retries - 1
  /\ UNCHANGED <<appended, queue, done, wpc, batch, rows, is_last, index,
                 next_index, total_sent, caller, unconfirmed>>

\* After the last attempt the index is advanced by what is left of the batch.
GiveUp ==
  /\ wpc = "send" /\ retries = 0
  /\ next_index' = next_index + Len(rows)
  /\ wpc' = AfterSend
  /\ unconfirmed' = TRUE
  /\ UNCHANGED <<appended, queue, done, batch, rows, is_last, index, retries,
                 total_sent, caller, server>>

WorkerStep == Drain \/ LoadDone \/ Answered \/ TimedOut \/ Thrown \/ GiveUp

\* Nothing happens after finish() has returned.
Finished == caller = "finished" /\ UNCHANGED vars

Next == AppendLine \/ Finish \/ Join \/ WorkerStep \/ Finished

Spec == Init /\ [][Next]_vars

\* The worker is a thread of its own, every RPC ends by its own timeout and
\* the sleeps are finite; join() returns when the thread has ended. Whether
\* the job goes on writing, or ever finishes, is up to the job.
FairSpec == Spec /\ WF_vars(WorkerStep) /\ WF_vars(Join)

-----------------------------------------------------------------------------
(* Properties *)

Line == 1..appended

\* The types: only appended lines are queued, in a batch or on the server, and
\* an attempt is made only while sendBatch has one left.
TypeOK ==
  /\ appended \in 0..MaxLines
  /\ queue \in Seq(Line) /\ batch \in Seq(Line) /\ rows \in Seq(Line)
  /\ slog \in Seq(Line)
  /\ done \in BOOLEAN /\ is_last \in BOOLEAN /\ closed \in BOOLEAN
  /\ unconfirmed \in BOOLEAN
  /\ wpc \in {"wait", "drained", "send", "exited"}
  /\ caller \in {"running", "joining", "finished"}
  /\ index \in Nat /\ next_index \in Nat /\ total_sent \in Nat
  /\ retries \in 0..Retries

Stream == INSTANCE LogStream WITH produced <- appended, log <- slog

\* The re-delivery protocol of sendBatch is idempotent: whatever mixture of
\* partial acks, lost answers, timeouts and exhausted retries there was, the
\* server holds every line at most once and in the order it was appended.
ServerOrder == Stream!Increasing(slog)

\* As long as every batch was confirmed by an ack, resending from ack_index
\* leaves no hole: the server holds exactly the first lines of the job, and
\* between two batches next_index_ and total_sent_ both count them.
ConfirmedPrefix ==
  ~unconfirmed =>
    /\ \A i \in DOMAIN slog : slog[i] = i
    /\ wpc # "send" => next_index = Len(slog) /\ total_sent = Len(slog)

\* When finish() has returned and every batch was confirmed, the final call
\* with no_more has reached the server, after the last row that was sent.
FinishCloses == caller = "finished" /\ ~unconfirmed => closed

\* The forwarder implements LogStream: the server's log only grows, in order,
\* and not at all once it is closed.
StreamSpec == Stream!Spec

\* finish() returns: the worker sees done_, sends the final batch with a
\* bounded number of attempts and ends.
FinishReturns == caller = "joining" ~> caller = "finished"

-----------------------------------------------------------------------------
(* The inductive invariant behind the safety properties *)

AllBelow(s, t) == \A i \in DOMAIN s, j \in DOMAIN t : s[i] < t[j]

\* Lines move from the queue to the batch to the server without overtaking;
\* of the rows being sent, the server lacks those it does not count as held.
OrderInv ==
  /\ Stream!Increasing(slog) /\ Stream!Increasing(queue)
  /\ Stream!Increasing(batch) /\ Stream!Increasing(rows)
  /\ AllBelow(slog, queue) /\ AllBelow(batch, queue) /\ AllBelow(rows, queue)
  /\ wpc = "drained" => AllBelow(slog, batch)
  /\ wpc = "send" =>
       \A i \in DOMAIN slog, p \in DOMAIN rows :
         p > Len(slog) - index => slog[i] < rows[p]

\* Once closed, only the final batch is still being sent, and the server has
\* all of it.
ClosedInv ==
  closed => /\ is_last /\ wpc \in {"send", "exited"}
            /\ wpc = "send" => End <= Len(slog)

\* Without unconfirmed rows the lines are numbered without a hole across
\* server, rows and queue, and the indices count them.
CountInv ==
  /\ \A i \in DOMAIN queue : queue[i] = appended - Len(queue) + i
  /\ ~unconfirmed =>
       /\ \A i \in DOMAIN slog : slog[i] = i
       /\ wpc # "send" => next_index = Len(slog)
       /\ wpc # "send" => total_sent = Len(slog)
       /\ wpc = "wait" => Len(slog) + Len(queue) = appended
       /\ wpc = "drained" =>
            /\ Len(slog) + Len(batch) + Len(queue) = appended
            /\ \A i \in DOMAIN batch : batch[i] = Len(slog) + i
       /\ wpc = "send" =>
            /\ index <= Len(slog) /\ Len(slog) <= End
            /\ next_index = total_sent /\ next_index + Len(batch) = End
            /\ End + Len(queue) = appended
            /\ \A i \in DOMAIN rows : rows[i] = index + i
       /\ wpc = "exited" => closed

ExitInv == /\ wpc = "exited" => is_last
           /\ caller = "finished" => wpc = "exited"

IInv == TypeOK /\ OrderInv /\ ClosedInv /\ CountInv /\ ExitInv

-----------------------------------------------------------------------------
(* What the comments of the code claim and the code does not keep *)

\* LogForwarder.h: finish() waits "to flush all queued lines and send the
\* final UpdateLog(no_more=true) call".
FinishFlushes == caller = "finished" => Len(slog) = appended
=============================================================================
