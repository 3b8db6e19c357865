------------------------- MODULE LogForwarderProofs -------------------------
(* Proofs about LogForwarder, for every number of lines, batch size and set *)
(* of faults.                                                               *)
EXTENDS LogForwarder, SequenceTheorems, TLAPS

-----------------------------------------------------------------------------
(* Facts about sequences *)

\* A sequence over a set is a sequence over any larger set.
LEMMA SeqMono ==
  ASSUME NEW S, NEW T, S \subseteq T, NEW s \in Seq(S)
  PROVE  s \in Seq(T)
  OBVIOUS

\* What a sub-sequence within bounds holds and how long it is.
LEMMA SubSeqFacts ==
  ASSUME NEW S, NEW s \in Seq(S), NEW a \in Int, NEW b \in Int,
         1 <= a, b <= Len(s)
  PROVE  /\ SubSeq(s, a, b) \in Seq(S)
         /\ Len(SubSeq(s, a, b)) = (IF a <= b THEN b - a + 1 ELSE 0)
         /\ \A i \in 1..Len(SubSeq(s, a, b)) : SubSeq(s, a, b)[i] = s[a + i - 1]
  OBVIOUS

\* A log s of which rows r start at position x (counted from 0) is extended
\* to length m: the lines after the old ones are the matching rows.
LEMMA ExtendFacts ==
  ASSUME NEW S, NEW s \in Seq(S), NEW r \in Seq(S), NEW x \in Nat, NEW m \in Nat,
         x <= Len(s), Len(s) <= m, m <= x + Len(r)
  PROVE  LET t == s \o SubSeq(r, Len(s) + 1 - x, m - x) IN
         /\ t \in Seq(S) /\ Len(t) = m
         /\ \A i \in 1..Len(s) : t[i] = s[i]
         /\ \A i \in (Len(s) + 1)..m : i - x \in 1..Len(r) /\ t[i] = r[i - x]
  <1> DEFINE t == s \o SubSeq(r, Len(s) + 1 - x, m - x)
             a == Len(s) + 1 - x
             b == m - x
             n == SubSeq(r, a, b)
  <1>0. Len(s) \in Nat /\ Len(r) \in Nat
    OBVIOUS
  <1>1. a \in Int /\ b \in Int /\ 1 <= a /\ b <= Len(r) /\ b - a + 1 = m - Len(s)
    BY <1>0
  <1> HIDE DEF a, b
  <1>2. /\ n \in Seq(S)
        /\ Len(n) = (IF a <= b THEN b - a + 1 ELSE 0)
        /\ \A i \in 1..Len(n) : n[i] = r[a + i - 1]
    BY <1>1, SubSeqFacts
  <1>3. t = s \o n
    BY DEF a, b
  <1>3a. /\ s \o n \in Seq(S) /\ Len(s \o n) = Len(s) + Len(n)
         /\ \A i \in 1..Len(s) : (s \o n)[i] = s[i]
         /\ \A i \in (Len(s) + 1)..(Len(s) + Len(n)) : (s \o n)[i] = n[i - Len(s)]
    <2>1. n \in Seq(S)
      BY <1>2
    <2> HIDE DEF n, t
    <2> QED BY <2>1
  <1> HIDE DEF n, t
  <1>4. Len(n) = m - Len(s)
    BY <1>0, <1>1, <1>2
  <1>5. /\ t \in Seq(S) /\ Len(t) = Len(s) + Len(n)
        /\ \A i \in 1..Len(s) : t[i] = s[i]
        /\ \A i \in (Len(s) + 1)..(Len(s) + Len(n)) : t[i] = n[i - Len(s)]
    BY <1>3, <1>3a
  <1>6. Len(s) + Len(n) = m
    BY <1>0, <1>4
  <1>7. ASSUME NEW i \in (Len(s) + 1)..m
        PROVE  i - x \in 1..Len(r) /\ t[i] = r[i - x]
    <2>1. t[i] = n[i - Len(s)]
      BY <1>5, <1>6
    <2>2. i - Len(s) \in 1..Len(n)
      BY <1>0, <1>4
    <2>3. n[i - Len(s)] = r[a + (i - Len(s)) - 1]
      BY <1>2, <2>2
    <2>4. a + (i - Len(s)) - 1 = i - x
      BY <1>0 DEF a
    <2>5. i - x \in 1..Len(r)
      BY <1>0
    <2> QED BY <2>1, <2>3, <2>4, <2>5
  <1> QED BY <1>5, <1>6, <1>7 DEF t

\* A sub-sequence that ends before it starts.
LEMMA EmptySubSeq ==
  ASSUME NEW S, NEW s \in Seq(S), NEW a \in Int, NEW b \in Int, b < a
  PROVE  SubSeq(s, a, b) = <<>>
  OBVIOUS

-----------------------------------------------------------------------------
(* Type correctness *)

\* What the server holds after storing up to length m.
LEMMA StoreFacts ==
  ASSUME TypeOK, NEW m \in StoreLengths, Store(m)
  PROVE  /\ m \in Nat /\ Len(slog) <= m
         /\ slog' \in Seq(Line) /\ Len(slog') = m
         /\ \A i \in 1..Len(slog) : slog'[i] = slog[i]
         /\ \A i \in (Len(slog) + 1)..m :
              i - index \in 1..Len(rows) /\ slog'[i] = rows[i - index]
         /\ Len(slog) < m => index <= Len(slog) /\ m <= End
  <1>1. slog \in Seq(Line) /\ rows \in Seq(Line) /\ index \in Nat
    BY DEF TypeOK
  <1>2. slog' = slog \o SubSeq(rows, Len(slog) + 1 - index, m - index)
    BY DEF Store
  <1>3. Len(slog) \in Nat /\ Len(rows) \in Nat
    BY <1>1
  <1>4. CASE index <= Len(slog) /\ Len(slog) < End
    <2>1. m \in Nat /\ Len(slog) <= m /\ m <= End
      BY <1>1, <1>3, <1>4 DEF StoreLengths, End
    <2>2. m <= index + Len(rows)
      BY <2>1 DEF End
    <2> DEFINE t == slog \o SubSeq(rows, Len(slog) + 1 - index, m - index)
    <2>3. /\ t \in Seq(Line) /\ Len(t) = m
          /\ \A i \in 1..Len(slog) : t[i] = slog[i]
          /\ \A i \in (Len(slog) + 1)..m :
               i - index \in 1..Len(rows) /\ t[i] = rows[i - index]
      BY <1>1, <1>4, <2>1, <2>2, ExtendFacts
    <2> HIDE DEF t
    <2>4. slog' = t
      BY <1>2 DEF t
    <2> QED BY <1>4, <2>1, <2>3, <2>4
  <1>5. CASE ~(index <= Len(slog) /\ Len(slog) < End)
    <2>1. m = Len(slog)
      BY <1>5 DEF StoreLengths
    <2>2. SubSeq(rows, Len(slog) + 1 - index, m - index) = <<>>
      <3>1. m - index < Len(slog) + 1 - index
        BY <1>1, <1>3, <2>1
      <3>2. Len(slog) + 1 - index \in Int /\ m - index \in Int
        BY <1>1, <1>3, <2>1
      <3> QED BY <1>1, <3>1, <3>2, EmptySubSeq
    <2>3. slog' = slog
      BY <1>1, <1>2, <2>2, ConcatEmptySeq
    <2> QED BY <1>1, <1>3, <2>1, <2>3
  <1> QED BY <1>4, <1>5

\* The rows that are left when the first k are dropped.
LEMMA TrimFacts ==
  ASSUME NEW S, NEW s \in Seq(S), NEW k \in Nat, k <= Len(s)
  PROVE  LET t == SubSeq(s, k + 1, Len(s)) IN
         /\ t \in Seq(S) /\ Len(t) = Len(s) - k
         /\ \A i \in 1..Len(t) : i + k \in 1..Len(s) /\ t[i] = s[i + k]
  OBVIOUS

\* The first k elements.
LEMMA TakeFacts ==
  ASSUME NEW S, NEW s \in Seq(S), NEW k \in Nat, k <= Len(s)
  PROVE  LET t == SubSeq(s, 1, k) IN
         /\ t \in Seq(S) /\ Len(t) = k
         /\ \A i \in 1..k : i \in 1..Len(s) /\ t[i] = s[i]
  OBVIOUS

\* What is left to send after an ack, and from which index.
LEMMA AckFacts ==
  ASSUME TypeOK, NEW ack \in Nat, HandleAck(ack)
  PROVE  \/ /\ ack < End /\ index' = ack /\ retries' = retries - 1
            /\ UNCHANGED <<wpc, next_index, total_sent>>
            /\ rows' \in Seq(Line)
            /\ \/ /\ ack <= index /\ rows' = rows
               \/ /\ index < ack
                  /\ Len(rows') = Len(rows) - (ack - index)
                  /\ \A i \in 1..Len(rows') :
                       /\ i + (ack - index) \in 1..Len(rows)
                       /\ rows'[i] = rows[i + (ack - index)]
         \/ /\ End <= ack /\ next_index' = End /\ wpc' = AfterSend
            /\ total_sent' = total_sent + Len(batch)
            /\ UNCHANGED <<rows, index, retries>>
  <1>1. rows \in Seq(Line) /\ index \in Nat /\ Len(rows) \in Nat
    BY DEF TypeOK
  <1>2. CASE End <= ack
    BY <1>1, <1>2 DEF HandleAck, End
  <1>3. CASE ack < End /\ ack <= index
    BY <1>1, <1>3 DEF HandleAck, End
  <1>4. CASE ack < End /\ index < ack
    <2> DEFINE k == ack - index
               t == SubSeq(rows, k + 1, Len(rows))
    <2>1. k \in Nat /\ k <= Len(rows)
      BY <1>1, <1>4 DEF End
    <2>2. /\ t \in Seq(Line) /\ Len(t) = Len(rows) - k
          /\ \A i \in 1..Len(t) : i + k \in 1..Len(rows) /\ t[i] = rows[i + k]
      <3> HIDE DEF k
      <3> QED BY <1>1, <2>1, TrimFacts
    <2>3. rows' = t /\ index' = ack /\ retries' = retries - 1
          /\ UNCHANGED <<wpc, next_index, total_sent>>
      BY <1>1, <1>4 DEF HandleAck, End
    <2> HIDE DEF t
    <2> QED BY <1>4, <2>2, <2>3
  <1> QED BY <1>1, <1>2, <1>3, <1>4 DEF End

\* An ack keeps the types of what it changes.
LEMMA AckTypes ==
  ASSUME TypeOK, NEW ack \in Nat, HandleAck(ack), Sending
  PROVE  /\ rows' \in Seq(Line) /\ index' \in Nat
         /\ retries' \in 0..Retries /\ next_index' \in Nat
         /\ total_sent' \in Nat /\ wpc' \in {"wait", "drained", "send", "exited"}
  <1>1. /\ rows \in Seq(Line) /\ index \in Nat /\ Len(rows) \in Nat
        /\ retries \in 0..Retries /\ retries > 0 /\ next_index \in Nat
        /\ total_sent \in Nat /\ Len(batch) \in Nat
        /\ wpc \in {"wait", "drained", "send", "exited"}
    BY DEF TypeOK, Sending
  <1>2. End \in Nat /\ AfterSend \in {"wait", "exited"} /\ Retries = 3
    BY <1>1 DEF End, AfterSend, Retries
  <1>3. CASE ack < End
    <2>1. /\ index' = ack /\ retries' = retries - 1 /\ rows' \in Seq(Line)
          /\ UNCHANGED <<wpc, next_index, total_sent>>
      BY <1>2, <1>3, AckFacts
    <2> QED BY <1>1, <1>2, <2>1
  <1>4. CASE End <= ack
    <2>1. /\ next_index' = End /\ wpc' = AfterSend
          /\ total_sent' = total_sent + Len(batch)
          /\ UNCHANGED <<rows, index, retries>>
      BY <1>2, <1>4, AckFacts
    <2> QED BY <1>1, <1>2, <2>1
  <1> QED BY <1>2, <1>3, <1>4

\* Every state of the forwarder is well typed.
THEOREM TypeCorrect == Spec => []TypeOK
  <1>1. Init => TypeOK
    <2> SUFFICES ASSUME Init PROVE TypeOK
      OBVIOUS
    <2>1. queue \in Seq(Line) /\ batch \in Seq(Line) /\ rows \in Seq(Line)
          /\ slog \in Seq(Line)
      BY DEF Init
    <2>2. appended \in 0..MaxLines /\ retries \in 0..Retries
          /\ index \in Nat /\ next_index \in Nat /\ total_sent \in Nat
      BY LinesAssumption DEF Init, Retries
    <2>3. done \in BOOLEAN /\ is_last \in BOOLEAN /\ closed \in BOOLEAN
          /\ unconfirmed \in BOOLEAN
      BY DEF Init
    <2>4. wpc \in {"wait", "drained", "send", "exited"}
          /\ caller \in {"running", "joining", "finished"}
      BY DEF Init
    <2> QED BY <2>1, <2>2, <2>3, <2>4 DEF TypeOK
  <1>2. TypeOK /\ [Next]_vars => TypeOK'
    <2> SUFFICES ASSUME TypeOK, [Next]_vars PROVE TypeOK'
      OBVIOUS
    <2> USE LinesAssumption, BatchAssumption DEF worker, server
    <2>1. CASE AppendLine
      <3>1. appended' \in 0..MaxLines /\ Line \subseteq Line'
        BY <2>1 DEF AppendLine, TypeOK, Line
      <3>2. queue \in Seq(Line') /\ batch \in Seq(Line')
            /\ rows \in Seq(Line') /\ slog \in Seq(Line')
        BY <3>1, SeqMono DEF TypeOK
      <3>3. appended + 1 \in Line'
        BY <2>1 DEF AppendLine, TypeOK, Line
      <3>4. queue' \in Seq(Line')
        BY <2>1, <3>2, <3>3 DEF AppendLine
      <3> QED BY <2>1, <3>1, <3>2, <3>4 DEF AppendLine, TypeOK
    <2>2. CASE Finish
      BY <2>2 DEF Finish, TypeOK, Line
    <2>3. CASE Join
      BY <2>3 DEF Join, TypeOK, Line
    <2>4. CASE Drain
      <3> DEFINE k == Least(Len(queue), BatchSize)
      <3>1. queue \in Seq(Line) /\ Len(queue) \in Nat
        BY DEF TypeOK
      <3>2. k \in Nat /\ k <= Len(queue)
        BY <3>1 DEF Least
      <3>3. batch' = SubSeq(queue, 1, k) /\ queue' = SubSeq(queue, k + 1, Len(queue))
        BY <2>4 DEF Drain
      <3> HIDE DEF k
      <3>4. SubSeq(queue, 1, k) \in Seq(Line)
        BY <3>1, <3>2, TakeFacts
      <3>5. SubSeq(queue, k + 1, Len(queue)) \in Seq(Line)
        BY <3>1, <3>2, TrimFacts
      <3>6. Line' = Line
        BY <2>4 DEF Drain, Line
      <3> QED BY <2>4, <3>3, <3>4, <3>5, <3>6 DEF Drain, TypeOK
    <2>5. CASE LoadDone
      BY <2>5 DEF LoadDone, TypeOK, Line, Retries
    <2>6. CASE Answered
      <3>1. PICK m \in StoreLengths : Store(m) /\ HandleAck(WireAck(m))
                                      /\ unconfirmed' \in BOOLEAN
        BY <2>6 DEF Answered, TypeOK
      <3>2. m \in Nat /\ slog' \in Seq(Line) /\ closed' \in BOOLEAN
        BY <3>1, StoreFacts DEF Store, TypeOK
      <3>3. WireAck(m) \in Nat
        BY <3>2 DEF WireAck, End, TypeOK
      <3>4. /\ rows' \in Seq(Line) /\ index' \in Nat
            /\ retries' \in 0..Retries /\ next_index' \in Nat
            /\ total_sent' \in Nat /\ wpc' \in {"wait", "drained", "send", "exited"}
        BY <2>6, <3>1, <3>3, AckTypes DEF Answered
      <3>5. Line' = Line
        BY <2>6 DEF Answered, Line
      <3> QED BY <2>6, <3>1, <3>2, <3>4, <3>5 DEF Answered, TypeOK
    <2>7. CASE TimedOut
      <3>1. slog' \in Seq(Line) /\ closed' \in BOOLEAN
        BY <2>7, StoreFacts DEF TimedOut, Store, TypeOK
      <3>2. End \in Nat /\ HandleAck(End)
        BY <2>7 DEF TimedOut, End, TypeOK
      <3>3. /\ rows' \in Seq(Line) /\ index' \in Nat
            /\ retries' \in 0..Retries /\ next_index' \in Nat
            /\ total_sent' \in Nat /\ wpc' \in {"wait", "drained", "send", "exited"}
        BY <2>7, <3>2, AckTypes DEF TimedOut
      <3>4. Line' = Line
        BY <2>7 DEF TimedOut, Line
      <3> QED BY <2>7, <3>1, <3>3, <3>4 DEF TimedOut, TypeOK
    <2>8. CASE Thrown
      <3>1. slog' \in Seq(Line) /\ closed' \in BOOLEAN
        BY <2>8, StoreFacts DEF Thrown, Store, TypeOK
      <3>2. Line' = Line
        BY <2>8 DEF Thrown, Line
      <3>3. retries' \in 0..Retries
        BY <2>8 DEF Thrown, Sending, TypeOK, Retries
      <3> QED BY <2>8, <3>1, <3>2, <3>3 DEF Thrown, TypeOK
    <2>9. CASE GiveUp
      BY <2>9 DEF GiveUp, AfterSend, TypeOK, Line
    <2>10. CASE UNCHANGED vars
      BY <2>10 DEF vars, TypeOK, Line
    <2> QED BY <2>1, <2>2, <2>3, <2>4, <2>5, <2>6, <2>7, <2>8, <2>9, <2>10
            DEF Next, WorkerStep, Finished
  <1> QED BY <1>1, <1>2, PTL DEF Spec

-----------------------------------------------------------------------------
(* The order of the lines *)

\* Storing rows keeps the server's lines in order, below the queued lines and
\* below the rows the server still lacks.
LEMMA StoreOrder ==
  ASSUME TypeOK, OrderInv, wpc = "send", NEW m \in StoreLengths, Store(m)
  PROVE  /\ Stream!Increasing(slog')
         /\ AllBelow(slog', queue)
         /\ \A i \in DOMAIN slog', p \in DOMAIN rows :
              p > Len(slog') - index => slog'[i] < rows[p]
  <1> USE DEF Stream!Increasing, AllBelow
  <1>1. /\ slog \in Seq(Line) /\ rows \in Seq(Line) /\ queue \in Seq(Line)
        /\ index \in Nat /\ Line \subseteq Nat
    BY DEF TypeOK, Line
  <1>2. /\ m \in Nat /\ Len(slog) <= m
        /\ slog' \in Seq(Line) /\ Len(slog') = m
        /\ \A i \in 1..Len(slog) : slog'[i] = slog[i]
        /\ \A i \in (Len(slog) + 1)..m :
             i - index \in 1..Len(rows) /\ slog'[i] = rows[i - index]
    BY StoreFacts
  <1>3. /\ \A i, j \in 1..Len(slog) : i < j => slog[i] < slog[j]
        /\ \A i, j \in 1..Len(rows) : i < j => rows[i] < rows[j]
        /\ \A i \in 1..Len(slog), j \in 1..Len(queue) : slog[i] < queue[j]
        /\ \A i \in 1..Len(rows), j \in 1..Len(queue) : rows[i] < queue[j]
        /\ \A i \in 1..Len(slog), p \in 1..Len(rows) :
             p > Len(slog) - index => slog[i] < rows[p]
    BY <1>1 DEF OrderInv
  <1>4. DOMAIN slog' = 1..m /\ DOMAIN rows = 1..Len(rows)
        /\ DOMAIN queue = 1..Len(queue) /\ Len(slog) \in Nat
    BY <1>1, <1>2
  <1>5. ASSUME NEW i \in 1..m, NEW j \in 1..m, i < j
        PROVE  slog'[i] < slog'[j]
    <2>1. CASE j <= Len(slog)
      BY <1>2, <1>3, <1>4, <1>5, <2>1
    <2>2. CASE i <= Len(slog) /\ Len(slog) < j
      <3>1. slog'[i] = slog[i] /\ i \in 1..Len(slog)
        BY <1>2, <1>4, <2>2
      <3>2. j - index \in 1..Len(rows) /\ slog'[j] = rows[j - index]
        BY <1>2, <1>4, <2>2
      <3>3. j - index > Len(slog) - index
        BY <1>1, <1>4, <2>2
      <3> QED BY <1>3, <3>1, <3>2, <3>3
    <2>3. CASE Len(slog) < i
      <3>1. i - index \in 1..Len(rows) /\ slog'[i] = rows[i - index]
        BY <1>2, <1>4, <2>3
      <3>2. j - index \in 1..Len(rows) /\ slog'[j] = rows[j - index]
        BY <1>2, <1>4, <1>5, <2>3
      <3>3. i - index < j - index
        BY <1>1, <1>5
      <3> QED BY <1>3, <3>1, <3>2, <3>3
    <2> QED BY <1>4, <2>1, <2>2, <2>3
  <1>6. ASSUME NEW i \in 1..m, NEW j \in 1..Len(queue)
        PROVE  slog'[i] < queue[j]
    <2>1. CASE i <= Len(slog)
      BY <1>2, <1>3, <1>4, <2>1
    <2>2. CASE Len(slog) < i
      BY <1>2, <1>3, <1>4, <2>2
    <2> QED BY <1>4, <2>1, <2>2
  <1>7. ASSUME NEW i \in 1..m, NEW p \in 1..Len(rows), p > m - index
        PROVE  slog'[i] < rows[p]
    <2>1. CASE i <= Len(slog)
      <3>1. p > Len(slog) - index
        BY <1>1, <1>2, <1>4, <1>7
      <3> QED BY <1>2, <1>3, <1>4, <2>1, <3>1
    <2>2. CASE Len(slog) < i
      <3>1. i - index \in 1..Len(rows) /\ slog'[i] = rows[i - index]
        BY <1>2, <1>4, <2>2
      <3>2. i - index < p
        BY <1>1, <1>2, <1>7
      <3> QED BY <1>3, <3>1, <3>2
    <2> QED BY <1>4, <2>1, <2>2
  <1> QED BY <1>2, <1>4, <1>5, <1>6, <1>7

\* An acknowledgement that the server has just sent keeps the order.
LEMMA AckOrder ==
  ASSUME TypeOK, OrderInv, wpc = "send", UNCHANGED <<queue, batch>>,
         Stream!Increasing(slog'), AllBelow(slog', queue),
         slog' \in Seq(Line),
         \A i \in DOMAIN slog', p \in DOMAIN rows :
           p > Len(slog') - index => slog'[i] < rows[p],
         NEW ack \in Nat, HandleAck(ack), ack < End => ack = Len(slog')
  PROVE  OrderInv'
  <1> USE DEF Stream!Increasing, AllBelow
  <1>1. rows \in Seq(Line) /\ index \in Nat /\ Line \subseteq Nat
        /\ queue \in Seq(Line) /\ Len(rows) \in Nat
    BY DEF TypeOK, Line
  <1>2. CASE End <= ack
    <2>1. UNCHANGED <<rows, index>> /\ wpc' = AfterSend
      BY <1>1, <1>2, AckFacts DEF End
    <2>2. wpc' # "send" /\ wpc' # "drained"
      BY <2>1 DEF AfterSend
    <2> QED BY <2>1, <2>2 DEF OrderInv
  <1>3. CASE ack < End /\ ack <= index
    <2>1. rows' = rows /\ index' = ack /\ wpc' = wpc /\ ack = Len(slog')
      BY <1>1, <1>3 DEF HandleAck, End
    <2>2. \A p \in DOMAIN rows : p > Len(slog') - index
      BY <1>1, <1>3, <2>1
    <2> QED BY <2>1, <2>2 DEF OrderInv
  <1>4. CASE ack < End /\ index < ack
    <2> DEFINE k == ack - index
    <2>1. /\ index' = ack /\ wpc' = wpc /\ rows' \in Seq(Line)
          /\ Len(rows') = Len(rows) - k /\ ack = Len(slog')
          /\ \A i \in 1..Len(rows') : i + k \in 1..Len(rows) /\ rows'[i] = rows[i + k]
      BY <1>1, <1>4, AckFacts DEF End
    <2>2. k \in Nat
      BY <1>1, <1>4
    <2>3. DOMAIN rows' = 1..Len(rows') /\ DOMAIN rows = 1..Len(rows)
      BY <1>1, <2>1
    <2> HIDE DEF k
    <2>4. Stream!Increasing(rows')
      <3>1. \A i, j \in 1..Len(rows) : i < j => rows[i] < rows[j]
        BY <2>3 DEF OrderInv
      <3>2. ASSUME NEW i \in 1..Len(rows'), NEW j \in 1..Len(rows'), i < j
            PROVE  rows'[i] < rows'[j]
        <4>1. i + k < j + k
          BY <2>2, <3>2
        <4> QED BY <2>1, <3>1, <4>1
      <3> QED BY <2>3, <3>2
    <2>5. AllBelow(rows', queue')
      BY <1>1, <2>1, <2>2, <2>3 DEF OrderInv
    <2>6. ASSUME NEW i \in DOMAIN slog', NEW p \in DOMAIN rows'
          PROVE  slog'[i] < rows'[p]
      <3>1. p + k \in DOMAIN rows /\ rows'[p] = rows[p + k]
        BY <2>1, <2>3
      <3>2. p + k > Len(slog') - index
        BY <1>1, <2>1, <2>3 DEF k
      <3> QED BY <3>1, <3>2
    <2> QED BY <2>1, <2>4, <2>5, <2>6 DEF OrderInv
  <1> QED BY <1>1, <1>2, <1>3, <1>4 DEF End

\* Every step keeps the order.
LEMMA OrderStep == TypeOK /\ OrderInv /\ [Next]_vars => OrderInv'
  <1> SUFFICES ASSUME TypeOK, OrderInv, [Next]_vars PROVE OrderInv'
    OBVIOUS
  <1> USE LinesAssumption, BatchAssumption DEF worker, server
  <1>0. /\ Line \subseteq Nat
        /\ queue \in Seq(Line) /\ batch \in Seq(Line)
        /\ rows \in Seq(Line) /\ slog \in Seq(Line)
    BY DEF TypeOK, Line
  <1>1. CASE AppendLine
    <2>1. queue' = Append(queue, appended + 1) /\ UNCHANGED <<worker, slog>>
      BY <1>1 DEF AppendLine
    <2>2. appended \in Nat /\ Line = 1..appended
      BY DEF TypeOK, Line
    <2>3. /\ DOMAIN queue' = 1..(Len(queue) + 1) /\ DOMAIN queue = 1..Len(queue)
          /\ Len(queue) \in Nat
          /\ queue'[Len(queue) + 1] = appended + 1
          /\ \A i \in 1..Len(queue) : queue'[i] = queue[i]
      BY <1>0, <2>1, <2>2
    <2>4. ASSUME NEW s \in Seq(Line), AllBelow(s, queue)
          PROVE  AllBelow(s, queue')
      <3>1. \A i \in DOMAIN s : s[i] < appended + 1
        BY <2>2
      <3> QED BY <2>3, <2>4, <3>1 DEF AllBelow
    <2>5. Stream!Increasing(queue')
      <3>1. \A i, j \in 1..Len(queue) : i < j => queue[i] < queue[j]
        BY <2>3 DEF OrderInv, Stream!Increasing
      <3>2. \A i \in 1..Len(queue) : queue[i] < appended + 1
        BY <1>0, <2>2
      <3> QED BY <2>3, <3>1, <3>2 DEF Stream!Increasing
    <2>6. AllBelow(slog, queue') /\ AllBelow(batch, queue') /\ AllBelow(rows, queue')
      BY <1>0, <2>4 DEF OrderInv
    <2> QED BY <2>1, <2>5, <2>6 DEF OrderInv, AllBelow, Stream!Increasing
  <1>2. CASE Finish \/ Join
    BY <1>2 DEF Finish, Join, OrderInv, AllBelow, Stream!Increasing
  <1>3. CASE Drain
    <2> DEFINE k == Least(Len(queue), BatchSize)
    <2>1. Len(queue) \in Nat /\ k \in Nat /\ k <= Len(queue)
      BY <1>0 DEF Least
    <2>2. /\ batch' = SubSeq(queue, 1, k) /\ queue' = SubSeq(queue, k + 1, Len(queue))
          /\ wpc' = "drained" /\ UNCHANGED <<rows, slog>>
      BY <1>3 DEF Drain
    <2> HIDE DEF k
    <2>3. /\ batch' \in Seq(Line) /\ Len(batch') = k
          /\ \A i \in 1..k : i \in 1..Len(queue) /\ batch'[i] = queue[i]
      BY <1>0, <2>1, <2>2, TakeFacts
    <2>4. /\ queue' \in Seq(Line) /\ Len(queue') = Len(queue) - k
          /\ \A i \in 1..Len(queue') : i + k \in 1..Len(queue) /\ queue'[i] = queue[i + k]
      BY <1>0, <2>1, <2>2, TrimFacts
    <2>5. DOMAIN batch' = 1..k /\ DOMAIN queue' = 1..Len(queue')
          /\ DOMAIN queue = 1..Len(queue)
      BY <1>0, <2>3, <2>4
    <2>6. \A i, j \in 1..Len(queue) : i < j => queue[i] < queue[j]
      BY <2>5 DEF OrderInv, Stream!Increasing
    <2>7. Stream!Increasing(batch')
      BY <2>3, <2>5, <2>6 DEF Stream!Increasing
    <2>8. Stream!Increasing(queue')
      <3>1. ASSUME NEW i \in 1..Len(queue'), NEW j \in 1..Len(queue'), i < j
            PROVE  queue'[i] < queue'[j]
        <4>1. i + k < j + k
          BY <2>1, <3>1
        <4> QED BY <2>4, <2>6, <4>1
      <3> QED BY <2>5, <3>1 DEF Stream!Increasing
    <2>9. AllBelow(slog', queue') /\ AllBelow(rows', queue') /\ AllBelow(slog', batch')
      <3>1. AllBelow(slog, queue) /\ AllBelow(rows, queue)
        BY DEF OrderInv
      <3>2. \A i \in DOMAIN slog, j \in 1..Len(queue) : slog[i] < queue[j]
        BY <2>5, <3>1 DEF AllBelow
      <3>3. \A i \in DOMAIN rows, j \in 1..Len(queue) : rows[i] < queue[j]
        BY <2>5, <3>1 DEF AllBelow
      <3>4. AllBelow(slog, queue')
        BY <2>4, <2>5, <3>2 DEF AllBelow
      <3>5. AllBelow(rows, queue')
        BY <2>4, <2>5, <3>3 DEF AllBelow
      <3>6. AllBelow(slog, batch')
        BY <2>3, <2>5, <3>2 DEF AllBelow
      <3> QED BY <2>2, <3>4, <3>5, <3>6
    <2>10. AllBelow(batch', queue')
      <3>1. ASSUME NEW i \in 1..k, NEW j \in 1..Len(queue')
            PROVE  batch'[i] < queue'[j]
        <4>1. i < j + k
          BY <2>1
        <4> QED BY <2>3, <2>4, <2>6, <4>1
      <3> QED BY <2>5, <3>1 DEF AllBelow
    <2> QED BY <2>2, <2>7, <2>8, <2>9, <2>10
            DEF OrderInv, Stream!Increasing
  <1>4. CASE LoadDone
    BY <1>4 DEF LoadDone, OrderInv, AllBelow, Stream!Increasing
  <1>5. CASE Answered
    <2>1. PICK m \in StoreLengths : Store(m) /\ HandleAck(WireAck(m))
      BY <1>5 DEF Answered
    <2>2. wpc = "send" /\ UNCHANGED <<queue, batch>>
      BY <1>5 DEF Answered, Sending
    <2>3. m \in Nat /\ slog' \in Seq(Line) /\ Len(slog') = m
      BY <2>1, StoreFacts
    <2>4. WireAck(m) \in Nat /\ (WireAck(m) < End => WireAck(m) = Len(slog'))
      BY <2>3 DEF WireAck, End, TypeOK
    <2> QED BY <2>1, <2>2, <2>3, <2>4, StoreOrder, AckOrder
  <1>6. CASE TimedOut
    <2>1. wpc = "send" /\ UNCHANGED <<queue, batch, rows, index>> /\ wpc' = AfterSend
      BY <1>6 DEF TimedOut, Sending, HandleAck, End, TypeOK
    <2>2. wpc' # "send" /\ wpc' # "drained"
      BY <2>1 DEF AfterSend
    <2>3. Stream!Increasing(slog') /\ AllBelow(slog', queue)
      BY <1>6, <2>1, StoreOrder DEF TimedOut, OrderInv, Stream!Increasing, AllBelow
    <2> QED BY <2>1, <2>2, <2>3 DEF OrderInv, Stream!Increasing, AllBelow
  <1>7. CASE Thrown
    <2>1. wpc = "send" /\ UNCHANGED <<queue, batch, rows, index, wpc>>
      BY <1>7 DEF Thrown, Sending
    <2>2. CASE UNCHANGED server
      BY <2>1, <2>2 DEF OrderInv, Stream!Increasing, AllBelow
    <2>3. CASE \E m \in StoreLengths : Store(m)
      <3>1. /\ Stream!Increasing(slog') /\ AllBelow(slog', queue)
            /\ \A i \in DOMAIN slog', p \in DOMAIN rows :
                 p > Len(slog') - index => slog'[i] < rows[p]
        BY <2>1, <2>3, StoreOrder
      <3> QED BY <2>1, <3>1 DEF OrderInv, Stream!Increasing, AllBelow
    <2> QED BY <1>7, <2>2, <2>3 DEF Thrown
  <1>8. CASE GiveUp
    BY <1>8 DEF GiveUp, AfterSend, OrderInv, Stream!Increasing, AllBelow
  <1>9. CASE UNCHANGED vars
    BY <1>9 DEF vars, OrderInv, Stream!Increasing, AllBelow
  <1> QED BY <1>1, <1>2, <1>3, <1>4, <1>5, <1>6, <1>7, <1>8, <1>9
          DEF Next, WorkerStep, Finished

-----------------------------------------------------------------------------
(* Closing the log and ending the worker *)

\* The worker ends only after the last batch, and finish() after the worker.
LEMMA ExitStep == TypeOK /\ ExitInv /\ [Next]_vars => ExitInv'
  BY DEF TypeOK, ExitInv, Next, WorkerStep, Finished, vars, worker, server,
         AppendLine, Finish, Join, Drain, LoadDone, Answered, TimedOut, Thrown,
         GiveUp, HandleAck, AfterSend, Sending

\* Every step keeps ClosedInv, and stores nothing once the log is closed.
LEMMA ClosedStep ==
  TypeOK /\ ClosedInv /\ [Next]_vars
    => ClosedInv' /\ (closed => closed' /\ slog' = slog)
  <1> SUFFICES ASSUME TypeOK, ClosedInv, [Next]_vars
               PROVE  ClosedInv' /\ (closed => closed' /\ slog' = slog)
    OBVIOUS
  <1> USE DEF worker, server
  <1>0. /\ slog \in Seq(Line) /\ rows \in Seq(Line) /\ index \in Nat
        /\ Len(slog) \in Nat /\ Len(rows) \in Nat /\ End \in Nat
        /\ closed \in BOOLEAN /\ is_last \in BOOLEAN
    BY DEF TypeOK, End
  <1>1. CASE AppendLine \/ Finish \/ Join \/ Drain \/ LoadDone \/ GiveUp
    BY <1>1 DEF AppendLine, Finish, Join, Drain, LoadDone, GiveUp, AfterSend,
                ClosedInv, End
  <1>2. ASSUME NEW m \in StoreLengths, Store(m), wpc = "send"
        PROVE  /\ closed => m = Len(slog) /\ slog' = slog /\ End <= m
               /\ closed' = (closed \/ (is_last /\ End <= m))
               /\ m \in Nat /\ Len(slog') = m
    <2>1. /\ m \in Nat /\ Len(slog) <= m /\ Len(slog') = m
          /\ slog' \in Seq(Line)
          /\ \A i \in 1..Len(slog) : slog'[i] = slog[i]
      BY <1>2, StoreFacts
    <2>2. ASSUME closed PROVE m = Len(slog) /\ End <= m /\ slog' = slog
      <3>1. End <= Len(slog)
        BY <1>2, <2>2 DEF ClosedInv
      <3>2. m = Len(slog)
        BY <1>0, <3>1 DEF StoreLengths
      <3>3. slog' = slog
        BY <1>0, <2>1, <3>2
      <3> QED BY <3>1, <3>2, <3>3
    <2> QED BY <1>2, <2>1, <2>2 DEF Store
  <1>3. CASE Answered
    <2>1. PICK m \in StoreLengths : Store(m) /\ HandleAck(WireAck(m))
      BY <1>3 DEF Answered
    <2>2. wpc = "send" /\ UNCHANGED is_last
      BY <1>3 DEF Answered, Sending
    <2>3. /\ closed => m = Len(slog) /\ slog' = slog /\ End <= m
          /\ closed' = (closed \/ (is_last /\ End <= m)) /\ m \in Nat
      BY <1>2, <2>1, <2>2
    <2>4. ASSUME closed' PROVE is_last /\ wpc' = "exited"
      <3>1. is_last /\ End <= m
        BY <2>2, <2>3, <2>4 DEF ClosedInv
      <3>2. End <= WireAck(m)
        BY <1>0, <2>3, <3>1 DEF WireAck
      <3>3. wpc' = AfterSend
        BY <1>0, <2>1, <2>3, <3>2 DEF HandleAck, WireAck
      <3> QED BY <3>1, <3>3 DEF AfterSend
    <2> QED BY <2>2, <2>3, <2>4 DEF ClosedInv
  <1>4. CASE TimedOut
    <2>1. wpc = "send" /\ UNCHANGED is_last /\ wpc' = AfterSend
      BY <1>0, <1>4 DEF TimedOut, Sending, HandleAck
    <2>2. (closed => closed' /\ slog' = slog) /\ (closed' => is_last)
      <3>1. CASE UNCHANGED server
        BY <3>1, <2>1 DEF ClosedInv
      <3>2. CASE \E m \in StoreLengths : Store(m)
        BY <3>2, <1>0, <1>2, <2>1 DEF ClosedInv
      <3> QED BY <1>4, <3>1, <3>2 DEF TimedOut
    <2> QED BY <2>1, <2>2 DEF ClosedInv, AfterSend
  <1>5. CASE Thrown
    <2>1. wpc = "send" /\ UNCHANGED <<is_last, wpc, rows, index>>
      BY <1>5 DEF Thrown, Sending
    <2>2. CASE UNCHANGED server
      BY <2>1, <2>2 DEF ClosedInv, End
    <2>3. CASE \E m \in StoreLengths : Store(m)
      <3>1. PICK m \in StoreLengths : Store(m)
        BY <2>3
      <3>2. /\ closed => m = Len(slog) /\ slog' = slog /\ End <= m
            /\ closed' = (closed \/ (is_last /\ End <= m))
            /\ m \in Nat /\ Len(slog') = m
        BY <1>2, <2>1, <3>1
      <3>3. closed' => is_last /\ End <= Len(slog')
        BY <1>0, <3>2 DEF ClosedInv
      <3>4. End' = End
        BY <2>1 DEF End
      <3> QED BY <1>0, <2>1, <3>2, <3>3, <3>4 DEF ClosedInv
    <2> QED BY <1>5, <2>2, <2>3 DEF Thrown
  <1>6. CASE UNCHANGED vars
    BY <1>6 DEF vars, ClosedInv, End
  <1> QED BY <1>1, <1>3, <1>4, <1>5, <1>6 DEF Next, WorkerStep, Finished

-----------------------------------------------------------------------------
(* Counting confirmed lines *)

\* The part of CountInv that holds while a confirmed batch is being sent.
ConfirmedSend ==
  /\ \A i \in DOMAIN slog : slog[i] = i
  /\ index <= Len(slog) /\ Len(slog) <= End
  /\ next_index = total_sent /\ next_index + Len(batch) = End
  /\ End + Len(queue) = appended
  /\ \A i \in DOMAIN rows : rows[i] = index + i

\* Storing rows of a confirmed log leaves no hole.
LEMMA StoreCount ==
  ASSUME TypeOK, ConfirmedSend, NEW m \in StoreLengths, Store(m)
  PROVE  /\ m \in Nat /\ Len(slog') = m /\ slog' \in Seq(Line)
         /\ index <= m /\ m <= End
         /\ \A i \in 1..m : slog'[i] = i
  <1>1. /\ slog \in Seq(Line) /\ rows \in Seq(Line) /\ index \in Nat
        /\ Len(slog) \in Nat /\ Len(rows) \in Nat
    BY DEF TypeOK
  <1>2. /\ m \in Nat /\ Len(slog) <= m
        /\ slog' \in Seq(Line) /\ Len(slog') = m
        /\ \A i \in 1..Len(slog) : slog'[i] = slog[i]
        /\ \A i \in (Len(slog) + 1)..m :
             i - index \in 1..Len(rows) /\ slog'[i] = rows[i - index]
        /\ Len(slog) < m => index <= Len(slog) /\ m <= End
    BY StoreFacts
  <1>3. /\ \A i \in 1..Len(slog) : slog[i] = i
        /\ \A i \in 1..Len(rows) : rows[i] = index + i
        /\ index <= Len(slog) /\ Len(slog) <= End
    BY <1>1 DEF ConfirmedSend
  <1>4. ASSUME NEW i \in 1..m PROVE slog'[i] = i
    <2>1. CASE i <= Len(slog)
      <3>1. i \in 1..Len(slog)
        BY <1>1, <2>1
      <3>2. slog'[i] = slog[i]
        BY <1>2, <3>1
      <3>3. slog[i] = i
        BY <1>3, <3>1
      <3> QED BY <3>2, <3>3
    <2>2. CASE Len(slog) < i
      <3>1. i - index \in 1..Len(rows) /\ slog'[i] = rows[i - index]
        BY <1>1, <1>2, <2>2
      <3> QED BY <1>1, <1>3, <3>1
    <2> QED BY <1>1, <2>1, <2>2
  <1>5. index <= m /\ m <= End
    BY <1>1, <1>2, <1>3 DEF End
  <1> QED BY <1>2, <1>4, <1>5

\* Every step keeps CountInv.
LEMMA CountStep ==
  TypeOK /\ TypeOK' /\ ExitInv /\ CountInv /\ [Next]_vars => CountInv'
  <1> SUFFICES ASSUME TypeOK, TypeOK', ExitInv, CountInv, [Next]_vars
               PROVE  CountInv'
    OBVIOUS
  <1> USE BatchAssumption DEF worker, server
  <1>0. /\ slog \in Seq(Line) /\ rows \in Seq(Line) /\ queue \in Seq(Line)
        /\ batch \in Seq(Line) /\ index \in Nat /\ appended \in Nat
        /\ next_index \in Nat /\ total_sent \in Nat
        /\ Len(slog) \in Nat /\ Len(rows) \in Nat /\ Len(queue) \in Nat
        /\ Len(batch) \in Nat /\ End \in Nat
        /\ wpc \in {"wait", "drained", "send", "exited"}
    BY DEF TypeOK, End
  <1>a. \A i \in 1..Len(queue) : queue[i] = appended - Len(queue) + i
    BY <1>0 DEF CountInv
  <1>b. ~unconfirmed /\ wpc = "send" => ConfirmedSend
    BY DEF CountInv, ConfirmedSend
  <1>c. ~unconfirmed =>
          /\ wpc = "wait" => Len(slog) + Len(queue) = appended
          /\ wpc = "drained" => Len(slog) + Len(batch) + Len(queue) = appended
          /\ wpc = "send" => End + Len(queue) = appended
    BY DEF CountInv
  <1>d. ~unconfirmed /\ wpc = "drained" =>
          \A i \in 1..Len(batch) : batch[i] = Len(slog) + i
    BY <1>0 DEF CountInv
  <1>e. ~unconfirmed /\ wpc # "send" => next_index = Len(slog) /\ total_sent = Len(slog)
    BY DEF CountInv
  <1>1. CASE AppendLine
    <2>1. /\ queue' = Append(queue, appended + 1) /\ appended' = appended + 1
          /\ UNCHANGED <<worker, slog, closed, unconfirmed>>
      BY <1>1 DEF AppendLine
    <2>2. /\ Len(queue') = Len(queue) + 1 /\ DOMAIN queue' = 1..(Len(queue) + 1)
          /\ queue'[Len(queue) + 1] = appended + 1
          /\ \A i \in 1..Len(queue) : queue'[i] = queue[i]
      BY <1>0, <2>1
    <2>3. \A i \in DOMAIN queue' : queue'[i] = appended' - Len(queue') + i
      BY <1>0, <1>a, <2>1, <2>2
    <2>4. ~unconfirmed' =>
           /\ wpc' = "wait" => Len(slog') + Len(queue') = appended'
           /\ wpc' = "drained" => Len(slog') + Len(batch') + Len(queue') = appended'
           /\ wpc' = "send" => End' + Len(queue') = appended'
      <3>1. UNCHANGED <<wpc, batch, slog, unconfirmed>> /\ End' = End
        BY <2>1 DEF End
      <3>2. Len(queue') = Len(queue) + 1 /\ appended' = appended + 1
        BY <2>1, <2>2
      <3>3. ASSUME ~unconfirmed'
            PROVE  /\ wpc = "wait" => Len(slog) + Len(queue) = appended
                   /\ wpc = "drained" => Len(slog) + Len(batch) + Len(queue) = appended
                   /\ wpc = "send" => End + Len(queue) = appended
        BY <1>c, <3>1, <3>3, Zenon
      <3>4. ASSUME ~unconfirmed'
            PROVE  /\ wpc = "wait" => Len(slog) + Len(queue') = appended'
                   /\ wpc = "drained" => Len(slog) + Len(batch) + Len(queue') = appended'
                   /\ wpc = "send" => End + Len(queue') = appended'
        <4>1. /\ wpc = "wait" => Len(slog) + Len(queue) = appended
              /\ wpc = "drained" => Len(slog) + Len(batch) + Len(queue) = appended
              /\ wpc = "send" => End + Len(queue) = appended
          BY <3>3, <3>4, Zenon
        <4> HIDE DEF worker, server
        <4>2. Len(slog) \in Nat /\ Len(queue) \in Nat /\ Len(batch) \in Nat
              /\ End \in Nat /\ appended \in Nat
          BY <1>0
        <4>3. ASSUME wpc = "wait" PROVE Len(slog) + Len(queue') = appended'
          BY <3>2, <4>1, <4>2, <4>3
        <4>4. ASSUME wpc = "drained"
              PROVE  Len(slog) + Len(batch) + Len(queue') = appended'
          BY <3>2, <4>1, <4>2, <4>4
        <4>5. ASSUME wpc = "send" PROVE End + Len(queue') = appended'
          BY <3>2, <4>1, <4>2, <4>5
        <4> QED BY <4>3, <4>4, <4>5
      <3> QED BY <3>1, <3>4, Zenon
    <2> QED BY <2>1, <2>3, <2>4 DEF CountInv, End
  <1>2. CASE Finish \/ Join
    BY <1>2 DEF Finish, Join, CountInv, End
  <1>3. CASE Drain
    <2> DEFINE k == Least(Len(queue), BatchSize)
    <2>1. k \in Nat /\ k <= Len(queue)
      BY <1>0 DEF Least
    <2>2. /\ batch' = SubSeq(queue, 1, k) /\ queue' = SubSeq(queue, k + 1, Len(queue))
          /\ wpc = "wait" /\ wpc' = "drained"
          /\ UNCHANGED <<slog, next_index, total_sent, appended, unconfirmed>>
      BY <1>3 DEF Drain
    <2> HIDE DEF k
    <2>3. /\ batch' \in Seq(Line) /\ Len(batch') = k
          /\ \A i \in 1..k : i \in 1..Len(queue) /\ batch'[i] = queue[i]
      BY <1>0, <2>1, <2>2, TakeFacts
    <2>4. /\ queue' \in Seq(Line) /\ Len(queue') = Len(queue) - k
          /\ \A i \in 1..Len(queue') : i + k \in 1..Len(queue) /\ queue'[i] = queue[i + k]
      BY <1>0, <2>1, <2>2, TrimFacts, SMTT(30)
    <2>5. DOMAIN batch' = 1..k /\ DOMAIN queue' = 1..Len(queue')
      BY <2>3, <2>4
    <2>6. \A i \in DOMAIN queue' : queue'[i] = appended' - Len(queue') + i
      BY <1>0, <1>a, <2>1, <2>2, <2>4, <2>5, SMTT(30)
    <2>7. ~unconfirmed =>
            /\ Len(slog) + Len(batch') + Len(queue') = appended
            /\ \A i \in DOMAIN batch' : batch'[i] = Len(slog) + i
      <3> SUFFICES ASSUME ~unconfirmed
                   PROVE  /\ Len(slog) + Len(batch') + Len(queue') = appended
                          /\ \A i \in DOMAIN batch' : batch'[i] = Len(slog) + i
        OBVIOUS
      <3>1. Len(slog) = appended - Len(queue)
        BY <1>0, <1>c, <2>2
      <3> QED BY <1>0, <1>a, <2>1, <2>3, <2>4, <2>5, <3>1
    <2> QED BY <2>2, <2>6, <2>7 DEF CountInv
  <1>4. CASE LoadDone
    <2>1. /\ wpc = "drained" /\ wpc' \in {"send", "wait"}
          /\ rows' = batch /\ index' = next_index
          /\ wpc' = "wait" => batch = <<>>
          /\ UNCHANGED <<appended, queue, batch, next_index, total_sent, slog, unconfirmed>>
      BY <1>4 DEF LoadDone
    <2>2. wpc' = "wait" => Len(batch) = 0
      BY <2>1
    <2>3. End' = next_index + Len(batch)
      BY <2>1 DEF End
    <2>4. ASSUME ~unconfirmed, wpc' = "wait"
          PROVE  Len(slog') + Len(queue') = appended'
      BY <1>0, <1>c, <2>1, <2>2, <2>4
    <2>5. ASSUME ~unconfirmed, wpc' = "send"
          PROVE  /\ index' <= Len(slog') /\ Len(slog') <= End'
                 /\ next_index' = total_sent' /\ next_index' + Len(batch') = End'
                 /\ End' + Len(queue') = appended'
                 /\ \A i \in DOMAIN rows' : rows'[i] = index' + i
      <3>1. next_index = Len(slog) /\ total_sent = Len(slog)
        BY <1>e, <2>1, <2>5
      <3>2. End' = Len(slog) + Len(batch) /\ End' + Len(queue) = appended
        BY <1>0, <1>c, <2>1, <2>3, <2>5, <3>1
      <3>3. \A i \in 1..Len(batch) : batch[i] = Len(slog) + i
        BY <1>d, <2>1, <2>5
      <3>4. \A i \in DOMAIN rows' : rows'[i] = index' + i
        <4>1. rows' = batch /\ index' = Len(slog) /\ DOMAIN batch = 1..Len(batch)
          BY <1>0, <2>1, <3>1
        <4> QED BY <3>3, <4>1
      <3> QED BY <1>0, <2>1, <3>1, <3>2, <3>4
    <2>6. wpc' # "exited" /\ wpc' # "drained"
      BY <2>1
    <2> QED BY <2>1, <2>4, <2>5, <2>6 DEF CountInv
  <1>5. CASE Answered
    <2>1. PICK m \in StoreLengths : /\ Store(m) /\ HandleAck(WireAck(m))
                 /\ unconfirmed' = (unconfirmed \/ (m < End /\ End <= WireAck(m)))
      BY <1>5 DEF Answered
    <2>2. wpc = "send" /\ UNCHANGED <<queue, batch, appended, is_last>>
      BY <1>5 DEF Answered, Sending
    <2>3. CASE unconfirmed'
      BY <1>a, <1>0, <2>2, <2>3 DEF CountInv
    <2>4. CASE ~unconfirmed'
      <3>1. ~unconfirmed /\ ~(m < End /\ End <= WireAck(m)) /\ ConfirmedSend
        BY <1>b, <2>1, <2>2, <2>4
      <3>2. /\ m \in Nat /\ Len(slog') = m /\ slog' \in Seq(Line)
            /\ index <= m /\ m <= End
            /\ \A i \in 1..m : slog'[i] = i
        BY <2>1, <3>1, StoreCount
      <3>3. WireAck(m) \in Nat /\ WireAck(m) = m
        BY <1>0, <3>1, <3>2 DEF WireAck
      <3>4. HandleAck(m)
        BY <2>1, <3>3
      <3>5. DOMAIN slog' = 1..m /\ \A i \in DOMAIN slog' : slog'[i] = i
        BY <3>2
      <3>6. CASE End <= m
        <4>1. /\ next_index' = End /\ total_sent' = total_sent + Len(batch)
              /\ wpc' = AfterSend
          BY <1>0, <3>2, <3>4, <3>6 DEF HandleAck
        <4>2. next_index' = Len(slog') /\ total_sent' = Len(slog')
              /\ Len(slog') + Len(queue') = appended'
          BY <1>0, <2>2, <3>1, <3>2, <3>6, <4>1 DEF ConfirmedSend
        <4>3. wpc' = "exited" => closed'
          BY <2>1, <3>6, <4>1 DEF AfterSend, Store
        <4>4. wpc' # "send" /\ wpc' # "drained"
          BY <4>1 DEF AfterSend
        <4> QED BY <1>0, <1>a, <2>2, <3>5, <4>2, <4>3, <4>4 DEF CountInv
      <3>7. CASE m < End
        <4>1. /\ index' = m /\ UNCHANGED <<wpc, next_index, total_sent>>
              /\ rows' \in Seq(Line)
              /\ \/ m <= index /\ rows' = rows
                 \/ /\ index < m /\ Len(rows') = Len(rows) - (m - index)
                    /\ \A i \in 1..Len(rows') :
                         /\ i + (m - index) \in 1..Len(rows)
                         /\ rows'[i] = rows[i + (m - index)]
          BY <1>0, <3>2, <3>4, <3>7, AckFacts
        <4>2. \A i \in 1..Len(rows) : rows[i] = index + i
          BY <1>0, <3>1, SMTT(30) DEF ConfirmedSend
        <4>3. End' = End /\ \A i \in 1..Len(rows') : rows'[i] = m + i
          <5>1. CASE m <= index
            <6>1. m = index /\ rows' = rows /\ index' = index
              BY <1>0, <3>2, <4>1, <5>1
            <6> QED BY <4>2, <6>1 DEF End
          <5>2. CASE index < m
            BY <1>0, <3>2, <4>1, <4>2, <5>2 DEF End
          <5> QED BY <1>0, <3>2, <5>1, <5>2
        <4>4. DOMAIN rows' = 1..Len(rows')
          BY <4>1
        <4>5. /\ index' <= Len(slog') /\ Len(slog') <= End'
              /\ \A i \in DOMAIN rows' : rows'[i] = index' + i
          BY <3>2, <4>1, <4>3, <4>4
        <4>6. /\ next_index' = total_sent' /\ next_index' + Len(batch') = End'
              /\ End' + Len(queue') = appended'
          BY <2>2, <3>1, <4>1, <4>3 DEF ConfirmedSend
        <4>7. wpc' = "send"
          BY <2>2, <4>1
        <4> QED BY <1>0, <1>a, <2>2, <3>5, <4>5, <4>6, <4>7 DEF CountInv
      <3> QED BY <1>0, <3>2, <3>6, <3>7
    <2> QED BY <2>3, <2>4
  <1>6. CASE TimedOut \/ GiveUp
    <2>1. unconfirmed' /\ UNCHANGED <<queue, appended>>
      BY <1>6 DEF TimedOut, GiveUp
    <2> QED BY <1>0, <1>a, <2>1 DEF CountInv
  <1>7. CASE Thrown
    <2>1. wpc = "send" /\ UNCHANGED <<queue, batch, appended, rows, index, wpc,
                                      next_index, total_sent, unconfirmed>>
      BY <1>7 DEF Thrown, Sending
    <2>2. CASE unconfirmed
      BY <1>a, <1>0, <2>1, <2>2 DEF CountInv
    <2>3. CASE ~unconfirmed
      <3>1. ConfirmedSend
        BY <1>b, <2>1, <2>3
      <3>2. ConfirmedSend'
        <4>1. CASE UNCHANGED server
          BY <2>1, <3>1, <4>1 DEF ConfirmedSend, End
        <4>2. CASE \E m \in StoreLengths : Store(m)
          <5>1. PICK m \in StoreLengths : Store(m)
            BY <4>2
          <5>2. /\ m \in Nat /\ Len(slog') = m /\ slog' \in Seq(Line)
                /\ index <= m /\ m <= End
                /\ \A i \in 1..m : slog'[i] = i
            BY <3>1, <5>1, StoreCount
          <5>3. DOMAIN slog' = 1..m
            BY <5>2
          <5> QED BY <2>1, <3>1, <5>2, <5>3 DEF ConfirmedSend, End
        <4> QED BY <1>7, <4>1, <4>2 DEF Thrown
      <3> QED BY <1>0, <1>a, <2>1, <3>2 DEF CountInv, ConfirmedSend
    <2> QED BY <2>2, <2>3
  <1>8. CASE UNCHANGED vars
    BY <1>8 DEF vars, CountInv, End
  <1> QED BY <1>1, <1>2, <1>3, <1>4, <1>5, <1>6, <1>7, <1>8
          DEF Next, WorkerStep, Finished

-----------------------------------------------------------------------------
(* The theorems *)

\* IInv is an inductive invariant of the forwarder.
THEOREM InductiveInvariant == Spec => []IInv
  <1>1. Init => OrderInv /\ ClosedInv /\ CountInv /\ ExitInv
    <2> SUFFICES ASSUME Init PROVE OrderInv /\ ClosedInv /\ CountInv /\ ExitInv
      OBVIOUS
    <2>1. OrderInv
      BY DEF Init, OrderInv, AllBelow, Stream!Increasing
    <2>2. ClosedInv /\ ExitInv
      BY DEF Init, ClosedInv, ExitInv
    <2>3. CountInv
      BY DEF Init, CountInv
    <2> QED BY <2>1, <2>2, <2>3
  <1>2. TypeOK /\ TypeOK' /\ OrderInv /\ ClosedInv /\ CountInv /\ ExitInv /\ [Next]_vars
          => OrderInv' /\ ClosedInv' /\ CountInv' /\ ExitInv'
    BY OrderStep, ClosedStep, CountStep, ExitStep
  <1> QED BY <1>1, <1>2, TypeCorrect, PTL DEF Spec, IInv

\* The server's log is in order and holds no line twice.
THEOREM OrderPreserved == Spec => []ServerOrder
  <1>1. IInv => ServerOrder
    BY DEF IInv, OrderInv, ServerOrder
  <1> QED BY <1>1, InductiveInvariant, PTL

\* Confirmed batches leave no hole, and the indices count them.
THEOREM PrefixConfirmed == Spec => []ConfirmedPrefix
  <1>1. IInv => ConfirmedPrefix
    BY DEF IInv, CountInv, ConfirmedPrefix
  <1> QED BY <1>1, InductiveInvariant, PTL

\* A confirmed log is closed when finish() has returned.
THEOREM FinishClosesLog == Spec => []FinishCloses
  <1>1. IInv => FinishCloses
    BY DEF IInv, CountInv, ExitInv, FinishCloses
  <1> QED BY <1>1, InductiveInvariant, PTL

\* The forwarder implements the abstract log stream.
THEOREM ImplementsLogStream == Spec => StreamSpec
  <1>1. Init => Stream!Init
    BY DEF Init, Stream!Init
  <1>2. IInv /\ IInv' /\ [Next]_vars => [Stream!Next]_(Stream!vars)
    <2> SUFFICES ASSUME IInv, IInv', [Next]_vars
                 PROVE  [Stream!Next]_(Stream!vars)
      OBVIOUS
    <2> USE DEF worker, server, Stream!vars
    <2>1. CASE AppendLine
      BY <2>1 DEF AppendLine, Stream!Next, Stream!Produce
    <2>2. CASE Finish \/ Join \/ Drain \/ LoadDone \/ GiveUp \/ UNCHANGED vars
      BY <2>2 DEF Finish, Join, Drain, LoadDone, GiveUp, vars
    <2>3. CASE Answered \/ TimedOut \/ Thrown
      <3>1. UNCHANGED appended /\ wpc = "send"
        BY <2>3 DEF Answered, TimedOut, Thrown, Sending
      <3>2. UNCHANGED server \/ \E m \in StoreLengths : Store(m)
        BY <2>3 DEF Answered, TimedOut, Thrown
      <3>3. CASE UNCHANGED server
        BY <3>1, <3>3
      <3>4. CASE \E m \in StoreLengths : Store(m)
        <4>1. CASE closed
          BY <4>1, <3>1, ClosedStep DEF IInv, TypeOK
        <4>2. CASE ~closed
          <5>1. /\ slog \in Seq(Line) /\ slog' \in Seq(Line)
                /\ Len(slog) <= Len(slog')
                /\ \A i \in 1..Len(slog) : slog'[i] = slog[i]
            BY <3>4, StoreFacts DEF IInv, TypeOK
          <5>2. Stream!Increasing(slog') /\ closed' \in BOOLEAN
            BY DEF IInv, OrderInv, TypeOK, Stream!Increasing
          <5>3. \A i \in DOMAIN slog' : slog'[i] \in 1..appended
            <6>1. \A i \in DOMAIN slog' : slog'[i] \in Line
              BY <5>1
            <6> QED BY <6>1 DEF Line
          <5>4. Stream!Extends(slog, slog')
            BY <5>1 DEF Stream!Extends
          <5> QED BY <3>1, <4>2, <5>2, <5>3, <5>4 DEF Stream!Next, Stream!Deliver
        <4> QED BY <4>1, <4>2
      <3> QED BY <3>2, <3>3, <3>4
    <2> QED BY <2>1, <2>2, <2>3 DEF Next, WorkerStep, Finished
  <1> QED BY <1>1, <1>2, InductiveInvariant, PTL DEF Spec, StreamSpec, Stream!Spec
=============================================================================
