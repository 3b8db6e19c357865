---------------------------- MODULE PollerProofs ----------------------------
(* Proofs about Poller, for every capacity and every set of tasks.          *)
EXTENDS Poller, FiniteSetTheorems, SequenceTheorems, TLAPS

-----------------------------------------------------------------------------
(* Counting workers *)

\* The pool is finite and has as many workers as the semaphore has slots.
LEMMA PoolFacts ==
  /\ Slots \in Nat /\ Slots >= 1
  /\ IsFiniteSet(Worker) /\ Cardinality(Worker) = Slots
  <1>1. Slots \in Nat /\ Slots >= 1
    BY CapacityAssumption DEF Slots
  <1>2. IsFiniteSet(1..Slots) /\ Cardinality(1..Slots) = Slots
    BY <1>1, FS_Interval
  <1> QED BY <1>1, <1>2 DEF Worker

\* The workers at some places are finitely many.
LEMMA AtFinite ==
  ASSUME NEW f, NEW P
  PROVE  /\ IsFiniteSet(At(f, P)) /\ Cardinality(At(f, P)) \in Nat
         /\ Cardinality(At(f, P)) <= Slots
  <1>1. At(f, P) \in SUBSET Worker
    BY DEF At
  <1> QED BY <1>1, PoolFacts, FS_Subset, FS_CardinalityType

\* 1 for a place among P, 0 for any other.
In(p, P) == IF p \in P THEN 1 ELSE 0

\* From f to g only worker w has moved, from o to p.
Moved(f, g, w, o, p) ==
  f[w] = o /\ g[w] = p /\ \A v \in Worker : v # w => g[v] = f[v]

\* How one worker's move changes the number of workers at some places.
LEMMA MoveCount ==
  ASSUME NEW f, NEW g, NEW w \in Worker, NEW o, NEW p, NEW P,
         Moved(f, g, w, o, p)
  PROVE  Cardinality(At(g, P)) =
           Cardinality(At(f, P))
           + In(p, P) - In(o, P)
  <1>1. IsFiniteSet(At(f, P)) /\ Cardinality(At(f, P)) \in Nat
    BY AtFinite
  <1>2. f[w] = o /\ \A v \in Worker : g[v] = IF v = w THEN p ELSE f[v]
    BY DEF Moved
  <1>3. CASE p \in P /\ o \in P
    <2>1. At(g, P) = At(f, P)
      BY <1>2, <1>3 DEF At
    <2> QED BY <1>1, <1>3, <2>1 DEF In
  <1>4. CASE p \in P /\ o \notin P
    <2>1. At(g, P) = At(f, P) \cup {w} /\ w \notin At(f, P)
      BY <1>2, <1>4 DEF At
    <2>2. Cardinality(At(g, P)) = Cardinality(At(f, P)) + 1
      BY <1>1, <2>1, FS_AddElement
    <2> QED BY <1>1, <1>4, <2>2 DEF In
  <1>5. CASE p \notin P /\ o \in P
    <2>1. At(g, P) = At(f, P) \ {w} /\ w \in At(f, P)
      BY <1>2, <1>5 DEF At
    <2>2. Cardinality(At(g, P)) = Cardinality(At(f, P)) - 1
      BY <1>1, <2>1, FS_RemoveElement
    <2> QED BY <1>1, <1>5, <2>2 DEF In
  <1>6. CASE p \notin P /\ o \notin P
    <2>1. At(g, P) = At(f, P)
      BY <1>2, <1>6 DEF At
    <2> QED BY <1>1, <1>6, <2>1 DEF In
  <1> QED BY <1>3, <1>4, <1>5, <1>6

\* What In says of each place.
LEMMA InFacts ==
  /\ \A p \in Places : /\ In(p, BusyAt) \in 0..1 /\ In(p, AwakeAt) \in 0..1
                       /\ In(p, CountedAt) \in 0..1
  /\ \A p \in {"popped", "executing", "executed", "reset"} : In(p, BusyAt) = 1
  /\ \A p \in {"top", "blocking", "waiting", "released", "exited"} : In(p, BusyAt) = 0
  /\ \A p \in {"top", "released"} : In(p, AwakeAt) = 1
  /\ \A p \in {"blocking", "waiting", "popped", "executing", "executed", "reset",
               "exited"} : In(p, AwakeAt) = 0
  /\ \A p \in {"executing", "executed", "reset", "released"} : In(p, CountedAt) = 1
  /\ \A p \in {"top", "blocking", "waiting", "popped", "exited"} : In(p, CountedAt) = 0
  BY DEF In, BusyAt, AwakeAt, CountedAt, Places

\* The three counts the invariant is about, after a move of one worker.
LEMMA WorkerMove ==
  ASSUME NEW w \in Worker, NEW o, NEW p, Moved(wpc, wpc', w, o, p)
  PROVE  /\ Cardinality(Busy') = Cardinality(Busy) + In(p, BusyAt) - In(o, BusyAt)
         /\ Cardinality(Awake') = Cardinality(Awake) + In(p, AwakeAt) - In(o, AwakeAt)
         /\ Cardinality(Counted') =
              Cardinality(Counted) + In(p, CountedAt) - In(o, CountedAt)
  <1>1. /\ Busy' = At(wpc', BusyAt) /\ Awake' = At(wpc', AwakeAt)
        /\ Counted' = At(wpc', CountedAt)
    BY DEF Busy, Awake, Counted, At
  <1> QED BY <1>1, MoveCount DEF Busy, Awake, Counted

\* The counts are natural numbers.
LEMMA CountTypes ==
  /\ Cardinality(Busy) \in Nat /\ Cardinality(Awake) \in Nat
  /\ Cardinality(Counted) \in Nat
  /\ Cardinality(Busy') \in Nat /\ Cardinality(Awake') \in Nat
  <1>1. Busy' = At(wpc', BusyAt) /\ Awake' = At(wpc', AwakeAt)
    BY DEF Busy, Awake, At
  <1> QED BY <1>1, AtFinite DEF Busy, Awake, Counted

\* An assignment to one worker's place is such a move.
LEMMA Moves ==
  ASSUME TypeOK, NEW w \in Worker, NEW p, wpc' = [wpc EXCEPT ![w] = p]
  PROVE  Moved(wpc, wpc', w, wpc[w], p)
  BY DEF TypeOK, Moved

\* Waking every sleeping worker changes neither who holds a slot nor who is
\* counted as active.
LEMMA WakeAllMove ==
  ASSUME TypeOK, WakeAll
  PROVE  /\ wpc' \in [Worker -> Places]
         /\ \A w \in Worker : wpc'[w] = IF wpc[w] = "waiting" THEN "top" ELSE wpc[w]
         /\ Busy' = Busy /\ Counted' = Counted
  <1>1. wpc \in [Worker -> Places]
    BY DEF TypeOK
  <1>2. \A w \in Worker : wpc'[w] = IF wpc[w] = "waiting" THEN "top" ELSE wpc[w]
    BY DEF WakeAll
  <1>3. wpc' \in [Worker -> Places]
    BY <1>1 DEF WakeAll, Places
  <1> QED BY <1>2, <1>3 DEF Busy, Counted, At, BusyAt, CountedAt

\* A step that leaves the workers' places alone leaves the counts alone.
LEMMA SameCounts ==
  ASSUME wpc' = wpc
  PROVE  Busy' = Busy /\ Awake' = Awake /\ Counted' = Counted
  BY DEF Busy, Awake, Counted, At

\* A step is a step of one of the threads or of the server, or a stutter.
LEMMA NextCases ==
  ASSUME [Next]_vars
  PROVE  \/ \E t \in Task : Offer(t)
         \/ PollCheck \/ Fetch \/ FetchFails \/ StoreVersion \/ AcquireCheck
         \/ TryAcquire \/ Recheck \/ DispatchTask \/ PingExit
         \/ \E w \in Worker : \/ Enter(w) \/ Block(w) \/ Begin(w) \/ Execute(w)
                              \/ ResetVersion(w) \/ Release(w) \/ Decrement(w)
                              \/ SpuriousWakeup(w)
         \/ Stop \/ StopNotify \/ JoinPoll \/ WaitActive \/ DrainQueue
         \/ JoinNotify \/ JoinWorkers \/ UNCHANGED vars
  BY DEF Next, PollStep, WorkerStep, JoinStep, Joined

-----------------------------------------------------------------------------
(* Types *)

\* Every step keeps the variables in their types.
LEMMA TypeStep ==
  ASSUME TypeOK, HeldInv, [Next]_vars
  PROVE  TypeOK'
  <1> USE TaskAssumption DEF TypeOK, poll, work, server
  <1>1. ASSUME NEW t \in Task, Offer(t) PROVE TypeOK'
    BY <1>1 DEF Offer, Outcomes
  <1>2. CASE PollCheck
    BY <1>2 DEF PollCheck
  <1>3. CASE Fetch
    <2>1. PICK t \in Assignable(tasks_version) :
            /\ held' = t /\ pending' = pending \ {t}
            /\ outcome' = [s \in Task |-> IF s = t THEN "fetched" ELSE outcome[s]]
      BY <1>3 DEF Fetch
    <2>2. t \in Task \cup {NoTask}
      BY <2>1 DEF Assignable
    <2>3. outcome' \in [Task -> Outcomes]
      BY <2>1 DEF Outcomes
    <2>4. pending' \in SUBSET Task
      BY <2>1
    <2> QED BY <1>3, <2>1, <2>2, <2>3, <2>4 DEF Fetch
  <1>4. CASE FetchFails
    <2>1. outcome' \in [Task -> Outcomes]
      BY <1>4 DEF FetchFails, Outcomes
    <2>2. pending' \in SUBSET Task
      BY <1>4 DEF FetchFails
    <2>3. ppc' \in {"check", "got"} /\ reply' \in Nat
      BY <1>4 DEF FetchFails
    <2> QED BY <1>4, <2>1, <2>2, <2>3 DEF FetchFails
  <1>5. CASE StoreVersion
    BY <1>5 DEF StoreVersion
  <1>6. CASE AcquireCheck
    BY <1>6 DEF AcquireCheck
  <1>7. CASE TryAcquire
    <2>1. permits' \in Nat /\ ppc' \in {"recheck", "acquire"}
      BY <1>7, SMT DEF TryAcquire
    <2>2. slot' \in BOOLEAN
      BY <1>7, Zenon DEF TryAcquire
    <2> QED BY <1>7, <2>1, <2>2 DEF TryAcquire
  <1>8. CASE Recheck
    <2>1. outcome' \in [Task -> Outcomes]
      BY <1>8 DEF Recheck, Outcomes
    <2>2. held' \in Task \cup {NoTask} /\ ppc' \in {"exited", "dispatch"}
      BY <1>8 DEF Recheck
    <2> QED BY <1>8, <2>1, <2>2 DEF Recheck
  <1>9. CASE DispatchTask
    <2>1. queue' \in Seq(Task)
      BY <1>9 DEF DispatchTask, HeldInv
    <2>2. wpc' \in [Worker -> Places]
      BY <1>9 DEF DispatchTask, WakeOne, Places
    <2> QED BY <1>9, <2>1, <2>2 DEF DispatchTask
  <1>10. CASE PingExit
    BY <1>10 DEF PingExit
  <1>11. ASSUME NEW w \in Worker, Enter(w) PROVE TypeOK'
    <2>1. wpc' \in [Worker -> Places]
      BY <1>11 DEF Enter, Places
    <2>2. CASE UNCHANGED <<queue, wtask>>
      BY <1>11, <2>1, <2>2 DEF Enter
    <2>3. CASE queue # <<>> /\ wtask' = [wtask EXCEPT ![w] = Head(queue)]
               /\ queue' = Tail(queue)
      <3>1. Head(queue) \in Task /\ Tail(queue) \in Seq(Task)
        BY <2>3, HeadTailProperties
      <3>2. queue' \in Seq(Task) /\ wtask' \in [Worker -> Task \cup {NoTask}]
        BY <2>3, <3>1
      <3> QED BY <1>11, <2>1, <3>2 DEF Enter
    <2> QED BY <1>11, <2>2, <2>3 DEF Enter
  <1>12. ASSUME NEW w \in Worker, Block(w) \/ SpuriousWakeup(w) PROVE TypeOK'
    <2>1. wpc' \in [Worker -> Places]
      BY <1>12 DEF Block, SpuriousWakeup, Places
    <2> QED BY <1>12, <2>1 DEF Block, SpuriousWakeup
  <1>13. ASSUME NEW w \in Worker, Begin(w) \/ Decrement(w) PROVE TypeOK'
    <2>1. wpc' \in [Worker -> Places] /\ active' \in Int
      BY <1>13 DEF Begin, Decrement, Places
    <2> QED BY <1>13, <2>1 DEF Begin, Decrement
  <1>14. ASSUME NEW w \in Worker, Execute(w) PROVE TypeOK'
    <2>1. wpc' \in [Worker -> Places] /\ wtask' \in [Worker -> Task \cup {NoTask}]
      BY <1>14 DEF Execute, Places
    <2>2. outcome' \in [Task -> Outcomes]
      BY <1>14 DEF Execute, Outcomes
    <2> QED BY <1>14, <2>1, <2>2 DEF Execute
  <1>15. ASSUME NEW w \in Worker, ResetVersion(w) \/ Release(w) PROVE TypeOK'
    <2>1. wpc' \in [Worker -> Places] /\ permits' \in Nat /\ tasks_version' \in Nat
      BY <1>15 DEF ResetVersion, Release, Places
    <2> QED BY <1>15, <2>1 DEF ResetVersion, Release
  <1>16. CASE Stop
    BY <1>16 DEF Stop
  <1>17. CASE StopNotify \/ JoinNotify
    <2>1. wpc' \in [Worker -> Places]
      BY <1>17, WakeAllMove DEF StopNotify, JoinNotify
    <2> QED BY <1>17, <2>1 DEF StopNotify, JoinNotify
  <1>18. CASE JoinPoll \/ WaitActive \/ JoinWorkers
    BY <1>18 DEF JoinPoll, WaitActive, JoinWorkers
  <1>19. CASE DrainQueue
    <2>1. outcome' \in [Task -> Outcomes]
      BY <1>19 DEF DrainQueue, Outcomes
    <2>2. drained' \in Nat /\ queue' \in Seq(Task)
      BY <1>19 DEF DrainQueue
    <2> QED BY <1>19, <2>1, <2>2 DEF DrainQueue
  <1>20. CASE UNCHANGED vars
    BY <1>20 DEF vars
  <1> QED BY NextCases, <1>1, <1>2, <1>3, <1>4, <1>5, <1>6, <1>7, <1>8, <1>9,
             <1>10, <1>11, <1>12, <1>13, <1>14, <1>15, <1>16, <1>17, <1>18,
             <1>19, <1>20

-----------------------------------------------------------------------------
(* Where the threads are *)

\* What the poll thread has at each place is kept by every step.
LEMMA PollStepInv ==
  ASSUME TypeOK, SlotInv, HeldInv, [Next]_vars
  PROVE  SlotInv' /\ HeldInv'
  <1> USE DEF SlotInv, HeldInv, poll, work, server
  <1>1. ASSUME NEW t \in Task, Offer(t) PROVE SlotInv' /\ HeldInv'
    BY <1>1 DEF Offer
  <1>2. CASE PollCheck
    BY <1>2 DEF PollCheck
  <1>3. CASE Fetch
    BY <1>3 DEF Fetch
  <1>4. CASE FetchFails
    BY <1>4 DEF FetchFails
  <1>5. CASE StoreVersion
    BY <1>5 DEF StoreVersion
  <1>6. CASE AcquireCheck
    BY <1>6 DEF AcquireCheck
  <1>7. CASE TryAcquire
    BY <1>7 DEF TryAcquire
  <1>8. CASE Recheck
    BY <1>8 DEF Recheck
  <1>9. CASE DispatchTask
    BY <1>9 DEF DispatchTask
  <1>10. CASE PingExit
    BY <1>10 DEF PingExit
  <1>11. ASSUME NEW w \in Worker,
                \/ Enter(w) \/ Block(w) \/ Begin(w) \/ Execute(w)
                \/ ResetVersion(w) \/ Release(w) \/ Decrement(w) \/ SpuriousWakeup(w)
         PROVE  SlotInv' /\ HeldInv'
    <2>1. UNCHANGED <<ppc, held, slot, shutdown>>
      BY <1>11 DEF Enter, Block, Begin, Execute, ResetVersion, Release, Decrement,
                   SpuriousWakeup
    <2> QED BY <2>1
  <1>12. CASE Stop \/ DrainQueue
    BY <1>12 DEF Stop, DrainQueue
  <1>13. CASE StopNotify \/ JoinPoll \/ WaitActive \/ JoinNotify \/ JoinWorkers
    BY <1>13 DEF StopNotify, JoinPoll, WaitActive, JoinNotify, JoinWorkers
  <1>14. CASE UNCHANGED vars
    BY <1>14 DEF vars
  <1> QED BY NextCases, <1>1, <1>2, <1>3, <1>4, <1>5, <1>6, <1>7, <1>8, <1>9,
             <1>10, <1>11, <1>12, <1>13, <1>14

\* How far the shutdown has come is kept by every step: a thread that has
\* exited stays so, and behind an exited poll thread nothing is queued.
LEMMA ShutdownStep ==
  ASSUME TypeOK, ShutdownInv, [Next]_vars
  PROVE  ShutdownInv'
  <1> USE DEF ShutdownInv, poll, work, server
  <1>1. ASSUME NEW t \in Task, Offer(t) PROVE ShutdownInv'
    BY <1>1 DEF Offer
  <1>2. CASE PollCheck \/ StoreVersion \/ AcquireCheck
    BY <1>2 DEF PollCheck, StoreVersion, AcquireCheck
  <1>3. CASE Fetch \/ FetchFails
    BY <1>3 DEF Fetch, FetchFails
  <1>4. CASE TryAcquire \/ Recheck
    BY <1>4 DEF TryAcquire, Recheck
  <1>5. CASE DispatchTask
    <2>1. \A w \in Worker : wpc'[w] = "exited" => wpc[w] = "exited"
      BY <1>5 DEF DispatchTask, WakeOne, TypeOK
    <2> QED BY <1>5, <2>1 DEF DispatchTask
  <1>6. CASE PingExit
    BY <1>6 DEF PingExit
  <1>7. ASSUME NEW w \in Worker, Enter(w) PROVE ShutdownInv'
    <2>1. \A v \in Worker : wpc[v] = "exited" => wpc'[v] = "exited"
      BY <1>7 DEF Enter, TypeOK
    <2>2. \A v \in Worker : wpc'[v] = "exited" => wpc[v] = "exited" \/ shutdown
      BY <1>7 DEF Enter, TypeOK
    <2>3. queue = <<>> => queue' = <<>>
      BY <1>7 DEF Enter
    <2> QED BY <1>7, <2>1, <2>2, <2>3 DEF Enter
  <1>8. ASSUME NEW w \in Worker, NEW p \in Places \ {"exited"},
               wpc[w] # "exited", wpc' = [wpc EXCEPT ![w] = p],
               UNCHANGED <<shutdown, mpc, ppc, queue>>
        PROVE  ShutdownInv'
    <2>1. \A v \in Worker : wpc'[v] = "exited" <=> wpc[v] = "exited"
      BY <1>8 DEF TypeOK
    <2> QED BY <1>8, <2>1
  <1>9. ASSUME NEW w \in Worker,
               \/ Block(w) \/ Begin(w) \/ Execute(w) \/ ResetVersion(w)
               \/ Release(w) \/ Decrement(w) \/ SpuriousWakeup(w)
        PROVE  ShutdownInv'
    BY <1>8, <1>9 DEF Block, Begin, Execute, ResetVersion, Release, Decrement,
                      SpuriousWakeup, Places
  <1>10. CASE Stop
    BY <1>10 DEF Stop
  <1>11. CASE StopNotify \/ JoinNotify
    <2>1. \A w \in Worker : wpc'[w] = "exited" <=> wpc[w] = "exited"
      BY <1>11, WakeAllMove DEF StopNotify, JoinNotify
    <2> QED BY <1>11, <2>1 DEF StopNotify, JoinNotify
  <1>12. CASE JoinPoll \/ WaitActive \/ JoinWorkers
    BY <1>12 DEF JoinPoll, WaitActive, JoinWorkers
  <1>13. CASE DrainQueue
    BY <1>13 DEF DrainQueue
  <1>14. CASE UNCHANGED vars
    BY <1>14 DEF vars
  <1> QED BY NextCases, <1>1, <1>2, <1>3, <1>4, <1>5, <1>6, <1>7, <1>9, <1>10,
             <1>11, <1>12, <1>13, <1>14

-----------------------------------------------------------------------------
(* What the workers do *)

\* A worker has a task exactly while it is to be executed, and active_tasks_
\* is the number of workers between its increment and its decrement.
LEMMA WorkStep ==
  ASSUME TypeOK, WorkInv, [Next]_vars
  PROVE  WorkInv'
  <1> DEFINE Tasked(f, g) == \A v \in Worker : g[v] # NoTask <=> f[v] \in {"popped", "executing"}
  <1> USE DEF poll, work, server
  <1>a. Tasked(wpc, wtask) /\ active = Cardinality(Counted) /\ active \in Int
        /\ wtask \in [Worker -> Task \cup {NoTask}] /\ wpc \in [Worker -> Places]
    BY DEF WorkInv, TypeOK
  <1>b. SUFFICES Tasked(wpc', wtask') /\ active' = Cardinality(Counted')
    BY DEF WorkInv
  <1>1. CASE UNCHANGED <<wpc, wtask, active>>
    BY <1>1, <1>a, SameCounts
  <1>2. ASSUME NEW w \in Worker, NEW o, NEW p, Moved(wpc, wpc', w, o, p),
               active' = active + In(p, CountedAt) - In(o, CountedAt)
        PROVE  active' = Cardinality(Counted')
    BY <1>2, <1>a, WorkerMove
  <1>3. ASSUME NEW w \in Worker, NEW o, NEW p, Moved(wpc, wpc', w, o, p),
               o \notin {"popped", "executing"} /\ p \notin {"popped", "executing"},
               UNCHANGED wtask
        PROVE  Tasked(wpc', wtask')
    BY <1>3, <1>a DEF Moved
  <1>4. CASE DispatchTask
    <2>1. CASE \E w \in Worker : wpc[w] = "waiting"
      <3>1. PICK w \in Worker : wpc[w] = "waiting" /\ wpc' = [wpc EXCEPT ![w] = "top"]
        BY <1>4, <2>1 DEF DispatchTask, WakeOne
      <3>2. Moved(wpc, wpc', w, "waiting", "top")
        BY <3>1, Moves
      <3>3. UNCHANGED <<wtask, active>>
        BY <1>4 DEF DispatchTask
      <3>4. active' = active + In("top", CountedAt) - In("waiting", CountedAt)
        BY <1>a, <3>3, InFacts
      <3>5. active' = Cardinality(Counted')
        BY <1>2, <3>2, <3>4
      <3>6. Tasked(wpc', wtask')
        BY <1>3, <3>2, <3>3
      <3> QED BY <3>5, <3>6
    <2>2. CASE ~ \E w \in Worker : wpc[w] = "waiting"
      BY <1>1, <1>4, <2>2 DEF DispatchTask, WakeOne
    <2> QED BY <2>1, <2>2
  <1>5. CASE StopNotify \/ JoinNotify
    <2>1. Counted' = Counted
          /\ \A v \in Worker : wpc'[v] \in {"popped", "executing"}
                                <=> wpc[v] \in {"popped", "executing"}
      BY <1>5, WakeAllMove DEF StopNotify, JoinNotify
    <2>2. UNCHANGED <<wtask, active>>
      BY <1>5 DEF StopNotify, JoinNotify
    <2> QED BY <1>a, <2>1, <2>2
  <1>6. ASSUME NEW w \in Worker, Enter(w)
        PROVE  Tasked(wpc', wtask') /\ active' = Cardinality(Counted')
    <2>1. wpc[w] = "top" /\ active' = active
      BY <1>6 DEF Enter
    <2>2. ASSUME NEW p \in {"exited", "blocking"}, wpc' = [wpc EXCEPT ![w] = p],
                 UNCHANGED wtask
          PROVE  Tasked(wpc', wtask') /\ active' = Cardinality(Counted')
      <3>1. Moved(wpc, wpc', w, "top", p)
        BY <2>1, <2>2, Moves
      <3>2. active' = active + In(p, CountedAt) - In("top", CountedAt)
        BY <1>a, <2>1, InFacts
      <3>3. active' = Cardinality(Counted')
        BY <1>2, <3>1, <3>2
      <3>4. Tasked(wpc', wtask')
        BY <1>3, <2>2, <3>1
      <3> QED BY <3>3, <3>4
    <2>3. CASE /\ queue # <<>> /\ wpc' = [wpc EXCEPT ![w] = "popped"]
               /\ wtask' = [wtask EXCEPT ![w] = Head(queue)]
      <3>1. Moved(wpc, wpc', w, "top", "popped")
        BY <2>1, <2>3, Moves
      <3>2. active' = active + In("popped", CountedAt) - In("top", CountedAt)
        BY <1>a, <2>1, InFacts
      <3>3. Head(queue) # NoTask
        BY <2>3, HeadTailProperties, TaskAssumption DEF TypeOK
      <3>4. Tasked(wpc', wtask')
        BY <1>a, <2>3, <3>3
      <3> QED BY <1>2, <3>1, <3>2, <3>4
    <2> QED BY <1>6, <2>2, <2>3 DEF Enter
  <1>7. ASSUME NEW w \in Worker,
               Block(w) \/ SpuriousWakeup(w) \/ ResetVersion(w) \/ Release(w)
        PROVE  Tasked(wpc', wtask') /\ active' = Cardinality(Counted')
    <2>1. PICK p \in {"waiting", "top", "reset", "released"} :
            wpc' = [wpc EXCEPT ![w] = p] /\ In(p, CountedAt) = In(wpc[w], CountedAt)
            /\ wpc[w] \notin {"popped", "executing"}
      BY <1>7, InFacts DEF Block, SpuriousWakeup, ResetVersion, Release
    <2>2. Moved(wpc, wpc', w, wpc[w], p)
      BY <2>1, Moves
    <2>3. UNCHANGED <<wtask, active>>
      BY <1>7 DEF Block, SpuriousWakeup, ResetVersion, Release
    <2>4. In(p, CountedAt) \in 0..1
      BY InFacts DEF Places
    <2>5. active' = active + In(p, CountedAt) - In(wpc[w], CountedAt)
      BY <1>a, <2>1, <2>3, <2>4
    <2> QED BY <1>2, <1>3, <2>1, <2>2, <2>3, <2>5
  <1>8. ASSUME NEW w \in Worker, Begin(w)
        PROVE  Tasked(wpc', wtask') /\ active' = Cardinality(Counted')
    <2>1. wpc[w] = "popped" /\ wpc' = [wpc EXCEPT ![w] = "executing"]
          /\ UNCHANGED wtask /\ active' = active + 1
      BY <1>8 DEF Begin
    <2>2. Moved(wpc, wpc', w, "popped", "executing")
      BY <2>1, Moves
    <2>3. active' = active + In("executing", CountedAt) - In("popped", CountedAt)
      BY <1>a, <2>1, InFacts
    <2>4. Tasked(wpc', wtask')
      BY <1>a, <2>1
    <2> QED BY <1>2, <2>2, <2>3, <2>4
  <1>9. ASSUME NEW w \in Worker, Execute(w)
        PROVE  Tasked(wpc', wtask') /\ active' = Cardinality(Counted')
    <2>1. wpc[w] = "executing" /\ wpc' = [wpc EXCEPT ![w] = "executed"]
          /\ wtask' = [wtask EXCEPT ![w] = NoTask] /\ active' = active
      BY <1>9 DEF Execute
    <2>2. Moved(wpc, wpc', w, "executing", "executed")
      BY <2>1, Moves
    <2>3. active' = active + In("executed", CountedAt) - In("executing", CountedAt)
      BY <1>a, <2>1, InFacts
    <2>4. Tasked(wpc', wtask')
      BY <1>a, <2>1
    <2> QED BY <1>2, <2>2, <2>3, <2>4
  <1>10. ASSUME NEW w \in Worker, Decrement(w)
         PROVE  Tasked(wpc', wtask') /\ active' = Cardinality(Counted')
    <2>1. wpc[w] = "released" /\ wpc' = [wpc EXCEPT ![w] = "top"]
          /\ UNCHANGED wtask /\ active' = active - 1
      BY <1>10 DEF Decrement
    <2>2. Moved(wpc, wpc', w, "released", "top")
      BY <2>1, Moves
    <2>3. active' = active + In("top", CountedAt) - In("released", CountedAt)
      BY <1>a, <2>1, InFacts
    <2>4. active' = Cardinality(Counted')
      BY <1>2, <2>2, <2>3
    <2>5. Tasked(wpc', wtask')
      BY <1>3, <2>1, <2>2
    <2> QED BY <2>4, <2>5
  <1>11. CASE \/ PollCheck \/ Fetch \/ FetchFails \/ StoreVersion \/ AcquireCheck
              \/ TryAcquire \/ Recheck \/ PingExit \/ \E t \in Task : Offer(t)
    BY <1>1, <1>11 DEF PollCheck, Fetch, FetchFails, StoreVersion, AcquireCheck,
                       TryAcquire, Recheck, PingExit, Offer
  <1>12. CASE \/ Stop \/ JoinPoll \/ WaitActive \/ DrainQueue \/ JoinWorkers
              \/ UNCHANGED vars
    BY <1>1, <1>12 DEF Stop, JoinPoll, WaitActive, DrainQueue, JoinWorkers, vars
  <1> QED BY NextCases, <1>4, <1>5, <1>6, <1>7, <1>8, <1>9, <1>10, <1>11, <1>12

-----------------------------------------------------------------------------
(* The slots of the semaphore *)

\* What a worker takes up or gives back, the semaphore or the queue gives or
\* takes.
LEMMA Balance ==
  ASSUME NEW a \in Nat, NEW a1 \in Nat, NEW q \in Nat, NEW q1 \in Nat,
         NEW b \in Nat, NEW b1 \in Nat, NEW s \in Nat, NEW d \in Nat,
         NEW i \in 0..1, NEW j \in 0..1,
         a1 + q1 + i = a + q + j, b1 = b + i - j
  PROVE  a1 + s + q1 + b1 + d = a + s + q + b + d
  OBVIOUS

\* Every step moves slots between the semaphore, the poll thread, the queue
\* and the workers, and creates or loses none.
LEMMA SlotStep ==
  ASSUME TypeOK, SlotInv, SlotAccounting, [Next]_vars
  PROVE  SlotAccounting'
  <1> USE DEF poll, work, server
  <1>a. /\ permits \in Nat /\ PollSlot \in Nat /\ Len(queue) \in Nat
        /\ Cardinality(Busy) \in Nat /\ drained \in Nat /\ Slots \in Nat
        /\ permits + PollSlot + Len(queue) + Cardinality(Busy) + drained = Slots
    <2>1. PollSlot \in Nat
      BY DEF PollSlot
    <2>2. permits \in Nat /\ Len(queue) \in Nat /\ drained \in Nat
      BY DEF TypeOK
    <2> QED BY <2>1, <2>2, PoolFacts, CountTypes DEF SlotAccounting
  <1>b. SUFFICES permits' + PollSlot' + Len(queue') + Cardinality(Busy') + drained'
                   = Slots
    BY DEF SlotAccounting
  <1>1. CASE UNCHANGED <<permits, slot, queue, wpc, drained>>
    <2>1. PollSlot' = PollSlot
      BY <1>1 DEF PollSlot
    <2> QED BY <1>1, <1>a, <2>1, SameCounts
  <1>2. CASE TryAcquire
    <2>1. CASE permits > 0
      <3>1. permits' = permits - 1 /\ UNCHANGED <<queue, wpc, drained>>
        BY <1>2, <2>1, <1>a DEF TryAcquire
      <3>2. PollSlot = 0
        BY <1>2 DEF TryAcquire, SlotInv, PollSlot
      <3>3. slot' = TRUE
        BY <1>2, <2>1, <1>a DEF TryAcquire
      <3>4. PollSlot' = 1
        BY <3>3 DEF PollSlot
      <3> QED BY <1>a, <3>1, <3>2, <3>4, SameCounts
    <2>2. CASE ~(permits > 0)
      BY <1>1, <1>2, <2>2 DEF TryAcquire
    <2> QED BY <2>1, <2>2
  <1>3. CASE DispatchTask
    <2>1. slot /\ slot' = FALSE
      BY <1>3 DEF DispatchTask, SlotInv
    <2>2. PollSlot = 1 /\ PollSlot' = 0
      BY <2>1 DEF PollSlot
    <2>3. Len(queue') = Len(queue) + 1 /\ UNCHANGED <<permits, drained>>
      BY <1>3 DEF DispatchTask, TypeOK
    <2>4. Cardinality(Busy') = Cardinality(Busy)
      <3>1. CASE \E w \in Worker : wpc[w] = "waiting"
        <4>1. PICK w \in Worker : wpc[w] = "waiting" /\ wpc' = [wpc EXCEPT ![w] = "top"]
          BY <1>3, <3>1 DEF DispatchTask, WakeOne
        <4>2. Moved(wpc, wpc', w, "waiting", "top")
          BY <4>1, Moves
        <4>3. Cardinality(Busy') = Cardinality(Busy) + In("top", BusyAt) - In("waiting", BusyAt)
          BY <4>2, WorkerMove
        <4> QED BY <1>a, <4>3, InFacts
      <3>2. CASE ~ \E w \in Worker : wpc[w] = "waiting"
        BY <1>3, <3>2, SameCounts DEF DispatchTask, WakeOne
      <3> QED BY <3>1, <3>2
    <2> QED BY <1>a, <2>2, <2>3, <2>4
  <1>4. CASE StopNotify \/ JoinNotify
    <2>1. Busy' = Busy
      BY <1>4, WakeAllMove DEF StopNotify, JoinNotify
    <2>2. UNCHANGED <<permits, slot, queue, drained>>
      BY <1>4 DEF StopNotify, JoinNotify
    <2>3. PollSlot' = PollSlot
      BY <2>2 DEF PollSlot
    <2> QED BY <1>a, <2>1, <2>2, <2>3
  <1>5. ASSUME NEW w \in Worker, NEW o, NEW p, Moved(wpc, wpc', w, o, p),
               In(p, BusyAt) \in 0..1, In(o, BusyAt) \in 0..1,
               UNCHANGED <<slot, drained>>,
               permits' + Len(queue') + In(p, BusyAt) =
                 permits + Len(queue) + In(o, BusyAt),
               permits' \in Nat, Len(queue') \in Nat
        PROVE  permits' + PollSlot' + Len(queue') + Cardinality(Busy') + drained'
                 = Slots
    <2>1. PollSlot' = PollSlot
      BY <1>5 DEF PollSlot
    <2>2. Cardinality(Busy') = Cardinality(Busy) + In(p, BusyAt) - In(o, BusyAt)
      BY <1>5, WorkerMove
    <2>3. Cardinality(Busy') \in Nat
      BY CountTypes
    <2>4. drained' = drained
      BY <1>5
    <2>5. permits' + PollSlot + Len(queue') + Cardinality(Busy') + drained
            = permits + PollSlot + Len(queue) + Cardinality(Busy) + drained
      <3> DEFINE i == In(p, BusyAt)
                 j == In(o, BusyAt)
                 b == Cardinality(Busy)
                 b1 == Cardinality(Busy')
                 q == Len(queue)
                 q1 == Len(queue')
                 a1 == permits'
                 s == PollSlot
      <3>1. /\ permits \in Nat /\ s \in Nat /\ q \in Nat /\ b \in Nat /\ drained \in Nat
            /\ a1 \in Nat /\ q1 \in Nat /\ b1 \in Nat /\ i \in 0..1 /\ j \in 0..1
            /\ b1 = b + i - j /\ a1 + q1 + i = permits + q + j
        BY <1>5, <1>a, <2>2, <2>3
      <3> HIDE DEF i, j, b, b1, q, q1, a1, s
      <3>2. a1 + s + q1 + b1 + drained = permits + s + q + b + drained
        BY <3>1, Balance
      <3> QED BY <3>2 DEF b, b1, q, q1, a1, s
    <2> QED BY <1>a, <2>1, <2>4, <2>5
  <1>6. ASSUME NEW w \in Worker, Enter(w)
        PROVE  permits' + PollSlot' + Len(queue') + Cardinality(Busy') + drained'
                 = Slots
    <2>1. wpc[w] = "top" /\ UNCHANGED <<permits, slot, drained>>
      BY <1>6 DEF Enter
    <2>2. ASSUME NEW p \in {"exited", "blocking"}, wpc' = [wpc EXCEPT ![w] = p],
                 UNCHANGED queue
          PROVE  permits' + PollSlot' + Len(queue') + Cardinality(Busy') + drained'
                   = Slots
      <3>1. Moved(wpc, wpc', w, "top", p)
        BY <2>1, <2>2, Moves
      <3>2. In(p, BusyAt) = 0 /\ In("top", BusyAt) = 0
        BY InFacts
      <3> QED BY <1>5, <1>a, <2>1, <2>2, <3>1, <3>2
    <2>3. CASE /\ queue # <<>> /\ wpc' = [wpc EXCEPT ![w] = "popped"]
               /\ queue' = Tail(queue)
      <3>1. Moved(wpc, wpc', w, "top", "popped")
        BY <2>1, <2>3, Moves
      <3>2. In("popped", BusyAt) = 1 /\ In("top", BusyAt) = 0
        BY InFacts
      <3>3. Len(queue') = Len(queue) - 1 /\ Len(queue') \in Nat
        BY <2>3, HeadTailProperties DEF TypeOK
      <3> QED BY <1>5, <1>a, <2>1, <3>1, <3>2, <3>3
    <2> QED BY <1>6, <2>2, <2>3 DEF Enter
  <1>7. ASSUME NEW w \in Worker,
               \/ Block(w) \/ SpuriousWakeup(w) \/ Begin(w) \/ Execute(w)
               \/ ResetVersion(w) \/ Decrement(w)
        PROVE  permits' + PollSlot' + Len(queue') + Cardinality(Busy') + drained'
                 = Slots
    <2>1. PICK p \in {"waiting", "top", "executing", "executed", "reset"} :
            /\ wpc' = [wpc EXCEPT ![w] = p]
            /\ p \in {"waiting", "top"} => wpc[w] \in {"blocking", "waiting", "released"}
            /\ p \in {"executing", "executed", "reset"}
                 => wpc[w] \in {"popped", "executing", "executed"}
      BY <1>7 DEF Block, SpuriousWakeup, Begin, Execute, ResetVersion, Decrement
    <2>2. Moved(wpc, wpc', w, wpc[w], p)
      BY <2>1, Moves
    <2>3. In(p, BusyAt) = In(wpc[w], BusyAt) /\ In(p, BusyAt) \in 0..1
      BY <2>1, InFacts
    <2>4. UNCHANGED <<permits, slot, queue, drained>>
      BY <1>7 DEF Block, SpuriousWakeup, Begin, Execute, ResetVersion, Decrement
    <2> QED BY <1>5, <1>a, <2>2, <2>3, <2>4
  <1>8. ASSUME NEW w \in Worker, Release(w)
        PROVE  permits' + PollSlot' + Len(queue') + Cardinality(Busy') + drained'
                 = Slots
    <2>1. wpc[w] = "reset" /\ wpc' = [wpc EXCEPT ![w] = "released"]
          /\ permits' = permits + 1 /\ UNCHANGED <<slot, queue, drained>>
      BY <1>8 DEF Release
    <2>2. Moved(wpc, wpc', w, "reset", "released")
      BY <2>1, Moves
    <2>3. In("released", BusyAt) = 0 /\ In("reset", BusyAt) = 1
      BY InFacts
    <2> QED BY <1>5, <1>a, <2>1, <2>2, <2>3, SMTT(30)
  <1>9. CASE DrainQueue
    <2>1. Len(queue') = 0 /\ drained' = drained + Len(queue)
          /\ UNCHANGED <<permits, slot, wpc>>
      BY <1>9 DEF DrainQueue
    <2>2. PollSlot' = PollSlot
      BY <2>1 DEF PollSlot
    <2> QED BY <1>a, <2>1, <2>2, SameCounts
  <1>10. CASE \/ PollCheck \/ Fetch \/ FetchFails \/ StoreVersion \/ AcquireCheck
              \/ Recheck \/ PingExit \/ \E t \in Task : Offer(t)
    BY <1>1, <1>10 DEF PollCheck, Fetch, FetchFails, StoreVersion, AcquireCheck,
                       Recheck, PingExit, Offer
  <1>11. CASE \/ Stop \/ JoinPoll \/ WaitActive \/ JoinWorkers \/ UNCHANGED vars
    BY <1>1, <1>11 DEF Stop, JoinPoll, WaitActive, JoinWorkers, vars
  <1> QED BY NextCases, <1>2, <1>3, <1>4, <1>6, <1>7, <1>8, <1>9, <1>10, <1>11

-----------------------------------------------------------------------------
(* No lost wakeup *)

\* When nobody is inside the wait and nobody has left, every worker either
\* holds a slot or is about to look at the queue.
LEMMA AllBusyOrAwake ==
  ASSUME TypeOK, \A w \in Worker : wpc[w] \notin {"blocking", "waiting", "exited"}
  PROVE  Cardinality(Busy) + Cardinality(Awake) = Slots
  <1>1. Worker = Busy \cup Awake /\ Busy \cap Awake = {}
    BY DEF TypeOK, Places, Busy, Awake, At, BusyAt, AwakeAt
  <1>2. IsFiniteSet(Busy) /\ IsFiniteSet(Awake)
    BY AtFinite DEF Busy, Awake
  <1>3. Cardinality(Busy \cup Awake) =
          Cardinality(Busy) + Cardinality(Awake) - Cardinality(Busy \cap Awake)
    BY <1>2, FS_Union
  <1>4. Cardinality(Busy \cup Awake) = Slots
    BY <1>1, PoolFacts, Zenon
  <1>5. Cardinality(Busy \cap Awake) = 0
    BY <1>1, FS_EmptySet, Zenon
  <1>6. Cardinality(Busy) \in Nat /\ Cardinality(Awake) \in Nat
    BY CountTypes
  <1> QED BY <1>3, <1>4, <1>5, <1>6

\* While the daemon runs, every step leaves enough workers to look at the
\* queue: a dispatch either wakes one, or finds every worker busy or awake
\* and, by the count of slots, enough of them awake.
LEMMA WakeStep ==
  ASSUME TypeOK, SlotInv, ShutdownInv, SlotAccounting, NoLostWakeup, [Next]_vars
  PROVE  NoLostWakeup'
  <1> USE DEF poll, work, server
  <1>a. SUFFICES ASSUME ~shutdown' PROVE Len(queue') <= Cardinality(Awake')
    BY DEF NoLostWakeup
  <1>b. Len(queue) \in Nat /\ Cardinality(Awake) \in Nat /\ Cardinality(Awake') \in Nat
    BY CountTypes DEF TypeOK
  <1>1. CASE Stop \/ DrainQueue \/ StopNotify \/ JoinNotify
    BY <1>1, <1>a DEF Stop, DrainQueue, StopNotify, JoinNotify, ShutdownInv
  <1> SUFFICES ASSUME ~(Stop \/ DrainQueue \/ StopNotify \/ JoinNotify)
               PROVE  Len(queue') <= Cardinality(Awake')
    BY <1>1
  <1>c. ~shutdown /\ Len(queue) <= Cardinality(Awake)
    <2>1. shutdown' = shutdown
      BY NextCases DEF Offer, PollCheck, Fetch, FetchFails, StoreVersion, AcquireCheck,
         TryAcquire, Recheck, DispatchTask, PingExit, Enter, Block, Begin, Execute,
         ResetVersion, Release, Decrement, SpuriousWakeup, JoinPoll, WaitActive,
         JoinWorkers, vars
    <2> QED BY <1>a, <2>1 DEF NoLostWakeup
  <1>2. CASE UNCHANGED <<queue, wpc>>
    BY <1>2, <1>c, SameCounts
  <1>3. CASE DispatchTask
    <2>1. Len(queue') = Len(queue) + 1
      BY <1>3 DEF DispatchTask, TypeOK
    <2>2. CASE \E w \in Worker : wpc[w] = "waiting"
      <3>1. PICK w \in Worker : wpc[w] = "waiting" /\ wpc' = [wpc EXCEPT ![w] = "top"]
        BY <1>3, <2>2 DEF DispatchTask, WakeOne
      <3>2. Moved(wpc, wpc', w, "waiting", "top")
        BY <3>1, Moves
      <3>3. Cardinality(Awake') =
              Cardinality(Awake) + In("top", AwakeAt) - In("waiting", AwakeAt)
        BY <3>2, WorkerMove
      <3>4. In("top", AwakeAt) = 1 /\ In("waiting", AwakeAt) = 0
        BY InFacts
      <3> QED BY <1>b, <1>c, <2>1, <3>3, <3>4
    <2>3. CASE ~ \E w \in Worker : wpc[w] = "waiting"
      <3>1. \A w \in Worker : wpc[w] \notin {"blocking", "waiting", "exited"}
        BY <1>3, <1>c, <2>3 DEF DispatchTask, MutexFree, ShutdownInv
      <3>2. Cardinality(Busy) + Cardinality(Awake) = Slots
        BY <3>1, AllBusyOrAwake
      <3>3. PollSlot = 1
        BY <1>3 DEF DispatchTask, SlotInv, PollSlot
      <3>4. permits + 1 + Len(queue) + Cardinality(Busy) + drained = Slots
        BY <3>3 DEF SlotAccounting
      <3>5. permits \in Nat /\ drained \in Nat /\ Cardinality(Busy) \in Nat
        BY CountTypes DEF TypeOK
      <3>6. Len(queue) + 1 <= Cardinality(Awake)
        BY <1>b, <3>2, <3>4, <3>5, PoolFacts
      <3>7. Awake' = Awake
        BY <1>3, <2>3, SameCounts DEF DispatchTask, WakeOne
      <3> QED BY <2>1, <3>6, <3>7
    <2> QED BY <2>2, <2>3
  <1>4. ASSUME NEW w \in Worker, Enter(w) PROVE Len(queue') <= Cardinality(Awake')
    <2>1. CASE queue = <<>>
      <3>1. Len(queue') = 0
        BY <1>4, <2>1 DEF Enter
      <3> QED BY <1>b, <3>1
    <2>2. CASE queue # <<>>
      <3>1. wpc[w] = "top" /\ wpc' = [wpc EXCEPT ![w] = "popped"] /\ queue' = Tail(queue)
        BY <1>4, <2>2 DEF Enter
      <3>2. Moved(wpc, wpc', w, "top", "popped")
        BY <3>1, Moves
      <3>3. Cardinality(Awake') =
              Cardinality(Awake) + In("popped", AwakeAt) - In("top", AwakeAt)
        BY <3>2, WorkerMove
      <3>4. In("popped", AwakeAt) = 0 /\ In("top", AwakeAt) = 1
        BY InFacts
      <3>5. Len(queue') = Len(queue) - 1
        BY <2>2, <3>1, HeadTailProperties DEF TypeOK
      <3> QED BY <1>b, <1>c, <3>3, <3>4, <3>5
    <2> QED BY <2>1, <2>2
  <1>5. ASSUME NEW w \in Worker,
               \/ Block(w) \/ SpuriousWakeup(w) \/ Begin(w) \/ Execute(w)
               \/ ResetVersion(w) \/ Release(w) \/ Decrement(w)
        PROVE  Len(queue') <= Cardinality(Awake')
    <2>1. PICK p \in Places :
            /\ wpc' = [wpc EXCEPT ![w] = p]
            /\ wpc[w] = "released" => p = "top"
            /\ wpc[w] # "top"
      BY <1>5 DEF Block, SpuriousWakeup, Begin, Execute, ResetVersion, Release,
                  Decrement, Places
    <2>2. Moved(wpc, wpc', w, wpc[w], p)
      BY <2>1, Moves
    <2>3. Cardinality(Awake') =
            Cardinality(Awake) + In(p, AwakeAt) - In(wpc[w], AwakeAt)
      BY <2>2, WorkerMove
    <2>4. /\ In(p, AwakeAt) \in 0..1 /\ In(wpc[w], AwakeAt) \in 0..1
          /\ In(p, AwakeAt) >= In(wpc[w], AwakeAt)
      BY <2>1 DEF In, AwakeAt
    <2>5. queue' = queue
      BY <1>5 DEF Block, SpuriousWakeup, Begin, Execute, ResetVersion, Release,
                  Decrement
    <2> QED BY <1>b, <1>c, <2>3, <2>4, <2>5
  <1>6. CASE \/ PollCheck \/ Fetch \/ FetchFails \/ StoreVersion \/ AcquireCheck
             \/ TryAcquire \/ Recheck \/ PingExit \/ \E t \in Task : Offer(t)
    BY <1>2, <1>6 DEF PollCheck, Fetch, FetchFails, StoreVersion, AcquireCheck,
                      TryAcquire, Recheck, PingExit, Offer
  <1>7. CASE JoinPoll \/ WaitActive \/ JoinWorkers \/ UNCHANGED vars
    BY <1>2, <1>7 DEF JoinPoll, WaitActive, JoinWorkers, vars
  <1> QED BY NextCases, <1>3, <1>4, <1>5, <1>6, <1>7

-----------------------------------------------------------------------------
(* The theorems *)

\* The invariant that carries the proofs is inductive: types, what the poll
\* thread and the workers have at each place, how far the shutdown has come,
\* the balance of the slots and the wakeups.
THEOREM InductiveInvariant == Spec => []IInv
  <1>1. Init => IInv
    <2> SUFFICES ASSUME Init PROVE IInv
      OBVIOUS
    <2> USE DEF Init
    <2>1. TypeOK
      <3>1. shutdown \in BOOLEAN /\ slot \in BOOLEAN
        OBVIOUS
      <3>2. queue \in Seq(Task)
        OBVIOUS
      <3>3. permits \in Nat
        BY PoolFacts
      <3>4. wpc \in [Worker -> Places] /\ wtask \in [Worker -> Task \cup {NoTask}]
            /\ outcome \in [Task -> Outcomes]
        BY DEF Places, Outcomes
      <3> QED BY <3>1, <3>2, <3>3, <3>4 DEF TypeOK
    <2>2. SlotInv /\ HeldInv /\ ShutdownInv
      BY DEF SlotInv, HeldInv, ShutdownInv
    <2>3. Busy = {} /\ Counted = {}
      BY DEF Busy, Counted, At, BusyAt, CountedAt
    <2>4. Cardinality({}) = 0
      BY FS_EmptySet
    <2>5. WorkInv
      BY <2>3, <2>4 DEF WorkInv
    <2>6. PollSlot = 0 /\ Len(queue) = 0
      BY DEF PollSlot
    <2>7. SlotAccounting
      BY <2>3, <2>4, <2>6, PoolFacts DEF SlotAccounting
    <2>8. NoLostWakeup
      BY <2>6, CountTypes DEF NoLostWakeup
    <2> QED BY <2>1, <2>2, <2>5, <2>7, <2>8 DEF IInv
  <1>2. IInv /\ [Next]_vars => IInv'
    BY TypeStep, PollStepInv, ShutdownStep, WorkStep, SlotStep, WakeStep DEF IInv
  <1> QED BY <1>1, <1>2, PTL DEF Spec

\* The threads' variables keep their types: in particular the semaphore never
\* goes below 0 and only tasks reach the queue.
THEOREM TypeCorrect == Spec => []TypeOK
  <1>1. IInv => TypeOK
    BY DEF IInv
  <1> QED BY <1>1, InductiveInvariant, PTL

\* No slot of capacity_sem_ is created or lost, for every capacity and every
\* interleaving of poll thread, workers, stop() and join().
THEOREM SlotsBalance == Spec => []SlotAccounting
  <1>1. IInv => SlotAccounting
    BY DEF IInv
  <1> QED BY <1>1, InductiveInvariant, PTL

\* As long as the daemon is not stopped, work_cv_ loses no wakeup: there are
\* at least as many workers about to look at the queue as tasks on it.
THEOREM WakeupsSuffice == Spec => []NoLostWakeup
  <1>1. IInv => NoLostWakeup
    BY DEF IInv
  <1> QED BY <1>1, InductiveInvariant, PTL

\* When join() has returned, the poll thread and all workers have ended, no
\* task is queued or with a worker, and active_tasks_ is 0.
THEOREM JoinLeavesNothing == Spec => []JoinedIsQuiet
  <1>1. IInv => JoinedIsQuiet
    <2> SUFFICES ASSUME IInv, mpc = "joined"
                 PROVE  /\ ppc = "exited" /\ queue = <<>> /\ active = 0
                        /\ \A w \in Worker : wtask[w] = NoTask
      BY DEF JoinedIsQuiet
    <2>1. ppc = "exited" /\ queue = <<>> /\ \A w \in Worker : wpc[w] = "exited"
      BY DEF IInv, ShutdownInv
    <2>2. Counted = {}
      BY <2>1 DEF Counted, At, CountedAt
    <2>3. active = 0
      BY <2>2, FS_EmptySet DEF IInv, WorkInv
    <2>4. \A w \in Worker : wtask[w] = NoTask
      BY <2>1 DEF IInv, WorkInv
    <2> QED BY <2>1, <2>3, <2>4
  <1> QED BY <1>1, InductiveInvariant, PTL

-----------------------------------------------------------------------------
(* One owner *)

\* What a place on the queue says of the tasks on it.
LEMMA QueuedFacts ==
  ASSUME TypeOK
  PROVE  /\ DOMAIN queue = 1..Len(queue) /\ Len(queue) \in Nat
         /\ Queued \subseteq Task /\ NoTask \notin Queued
  <1>1. queue \in Seq(Task)
    BY DEF TypeOK
  <1>2. DOMAIN queue = 1..Len(queue) /\ Len(queue) \in Nat
        /\ \A i \in DOMAIN queue : queue[i] \in Task
    BY <1>1, ElementOfSeq, LenProperties
  <1> QED BY <1>2, TaskAssumption DEF Queued

\* Steps that move no task leave every owner alone.
LEMMA OwnerSame ==
  ASSUME OwnerInv, queue' = queue, wtask' = wtask, held' = held, outcome' = outcome,
         pending' = pending
  PROVE  OwnerInv'
  BY DEF OwnerInv, OneOwner, Queued

\* A task that the server offers is with nobody.
LEMMA OfferedIsFree ==
  ASSUME OwnerInv, NEW t \in Task, outcome[t] # "fetched"
  PROVE  t \notin Queued /\ t # held /\ \A w \in Worker : wtask[w] # t
  BY DEF OwnerInv, OneOwner

\* A step changes no owner but the one it moves a task to or from.
LEMMA OwnerStep ==
  ASSUME IInv, OwnerInv, [Next]_vars
  PROVE  OwnerInv'
  <1>a. TypeOK
    BY DEF IInv
  <1>b. /\ DOMAIN queue = 1..Len(queue) /\ Len(queue) \in Nat
        /\ Queued \subseteq Task /\ NoTask \notin Queued
    BY <1>a, QueuedFacts
  <1>c. /\ held \in Task \cup {NoTask} /\ wtask \in [Worker -> Task \cup {NoTask}]
        /\ outcome \in [Task -> Outcomes] /\ pending \in SUBSET Task
        /\ NoTask \notin Task /\ queue \in Seq(Task)
    BY <1>a, TaskAssumption DEF TypeOK
  <1>1. ASSUME NEW t \in Task, Offer(t) PROVE OwnerInv'
    <2>1. /\ Queued' = Queued /\ queue' = queue /\ held' = held /\ wtask' = wtask
          /\ outcome' = [outcome EXCEPT ![t] = "offered"] /\ outcome[t] = "none"
          /\ pending' = pending \cup {t}
      BY <1>1 DEF Offer, Queued, poll, work
    <2>2. \A s \in Task : outcome'[s] = "fetched" <=> outcome[s] = "fetched"
      BY <1>c, <2>1
    <2>3. OneOwner'
      BY <2>1, <2>2 DEF OwnerInv, OneOwner
    <2>4. \A s \in pending' : outcome'[s] = "offered"
      BY <1>c, <2>1 DEF OwnerInv
    <2> QED BY <2>3, <2>4 DEF OwnerInv
  <1>2. CASE Fetch
    <2>1. held = NoTask
      BY <1>2 DEF Fetch, IInv, HeldInv
    <2>2. PICK t \in Assignable(tasks_version) :
            /\ held' = t /\ pending' = pending \ {t}
            /\ outcome' = [s \in Task |-> IF s = t THEN "fetched" ELSE outcome[s]]
      BY <1>2 DEF Fetch
    <2>3. queue' = queue /\ wtask' = wtask /\ Queued' = Queued
      BY <1>2 DEF Fetch, Queued, work
    <2>4. t = NoTask \/ (t \in Task /\ outcome[t] = "offered")
      BY <1>c DEF Assignable, OwnerInv
    <2>5. t \notin Queued /\ (t # NoTask => \A w \in Worker : wtask[w] # t)
      BY <1>b, <2>4, OfferedIsFree
    <2>6. \A s \in Task : outcome'[s] = "fetched" <=> outcome[s] = "fetched" \/ s = t
      BY <2>2
    <2>7. \A s \in Task : outcome'[s] = "fetched"
                           <=> s \in Queued \cup {t} \cup {wtask[w] : w \in Worker}
      BY <1>c, <2>1, <2>6 DEF OwnerInv, OneOwner
    <2>8. OneOwner'
      BY <2>2, <2>3, <2>5, <2>7 DEF OwnerInv, OneOwner
    <2>9. \A s \in pending' : outcome'[s] = "offered"
      BY <1>c, <2>2 DEF OwnerInv
    <2> QED BY <2>8, <2>9 DEF OwnerInv
  <1>3. CASE FetchFails
    <2>1. queue' = queue /\ wtask' = wtask /\ held' = held /\ Queued' = Queued
      BY <1>3 DEF FetchFails, Queued, work
    <2>2. CASE UNCHANGED <<pending, outcome>>
      BY <2>1, <2>2, OwnerSame
    <2>3. CASE \E t \in Assignable(tasks_version) \ {NoTask} :
                 /\ pending' = pending \ {t}
                 /\ outcome' = [outcome EXCEPT ![t] = "lost"]
      <3>1. PICK t \in Assignable(tasks_version) \ {NoTask} :
                 /\ pending' = pending \ {t}
                 /\ outcome' = [outcome EXCEPT ![t] = "lost"]
        BY <2>3
      <3>2. t \in Task /\ outcome[t] = "offered"
        BY <1>c DEF Assignable, OwnerInv
      <3>3. \A s \in Task : outcome'[s] = "fetched" <=> outcome[s] = "fetched"
        BY <1>c, <3>1, <3>2
      <3>4. OneOwner'
        BY <2>1, <3>3 DEF OwnerInv, OneOwner
      <3>5. \A s \in pending' : outcome'[s] = "offered"
        BY <1>c, <3>1 DEF OwnerInv
      <3> QED BY <3>4, <3>5 DEF OwnerInv
    <2> QED BY <1>3, <2>2, <2>3 DEF FetchFails
  <1>4. CASE Recheck
    <2>1. /\ queue' = queue /\ wtask' = wtask /\ Queued' = Queued /\ pending' = pending
          /\ held \in Task
      BY <1>c, <1>4 DEF Recheck, Queued, work, server, IInv, HeldInv
    <2>2. CASE held' = held /\ outcome' = outcome
      BY <2>1, <2>2, OwnerSame
    <2>3. CASE held' = NoTask /\ outcome' = [outcome EXCEPT ![held] = "dropped"]
      <3>1. held \notin Queued /\ \A w \in Worker : wtask[w] # held
        BY <2>1, <1>c DEF OwnerInv, OneOwner
      <3>2. \A s \in Task : outcome'[s] = "fetched" <=> outcome[s] = "fetched" /\ s # held
        BY <1>c, <2>1, <2>3
      <3>3. \A s \in Task : outcome'[s] = "fetched"
                             <=> s \in Queued \cup {NoTask} \cup {wtask[w] : w \in Worker}
        BY <1>c, <3>1, <3>2 DEF OwnerInv, OneOwner
      <3>4. OneOwner'
        BY <1>b, <2>1, <2>3, <3>3 DEF OwnerInv, OneOwner
      <3>5. outcome[held] = "fetched"
        BY <2>1 DEF OwnerInv, OneOwner
      <3>6. \A s \in pending' : outcome'[s] = "offered"
        BY <1>c, <2>1, <2>3, <3>5 DEF OwnerInv
      <3> QED BY <3>4, <3>6 DEF OwnerInv
    <2> QED BY <1>4, <2>2, <2>3 DEF Recheck
  <1>5. CASE DispatchTask
    <2>1. /\ queue' = Append(queue, held) /\ wtask' = wtask /\ held' = NoTask
          /\ outcome' = outcome /\ pending' = pending /\ held \in Task
      BY <1>c, <1>5 DEF DispatchTask, server, IInv, HeldInv
    <2>2. /\ DOMAIN queue' = 1..(Len(queue) + 1) /\ queue'[Len(queue) + 1] = held
          /\ \A i \in DOMAIN queue : queue'[i] = queue[i]
      BY <1>b, <1>c, <2>1, AppendProperties
    <2>3. Queued' = Queued \cup {held}
      BY <1>b, <2>2 DEF Queued
    <2>4. \A i \in DOMAIN queue : queue[i] # held
      BY DEF OwnerInv, OneOwner, Queued
    <2>5. \A i, j \in DOMAIN queue' : queue'[i] = queue'[j] => i = j
      <3> SUFFICES ASSUME NEW i \in DOMAIN queue', NEW j \in DOMAIN queue',
                          queue'[i] = queue'[j]
                   PROVE  i = j
        OBVIOUS
      <3>1. /\ i \in DOMAIN queue \/ i = Len(queue) + 1
            /\ j \in DOMAIN queue \/ j = Len(queue) + 1
        BY <1>b, <2>2
      <3> QED BY <2>2, <2>4, <3>1 DEF OwnerInv, OneOwner
    <2>6. OneOwner'
      <3>1. \A t \in Task : outcome'[t] = "fetched"
              <=> t \in Queued' \cup {held'} \cup {wtask'[w] : w \in Worker}
        BY <1>c, <2>1, <2>3 DEF OwnerInv, OneOwner
      <3>2. /\ \A w \in Worker : wtask'[w] # NoTask => wtask'[w] \notin Queued' \cup {held'}
            /\ held' \notin Queued'
        BY <1>b, <1>c, <2>1, <2>3 DEF OwnerInv, OneOwner
      <3>3. \A v, w \in Worker : wtask'[v] = wtask'[w] /\ wtask'[v] # NoTask => v = w
        BY <2>1 DEF OwnerInv, OneOwner
      <3> QED BY <2>5, <3>1, <3>2, <3>3 DEF OneOwner
    <2> QED BY <2>1, <2>6 DEF OwnerInv
  <1>6. ASSUME NEW w \in Worker, Enter(w) PROVE OwnerInv'
    <2>1. held' = held /\ outcome' = outcome /\ pending' = pending
      BY <1>6 DEF Enter, poll, server
    <2>2. CASE UNCHANGED <<queue, wtask>>
      BY <2>1, <2>2, OwnerSame
    <2>3. CASE /\ queue # <<>> /\ wtask' = [wtask EXCEPT ![w] = Head(queue)]
               /\ queue' = Tail(queue)
      <3>1. wtask[w] = NoTask
        BY <1>6 DEF Enter, IInv, WorkInv
      <3>2. /\ 1 \in DOMAIN queue /\ Head(queue) = queue[1]
            /\ DOMAIN queue' = 1..(Len(queue) - 1)
            /\ \A i \in 1..(Len(queue) - 1) : queue'[i] = queue[i + 1]
        BY <1>b, <1>c, <2>3, HeadTailProperties, EmptySeq
      <3>3. \A i \in 1..(Len(queue) - 1) : i + 1 \in DOMAIN queue /\ i + 1 # 1
        BY <1>b
      <3>4. \A i, j \in DOMAIN queue' : queue'[i] = queue'[j] => i = j
        <4> SUFFICES ASSUME NEW i \in DOMAIN queue', NEW j \in DOMAIN queue',
                            queue'[i] = queue'[j]
                     PROVE  i = j
          OBVIOUS
        <4>1. i + 1 = j + 1
          BY <3>2, <3>3 DEF OwnerInv, OneOwner
        <4> QED BY <1>b, <3>2, <4>1
      <3>5. Queued = Queued' \cup {queue[1]}
        <4>1. \A i \in DOMAIN queue : i = 1 \/ (i - 1 \in 1..(Len(queue) - 1)
                                                /\ queue'[i - 1] = queue[i])
          BY <1>b, <3>2
        <4> QED BY <3>2, <3>3, <4>1 DEF Queued
      <3>6. queue[1] \notin Queued'
        <4>1. \A i \in 1..(Len(queue) - 1) : queue[i + 1] # queue[1]
          BY <3>2, <3>3 DEF OwnerInv, OneOwner
        <4> QED BY <3>2, <4>1 DEF Queued
      <3>7. queue[1] \in Queued /\ queue[1] # NoTask /\ queue[1] # held
        BY <1>b, <3>5 DEF OwnerInv, OneOwner
      <3>a. wtask'[w] = queue[1] /\ \A v \in Worker : v # w => wtask'[v] = wtask[v]
        BY <1>c, <2>3, <3>2
      <3>b. \A v \in Worker : wtask[v] # queue[1]
        BY <3>7 DEF OwnerInv, OneOwner
      <3>8. /\ wtask'[w] = queue[1] /\ \A v \in Worker : v # w => wtask'[v] = wtask[v]
            /\ \A v \in Worker : wtask[v] # queue[1]
        BY <3>a, <3>b
      <3>9. \A u, v \in Worker : wtask'[u] = wtask'[v] /\ wtask'[u] # NoTask => u = v
        <4> SUFFICES ASSUME NEW u \in Worker, NEW v \in Worker,
                            wtask'[u] = wtask'[v], wtask'[u] # NoTask
                     PROVE  u = v
          OBVIOUS
        <4> QED BY <3>8 DEF OwnerInv, OneOwner
      <3>10. /\ \A v \in Worker : wtask'[v] # NoTask => wtask'[v] \notin Queued' \cup {held'}
             /\ held' \notin Queued'
        BY <2>1, <3>5, <3>6, <3>7, <3>8 DEF OwnerInv, OneOwner
      <3>11. \A t \in Task : t \in {wtask'[v] : v \in Worker}
                              <=> t \in {wtask[v] : v \in Worker} \/ t = queue[1]
        BY <1>c, <3>1, <3>8
      <3>12. \A t \in Task : outcome'[t] = "fetched"
               <=> t \in Queued' \cup {held'} \cup {wtask'[v] : v \in Worker}
        BY <2>1, <3>5, <3>11 DEF OwnerInv, OneOwner
      <3>13. OneOwner'
        BY <3>4, <3>9, <3>10, <3>12 DEF OneOwner
      <3> QED BY <2>1, <3>13 DEF OwnerInv
    <2> QED BY <1>6, <2>2, <2>3 DEF Enter
  <1>7. ASSUME NEW w \in Worker, Execute(w) PROVE OwnerInv'
    <2>1. wtask[w] \in Task
      BY <1>c, <1>7 DEF Execute, IInv, WorkInv
    <2>2. PICK o \in {"reported", "aborted"} : outcome' = [outcome EXCEPT ![wtask[w]] = o]
      BY <1>7 DEF Execute
    <2>3. /\ queue' = queue /\ held' = held /\ pending' = pending /\ Queued' = Queued
          /\ wtask' = [wtask EXCEPT ![w] = NoTask]
      BY <1>7 DEF Execute, Queued, poll, server
    <2>4. \A t \in Task : outcome'[t] = "fetched" <=> outcome[t] = "fetched" /\ t # wtask[w]
      BY <1>c, <2>1, <2>2
    <2>a. wtask'[w] = NoTask /\ \A v \in Worker : v # w => wtask'[v] = wtask[v]
      BY <1>c, <2>3
    <2>b. \A v \in Worker : v # w => wtask[v] # wtask[w]
      BY <1>c, <2>1 DEF OwnerInv, OneOwner
    <2>5. /\ wtask'[w] = NoTask /\ \A v \in Worker : v # w => wtask'[v] = wtask[v]
          /\ \A v \in Worker : v # w => wtask[v] # wtask[w]
      BY <2>a, <2>b
    <2>6. wtask[w] \notin Queued \cup {held} /\ outcome[wtask[w]] = "fetched"
      BY <1>c, <2>1 DEF OwnerInv, OneOwner
    <2>7. \A t \in Task : t \in {wtask'[v] : v \in Worker}
                           <=> t \in {wtask[v] : v \in Worker} /\ t # wtask[w]
      BY <1>c, <2>5
    <2>8. \A t \in Task : outcome'[t] = "fetched"
            <=> t \in Queued' \cup {held'} \cup {wtask'[v] : v \in Worker}
      BY <2>3, <2>4, <2>6, <2>7 DEF OwnerInv, OneOwner
    <2>9. OneOwner'
      BY <2>3, <2>5, <2>8 DEF OwnerInv, OneOwner
    <2>10. \A s \in pending' : outcome'[s] = "offered"
      BY <1>c, <2>1, <2>2, <2>3, <2>6 DEF OwnerInv
    <2> QED BY <2>9, <2>10 DEF OwnerInv
  <1>8. CASE DrainQueue
    <2>1. /\ queue' = <<>> /\ held' = held /\ wtask' = wtask /\ pending' = pending
          /\ outcome' = [t \in Task |-> IF t \in Queued THEN "dropped" ELSE outcome[t]]
      BY <1>8 DEF DrainQueue, poll, work, server
    <2>2. Queued' = {} /\ DOMAIN queue' = {}
      BY <2>1 DEF Queued
    <2>3. \A t \in Task : outcome'[t] = "fetched"
            <=> t \in Queued' \cup {held'} \cup {wtask'[v] : v \in Worker}
      BY <1>b, <1>c, <2>1, <2>2 DEF OwnerInv, OneOwner
    <2>4. OneOwner'
      BY <2>1, <2>2, <2>3 DEF OwnerInv, OneOwner
    <2>5. \A s \in pending' : outcome'[s] = "offered"
      BY <1>c, <2>1, OfferedIsFree DEF OwnerInv
    <2> QED BY <2>4, <2>5 DEF OwnerInv
  <1>9. CASE \/ PollCheck \/ StoreVersion \/ AcquireCheck \/ TryAcquire \/ PingExit
             \/ Stop \/ StopNotify \/ JoinPoll \/ WaitActive \/ JoinNotify \/ JoinWorkers
             \/ UNCHANGED vars
    <2>1. /\ queue' = queue /\ wtask' = wtask /\ held' = held /\ outcome' = outcome
          /\ pending' = pending
      BY <1>9 DEF PollCheck, StoreVersion, AcquireCheck, TryAcquire, PingExit, Stop,
                  StopNotify, JoinPoll, WaitActive, JoinNotify, JoinWorkers, vars, poll,
                  work, server
    <2> QED BY <2>1, OwnerSame
  <1>10. ASSUME NEW w \in Worker,
                \/ Block(w) \/ SpuriousWakeup(w) \/ Begin(w) \/ ResetVersion(w)
                \/ Release(w) \/ Decrement(w)
         PROVE  OwnerInv'
    <2>1. /\ queue' = queue /\ wtask' = wtask /\ held' = held /\ outcome' = outcome
          /\ pending' = pending
      BY <1>10 DEF Block, SpuriousWakeup, Begin, ResetVersion, Release, Decrement, poll, server
    <2> QED BY <2>1, OwnerSame
  <1> QED BY NextCases, <1>1, <1>2, <1>3, <1>4, <1>5, <1>6, <1>7, <1>8, <1>9, <1>10

\* Every fetched task is in exactly one place until something has become of
\* it, for every capacity and every set of tasks: no task is executed twice.
THEOREM TaskHasOneOwner == Spec => []OneOwner
  <1>1. Init => OwnerInv
    BY TaskAssumption DEF Init, OwnerInv, OneOwner, Queued
  <1>2. IInv /\ OwnerInv /\ [Next]_vars => OwnerInv'
    BY OwnerStep
  <1>3. OwnerInv => OneOwner
    BY DEF OwnerInv
  <1> QED BY <1>1, <1>2, <1>3, InductiveInvariant, PTL DEF Spec

-----------------------------------------------------------------------------
(* The abstract dispatch *)

\* The steps that move no task.
LEMMA DispatchSame ==
  ASSUME queue' = queue, held' = held, wtask' = wtask, outcome' = outcome, shutdown' = shutdown
  PROVE  UNCHANGED Dispatch!vars
  <1>1. Waiting' = Waiting
    BY DEF Waiting
  <1> QED BY <1>1 DEF Dispatch!vars

\* A task that is fetched waits behind all others; one whose answer is lost
\* does not get there.
LEMMA FetchGivesOut ==
  ASSUME IInv, OwnerInv, Fetch \/ FetchFails
  PROVE  Dispatch!Next \/ UNCHANGED Dispatch!vars
  <1>a. held = NoTask /\ outcome \in [Task -> Outcomes] /\ pending \subseteq Task
    BY DEF Fetch, FetchFails, IInv, HeldInv, TypeOK
  <1>b. \A t \in pending : outcome[t] = "offered"
    BY DEF OwnerInv
  <1>1. CASE Fetch
    <2>1. PICK t \in Assignable(tasks_version) :
            /\ held' = t
            /\ outcome' = [s \in Task |-> IF s = t THEN "fetched" ELSE outcome[s]]
      BY <1>1 DEF Fetch
    <2>2. UNCHANGED <<queue, wtask, shutdown>>
      BY <1>1 DEF Fetch, work
    <2>3. CASE t = NoTask
      <3>1. outcome' = outcome
        BY <1>a, <2>1, <2>3, TaskAssumption
      <3> QED BY <1>a, <2>1, <2>2, <2>3, <3>1, DispatchSame
    <2>4. CASE t # NoTask
      <3>1. t \in Task /\ outcome[t] = "offered"
        BY <1>a, <1>b, <2>4 DEF Assignable
      <3>2. Waiting' = Append(Waiting, t)
        BY <1>a, <2>1, <2>2, <2>4 DEF Waiting
      <3>3. outcome' = [outcome EXCEPT ![t] = "fetched"]
        BY <1>a, <2>1, <3>1
      <3>4. Dispatch!GiveOut(t)
        BY <2>2, <3>1, <3>2, <3>3 DEF Dispatch!GiveOut, Dispatch!Becomes
      <3> QED BY <3>1, <3>4 DEF Dispatch!Next
    <2> QED BY <2>3, <2>4
  <1>2. CASE FetchFails
    <2>1. UNCHANGED <<queue, held, wtask, shutdown>>
      BY <1>2 DEF FetchFails, work
    <2>2. CASE outcome' = outcome
      BY <2>1, <2>2, DispatchSame
    <2>3. ASSUME NEW t \in Assignable(tasks_version) \ {NoTask},
                 outcome' = [outcome EXCEPT ![t] = "lost"]
          PROVE  Dispatch!Next
      <3>1. t \in Task /\ outcome[t] = "offered"
        BY <1>a, <1>b DEF Assignable
      <3>2. Waiting' = Waiting
        BY <2>1 DEF Waiting
      <3>3. Dispatch!Lose(t)
        BY <2>1, <2>3, <3>1, <3>2 DEF Dispatch!Lose, Dispatch!Becomes
      <3> QED BY <3>1, <3>3 DEF Dispatch!Next
    <2> QED BY <1>2, <2>2, <2>3 DEF FetchFails
  <1> QED BY <1>1, <1>2

\* Dispatching moves a task from the poll thread to the end of the queue:
\* the order does not change.
LEMMA DispatchKeepsOrder ==
  ASSUME IInv, DispatchTask
  PROVE  UNCHANGED Dispatch!vars
  <1>1. held # NoTask /\ held' = NoTask /\ queue' = Append(queue, held)
        /\ UNCHANGED <<wtask, outcome, shutdown>>
    BY DEF IInv, HeldInv, DispatchTask
  <1>2. Waiting' = Waiting
    BY <1>1 DEF Waiting
  <1> QED BY <1>1, <1>2 DEF Dispatch!vars

\* A worker takes the task that has waited longest.
LEMMA EnterStarts ==
  ASSUME IInv, NEW w \in Worker, Enter(w)
  PROVE  Dispatch!Next \/ UNCHANGED Dispatch!vars
  <1>1. UNCHANGED <<held, outcome, shutdown>>
    BY DEF Enter, poll
  <1>2. CASE UNCHANGED <<queue, wtask>>
    BY <1>1, <1>2, DispatchSame
  <1>3. CASE queue # <<>> /\ wtask' = [wtask EXCEPT ![w] = Head(queue)] /\ queue' = Tail(queue)
    <2>1. queue \in Seq(Task) /\ wtask[w] = NoTask
      BY DEF Enter, IInv, TypeOK, WorkInv
    <2>2. Waiting # <<>> /\ Head(Waiting) = Head(queue)
      <3>1. CASE held = NoTask
        BY <1>3, <3>1 DEF Waiting
      <3>2. CASE held # NoTask
        <4>1. held \in Task
          BY <3>2 DEF IInv, TypeOK
        <4> QED BY <1>3, <2>1, <3>2, <4>1, HeadTailAppend, AppendProperties DEF Waiting
      <3> QED BY <3>1, <3>2
    <2>3. Waiting' = Tail(Waiting)
      <3>1. CASE held = NoTask
        BY <1>1, <1>3, <3>1 DEF Waiting
      <3>2. CASE held # NoTask
        <4>1. Tail(Append(queue, held)) = Append(Tail(queue), held)
          BY <1>3, <2>1, HeadTailAppend
        <4> QED BY <1>1, <1>3, <3>2, <4>1 DEF Waiting
      <3> QED BY <3>1, <3>2
    <2>4. Dispatch!Start(w)
      BY <1>1, <1>3, <2>1, <2>2, <2>3 DEF Dispatch!Start
    <2> QED BY <2>4 DEF Dispatch!Next
  <1> QED BY <1>2, <1>3 DEF Enter

\* The end of execute() is the end of its task.
LEMMA ExecuteEnds ==
  ASSUME IInv, NEW w \in Worker, Execute(w)
  PROVE  Dispatch!Next
  <1>1. UNCHANGED <<queue, held, shutdown>> /\ wtask[w] # NoTask
        /\ wtask' = [wtask EXCEPT ![w] = NoTask]
        /\ \E o \in {"reported", "aborted"} : outcome' = [outcome EXCEPT ![wtask[w]] = o]
    BY DEF Execute, poll, IInv, WorkInv
  <1>2. Waiting' = Waiting
    BY <1>1 DEF Waiting
  <1>3. Dispatch!End(w)
    BY <1>1, <1>2 DEF Dispatch!End, Dispatch!Becomes
  <1> QED BY <1>3 DEF Dispatch!Next

\* The poll thread that sees the shutdown drops the last task that was fetched.
LEMMA RecheckDrops ==
  ASSUME IInv, OwnerInv, Recheck
  PROVE  Dispatch!Next \/ UNCHANGED Dispatch!vars
  <1>1. UNCHANGED <<queue, wtask, shutdown>> /\ held # NoTask
    BY DEF Recheck, work, IInv, HeldInv
  <1>2. CASE ~shutdown
    BY <1>1, <1>2, DispatchSame DEF Recheck
  <1>3. CASE shutdown
    <2>1. /\ held \in Task /\ queue \in Seq(Task) /\ outcome \in [Task -> Outcomes]
          /\ held' = NoTask /\ outcome' = [outcome EXCEPT ![held] = "dropped"]
      BY <1>1, <1>3 DEF Recheck, IInv, TypeOK
    <2>2. /\ Waiting = Append(queue, held) /\ Waiting' = queue
          /\ Len(queue) \in Nat /\ Len(Waiting) = Len(queue) + 1
          /\ Waiting[Len(queue) + 1] = held /\ \A i \in 1..Len(queue) : Waiting[i] = queue[i]
      BY <1>1, <2>1, AppendProperties, LenProperties DEF Waiting
    <2>3. SubSeq(Waiting, 1, Len(queue)) = queue
      <3> DEFINE front == SubSeq(Waiting, 1, Len(queue))
      <3>1. \A i \in 1..Len(queue) : Waiting[i] \in Task
        BY <2>1, <2>2, ElementOfSeq
      <3>2. /\ front \in Seq(Task) /\ Len(front) = Len(queue)
            /\ \A i \in 1..Len(queue) : front[i] = Waiting[i]
        <4>1. /\ front \in Seq(Task)
              /\ Len(front) = IF 1 <= Len(queue) THEN Len(queue) - 1 + 1 ELSE 0
              /\ \A i \in 1..(Len(queue) - 1 + 1) : front[i] = Waiting[1 + i - 1]
          BY <2>2, <3>1, SubSeqProperties
        <4> HIDE DEF front
        <4> QED BY <2>2, <4>1
      <3> HIDE DEF front
      <3>3. front = queue
        BY <2>1, <2>2, <3>2, SeqEqual
      <3> QED BY <3>3 DEF front
    <2>4. outcome' = [t \in Task |-> IF \E i \in (Len(queue) + 1)..Len(Waiting) : Waiting[i] = t
                                     THEN "dropped" ELSE outcome[t]]
      <3>1. \A t \in Task : (\E i \in (Len(queue) + 1)..Len(Waiting) : Waiting[i] = t) <=> t = held
        <4>1. (Len(queue) + 1)..Len(Waiting) = {Len(queue) + 1}
          BY <2>2
        <4> QED BY <2>2, <4>1
      <3> QED BY <2>1, <3>1
    <2>5. Dispatch!Drop(Len(queue))
      BY <1>1, <1>3, <2>2, <2>3, <2>4 DEF Dispatch!Drop
    <2>6. Len(queue) \in 0..Len(Waiting)
      BY <2>2
    <2> QED BY <2>5, <2>6 DEF Dispatch!Next
  <1> QED BY <1>2, <1>3

\* join() drops all that wait: the poll thread has ended and holds none.
LEMMA DrainDrops ==
  ASSUME IInv, DrainQueue
  PROVE  Dispatch!Next \/ UNCHANGED Dispatch!vars
  <1>1. /\ shutdown /\ held = NoTask /\ queue \in Seq(Task) /\ outcome \in [Task -> Outcomes]
        /\ shutdown \in BOOLEAN
    BY DEF DrainQueue, IInv, ShutdownInv, HeldInv, TypeOK
  <1>2. /\ shutdown' = shutdown /\ queue' = <<>> /\ UNCHANGED <<held, wtask>>
        /\ outcome' = [t \in Task |-> IF t \in Queued THEN "dropped" ELSE outcome[t]]
    BY <1>1 DEF DrainQueue, poll, work
  <1>3. Waiting = queue /\ Waiting' = <<>>
    BY <1>1, <1>2 DEF Waiting
  <1>4. DOMAIN queue = 1..Len(queue) /\ Len(queue) \in Nat
    BY <1>1, LenProperties
  <1>5. CASE queue = <<>>
    <2>1. Queued = {}
      BY <1>5 DEF Queued
    <2>2. outcome' = outcome
      BY <1>1, <1>2, <2>1
    <2> QED BY <1>2, <1>5, <2>2, DispatchSame
  <1>6. CASE queue # <<>>
    <2>1. Len(queue) > 0
      BY <1>1, <1>4, <1>6, EmptySeq
    <2>2. SubSeq(Waiting, 1, 0) = <<>>
      BY SubSeqEmpty
    <2>3. \A t \in Task : t \in Queued <=> \E i \in (0 + 1)..Len(Waiting) : Waiting[i] = t
      BY <1>3, <1>4 DEF Queued
    <2>4. outcome' = [t \in Task |-> IF \E i \in (0 + 1)..Len(Waiting) : Waiting[i] = t
                                     THEN "dropped" ELSE outcome[t]]
      BY <1>2, <2>3
    <2>5. Dispatch!Drop(0)
      BY <1>1, <1>2, <1>3, <2>1, <2>2, <2>4 DEF Dispatch!Drop
    <2>6. 0 \in 0..Len(Waiting)
      BY <1>3, <1>4
    <2> QED BY <2>5, <2>6 DEF Dispatch!Next
  <1> QED BY <1>5, <1>6

\* The threads of the poller implement the abstract dispatch, for every capacity
\* and set of tasks: tasks are begun in the order in which they were fetched,
\* each once and by one worker, and thrown away only after stop().
THEOREM ImplementsTaskDispatch == Spec => DispatchSpec
  <1>1. Init => OwnerInv /\ Dispatch!Init
    BY TaskAssumption DEF Init, OwnerInv, OneOwner, Queued, Waiting, Dispatch!Init
  <1>2. IInv /\ OwnerInv /\ [Next]_vars => OwnerInv'
    BY OwnerStep
  <1>3. IInv /\ OwnerInv /\ [Next]_vars => [Dispatch!Next]_(Dispatch!vars)
    <2> SUFFICES ASSUME IInv, OwnerInv, [Next]_vars
                 PROVE  Dispatch!Next \/ UNCHANGED Dispatch!vars
      OBVIOUS
    <2>1. ASSUME NEW t \in Task, Offer(t) PROVE Dispatch!Next
      <3>1. UNCHANGED <<queue, held, wtask, shutdown>>
        BY <2>1 DEF Offer, poll, work
      <3>2. Waiting' = Waiting
        BY <3>1 DEF Waiting
      <3>3. Dispatch!Offer(t)
        BY <2>1, <3>1, <3>2 DEF Offer, Dispatch!Offer, Dispatch!Becomes
      <3> QED BY <3>3 DEF Dispatch!Next
    <2>2. CASE Fetch \/ FetchFails
      BY <2>2, FetchGivesOut
    <2>3. CASE DispatchTask
      BY <2>3, DispatchKeepsOrder
    <2>4. CASE Recheck
      BY <2>4, RecheckDrops
    <2>5. CASE DrainQueue
      BY <2>5, DrainDrops
    <2>6. ASSUME NEW w \in Worker, Enter(w) PROVE Dispatch!Next \/ UNCHANGED Dispatch!vars
      BY <2>6, EnterStarts
    <2>7. ASSUME NEW w \in Worker, Execute(w) PROVE Dispatch!Next
      BY <2>7, ExecuteEnds
    <2>8. CASE Stop
      <3>1. UNCHANGED <<queue, held, wtask, outcome>> /\ shutdown' = TRUE
        BY <2>8 DEF Stop, poll, work
      <3>2. Waiting' = Waiting
        BY <3>1 DEF Waiting
      <3>3. Dispatch!Stop
        BY <3>1, <3>2 DEF Dispatch!Stop
      <3> QED BY <3>3 DEF Dispatch!Next
    <2>9. CASE \/ PollCheck \/ StoreVersion \/ AcquireCheck \/ TryAcquire \/ PingExit
               \/ StopNotify \/ JoinPoll \/ WaitActive \/ JoinNotify \/ JoinWorkers
               \/ UNCHANGED vars
      BY <2>9, DispatchSame DEF PollCheck, StoreVersion, AcquireCheck, TryAcquire, PingExit,
           StopNotify, JoinPoll, WaitActive, JoinNotify, JoinWorkers, vars, poll, work
    <2>10. ASSUME NEW w \in Worker, \/ Block(w) \/ Begin(w) \/ ResetVersion(w) \/ Release(w)
                                    \/ Decrement(w) \/ SpuriousWakeup(w)
           PROVE  UNCHANGED Dispatch!vars
      BY <2>10, DispatchSame DEF Block, Begin, ResetVersion, Release, Decrement,
           SpuriousWakeup, poll, work
    <2> QED BY <2>1, <2>2, <2>3, <2>4, <2>5, <2>6, <2>7, <2>8, <2>9, <2>10, NextCases, Zenon
  <1> QED BY <1>1, <1>2, <1>3, InductiveInvariant, PTL DEF Spec, DispatchSpec, Dispatch!Spec
=============================================================================
