------------------------- MODULE OrchestratorProofs -------------------------
(* Proofs about Orchestrator, for every number of jobs, every workflow and   *)
(* every number of attempts.                                                 *)
EXTENDS Orchestrator, FiniteSetTheorems, SequenceTheorems, WellFoundedInduction, TLAPS

-----------------------------------------------------------------------------
(* Least and greatest members *)

\* A nonempty set of natural numbers has a least member.
LEMMA LeastNatural ==
  ASSUME NEW T, T \subseteq Nat, T # {}
  PROVE  \E m \in T : \A k \in T : m <= k
  <1>1. PICK m \in T : \A k \in T : ~ (<<k, m>> \in OpToRel(<, Nat))
    BY NatLessThanWellFounded, WFMin
  <1>2. \A k \in T : ~ (k < m)
    BY <1>1 DEF OpToRel
  <1> QED BY <1>2

\* Min chooses it.
LEMMA MinOfNaturals ==
  ASSUME NEW T, T \subseteq Nat, T # {}
  PROVE  Min(T) \in T /\ \A k \in T : Min(T) <= k
  <1>1. PICK m \in T : \A k \in T : m <= k
    BY LeastNatural
  <1>2. \E x \in T : \A y \in T : x <= y
    BY <1>1
  <1> QED BY <1>2 DEF Min

\* A nonempty set of integers between two bounds has a greatest member, which
\* Max chooses.
LEMMA MaxOfBounded ==
  ASSUME NEW a \in Int, NEW b \in Int, NEW T, T \subseteq a..b, T # {}
  PROVE  Max(T) \in T /\ \A k \in T : k <= Max(T)
  <1> DEFINE above == {u \in Nat : \A k \in T : k <= a + u}
  <1>1. PICK x \in T : TRUE
    OBVIOUS
  <1>2. b - a \in above
    BY <1>1
  <1>3. PICK m \in above : \A u \in above : m <= u
    <2>1. above \subseteq Nat /\ above # {}
      BY <1>2
    <2> HIDE DEF above
    <2> QED BY <2>1, LeastNatural
  <1>4. a + m \in T
    <2> SUFFICES ASSUME a + m \notin T PROVE FALSE
      OBVIOUS
    <2>1. x \in a..b /\ x <= a + m /\ x # a + m
      BY <1>1, <1>3
    <2>2. m - 1 \in Nat
      BY <1>3, <2>1
    <2>3. \A j \in T : j <= a + (m - 1)
      <3> TAKE j \in T
      <3>1. j \in a..b /\ m \in Nat /\ j <= a + m /\ j # a + m
        BY <1>3
      <3> QED BY <3>1
    <2>4. m - 1 \in above
      BY <2>2, <2>3
    <2> QED BY <1>3, <2>4
  <1>5. \A k \in T : a + m >= k
    BY <1>3
  <1>6. Max(T) \in T /\ \A k \in T : Max(T) >= k
    BY <1>4, <1>5 DEF Max
  <1> QED BY <1>6

-----------------------------------------------------------------------------
(* Sequences without repetition *)

\* No two places of s hold the same job.
Distinct(s) == \A k, l \in 1..Len(s) : s[k] = s[l] => k = l

\* There are finitely many jobs.
LEMMA JobsFinite ==
  /\ NumJobs \in Nat /\ NumJobs >= 1
  /\ IsFiniteSet(JobId) /\ Cardinality(JobId) = NumJobs
  /\ \A S \in SUBSET JobId : /\ IsFiniteSet(S) /\ Cardinality(S) \in Nat
                             /\ Cardinality(S) <= NumJobs
  <1>1. NumJobs \in Nat /\ NumJobs >= 1
    BY NumJobsAssumption
  <1>2. IsFiniteSet(JobId) /\ Cardinality(JobId) = NumJobs
    BY <1>1, FS_Interval DEF JobId
  <1>3. ASSUME NEW S \in SUBSET JobId
        PROVE  IsFiniteSet(S) /\ Cardinality(S) \in Nat /\ Cardinality(S) <= NumJobs
    BY <1>2, FS_Subset, FS_CardinalityType
  <1> QED BY <1>1, <1>2, <1>3

\* The members of a sequence.
LEMMA ToSetIs ==
  ASSUME NEW s \in Seq(JobId)
  PROVE  /\ ToSet(s) = {s[k] : k \in 1..Len(s)} /\ ToSet(s) \subseteq JobId
         /\ Len(s) \in Nat /\ DOMAIN s = 1..Len(s)
  <1>1. DOMAIN s = 1..Len(s) /\ Len(s) \in Nat /\ s \in [1..Len(s) -> JobId]
    BY LenProperties
  <1> QED BY <1>1 DEF ToSet

\* Appending a job that is not there yet keeps a sequence without repetition.
LEMMA AppendDistinct ==
  ASSUME NEW s \in Seq(JobId), NEW j \in JobId
  PROVE  /\ Append(s, j) \in Seq(JobId) /\ ToSet(Append(s, j)) = ToSet(s) \cup {j}
         /\ Len(Append(s, j)) = Len(s) + 1
         /\ \A k \in 1..Len(s) : Append(s, j)[k] = s[k]
         /\ Append(s, j)[Len(s) + 1] = j
         /\ Distinct(s) /\ j \notin ToSet(s) => Distinct(Append(s, j))
  <1> DEFINE t == Append(s, j)
  <1>1. /\ t \in Seq(JobId) /\ Len(t) = Len(s) + 1 /\ Len(s) \in Nat
        /\ \A k \in 1..Len(s) : t[k] = s[k]
        /\ t[Len(s) + 1] = j
    BY AppendProperties, LenProperties
  <1>2. ToSet(t) = {t[k] : k \in 1..Len(t)} /\ ToSet(s) = {s[k] : k \in 1..Len(s)}
    BY <1>1, ToSetIs
  <1> HIDE DEF t
  <1>3. 1..Len(t) = 1..Len(s) \cup {Len(s) + 1}
    BY <1>1
  <1>4. ToSet(t) = ToSet(s) \cup {j}
    BY <1>1, <1>2, <1>3
  <1>5. ASSUME Distinct(s), j \notin ToSet(s) PROVE Distinct(t)
    BY <1>1, <1>2, <1>3, <1>5 DEF Distinct
  <1> QED BY <1>1, <1>4, <1>5 DEF t

\* The rest of a sequence without repetition no longer holds its head.
LEMMA TailDistinct ==
  ASSUME NEW s \in Seq(JobId), s # <<>>, Distinct(s)
  PROVE  /\ Head(s) \in JobId /\ Tail(s) \in Seq(JobId) /\ Distinct(Tail(s))
         /\ Head(s) \in ToSet(s) /\ ToSet(Tail(s)) = ToSet(s) \ {Head(s)}
  <1> DEFINE t == Tail(s)
  <1>1. /\ Head(s) \in JobId /\ t \in Seq(JobId) /\ Len(t) = Len(s) - 1
        /\ \A i \in 1..Len(t) : t[i] = s[i + 1]
        /\ Len(s) \in Nat \ {0} /\ Head(s) = s[1]
    BY HeadTailProperties, EmptySeq
  <1>2. ToSet(t) = {t[k] : k \in 1..Len(t)} /\ ToSet(s) = {s[k] : k \in 1..Len(s)}
    BY <1>1, ToSetIs
  <1> HIDE DEF t
  <1>3. Distinct(t)
    BY <1>1 DEF Distinct
  <1>4. 1 \in 1..Len(s) /\ \A k \in 1..Len(s) : k = 1 \/ (k - 1 \in 1..Len(t) /\ s[k] = t[k - 1])
    BY <1>1
  <1>5. ToSet(t) \subseteq ToSet(s) \ {Head(s)}
    <2> SUFFICES ASSUME NEW k \in 1..Len(t) PROVE t[k] \in ToSet(s) \ {Head(s)}
      BY <1>2
    <2>1. k + 1 \in 1..Len(s) /\ t[k] = s[k + 1] /\ k + 1 # 1
      BY <1>1
    <2> QED BY <1>1, <1>2, <1>4, <2>1 DEF Distinct
  <1>6. ToSet(s) \ {Head(s)} \subseteq ToSet(t)
    <2> SUFFICES ASSUME NEW k \in 1..Len(s), s[k] # s[1] PROVE s[k] \in ToSet(t)
      BY <1>1, <1>2
    <2> QED BY <1>2, <1>4
  <1>7. Head(s) \in ToSet(s)
    BY <1>1, <1>2, <1>4
  <1> QED BY <1>1, <1>3, <1>5, <1>6, <1>7 DEF t

\* Two sequences without repetition and without a common job, one after the
\* other, have no repetition.
LEMMA ConcatDistinct ==
  ASSUME NEW s \in Seq(JobId), NEW t \in Seq(JobId), Distinct(s), Distinct(t),
         ToSet(s) \cap ToSet(t) = {}
  PROVE  /\ s \o t \in Seq(JobId) /\ Distinct(s \o t)
         /\ ToSet(s \o t) = ToSet(s) \cup ToSet(t)
  <1> DEFINE u == s \o t
  <1>1. /\ u \in Seq(JobId) /\ Len(u) = Len(s) + Len(t)
        /\ \A i \in 1..Len(u) : u[i] = IF i <= Len(s) THEN s[i] ELSE t[i - Len(s)]
        /\ Len(s) \in Nat /\ Len(t) \in Nat
    BY ConcatProperties, LenProperties
  <1>2. /\ ToSet(u) = {u[k] : k \in 1..Len(u)}
        /\ ToSet(s) = {s[k] : k \in 1..Len(s)} /\ ToSet(t) = {t[k] : k \in 1..Len(t)}
    BY <1>1, ToSetIs
  <1> HIDE DEF u
  <1>3. Distinct(u)
    <2> SUFFICES ASSUME NEW k \in 1..Len(u), NEW l \in 1..Len(u), u[k] = u[l]
                 PROVE  k = l
      BY DEF Distinct
    <2>1. CASE k <= Len(s) /\ l <= Len(s)
      BY <1>1, <2>1 DEF Distinct
    <2>2. CASE k > Len(s) /\ l > Len(s)
      <3>1. k - Len(s) \in 1..Len(t) /\ l - Len(s) \in 1..Len(t)
            /\ t[k - Len(s)] = t[l - Len(s)]
        BY <1>1, <2>2
      <3>2. k - Len(s) = l - Len(s)
        BY <3>1 DEF Distinct
      <3> QED BY <1>1, <3>2
    <2>3. CASE k <= Len(s) /\ l > Len(s)
      <3>1. k \in 1..Len(s) /\ l - Len(s) \in 1..Len(t) /\ s[k] = t[l - Len(s)]
        BY <1>1, <2>3
      <3> QED BY <1>2, <3>1
    <2>4. CASE k > Len(s) /\ l <= Len(s)
      <3>1. l \in 1..Len(s) /\ k - Len(s) \in 1..Len(t) /\ s[l] = t[k - Len(s)]
        BY <1>1, <2>4
      <3> QED BY <1>2, <3>1
    <2> QED BY <1>1, <2>1, <2>2, <2>3, <2>4
  <1>4. ToSet(u) \subseteq ToSet(s) \cup ToSet(t)
    <2> SUFFICES ASSUME NEW k \in 1..Len(u) PROVE u[k] \in ToSet(s) \cup ToSet(t)
      BY <1>2
    <2>1. k \in 1..Len(s) \/ k - Len(s) \in 1..Len(t)
      BY <1>1
    <2> QED BY <1>1, <1>2, <2>1
  <1>5. ToSet(s) \subseteq ToSet(u)
    <2> SUFFICES ASSUME NEW k \in 1..Len(s) PROVE s[k] \in ToSet(u)
      BY <1>2
    <2>1. k \in 1..Len(u) /\ u[k] = s[k]
      BY <1>1
    <2> QED BY <1>2, <2>1
  <1>6. ToSet(t) \subseteq ToSet(u)
    <2> SUFFICES ASSUME NEW k \in 1..Len(t) PROVE t[k] \in ToSet(u)
      BY <1>2
    <2>1. /\ k + Len(s) \in 1..Len(u) /\ ~(k + Len(s) <= Len(s))
          /\ (k + Len(s)) - Len(s) = k
      BY <1>1
    <2>2. u[k + Len(s)] = t[k]
      BY <1>1, <2>1
    <2> QED BY <1>2, <2>1, <2>2
  <1> QED BY <1>1, <1>3, <1>4, <1>5, <1>6 DEF u

\* A sequence of the jobs of a set holds each of them, once.
LEMMA SeqOfSet ==
  ASSUME NEW S \in SUBSET JobId, NEW s \in SetToSeqs(S)
  PROVE  s \in Seq(JobId) /\ Distinct(s) /\ ToSet(s) = S
  <1> DEFINE n == Cardinality(S)
  <1>1. n \in Nat /\ IsFiniteSet(S)
    BY JobsFinite
  <1>2. s \in [1..n -> S] /\ \A i, j \in 1..n : i # j => s[i] # s[j]
    BY DEF SetToSeqs
  <1>3. IsFiniteSet(1..n) /\ Cardinality(1..n) = n
    BY <1>1, FS_Interval
  <1>4. s \in Injection(1..n, S)
    BY <1>2 DEF Injection, IsInjective
  <1>5. s \in Surjection(1..n, S)
    BY <1>1, <1>3, <1>4, FS_Injection
  <1>6. \A x \in S : \E k \in 1..n : s[k] = x
    BY <1>5 DEF Surjection
  <1>7. s \in Seq(S) /\ Len(s) = n
    BY <1>1, <1>2
  <1>8. s \in Seq(JobId)
    BY <1>7, SeqMonotonic
  <1>9. Distinct(s)
    BY <1>2, <1>7 DEF Distinct
  <1>10. ToSet(s) = {s[k] : k \in 1..n}
    BY <1>7, <1>8, ToSetIs
  <1> QED BY <1>2, <1>6, <1>8, <1>9, <1>10

\* A sequence without repetition is as long as it has members; it is as long
\* as there are jobs exactly if it has them all.
LEMMA DistinctLength ==
  ASSUME NEW s \in Seq(JobId), Distinct(s)
  PROVE  /\ Len(s) = Cardinality(ToSet(s)) /\ Len(s) <= NumJobs
         /\ Len(s) = NumJobs <=> ToSet(s) = JobId
  <1>1. Len(s) \in Nat /\ s \in [1..Len(s) -> JobId]
    BY LenProperties
  <1>2. ToSet(s) = {s[k] : k \in 1..Len(s)} /\ ToSet(s) \in SUBSET JobId
    BY ToSetIs
  <1>3. s \in Bijection(1..Len(s), ToSet(s))
    BY <1>1, <1>2 DEF Bijection, Injection, Surjection, IsInjective, Distinct
  <1>4. IsFiniteSet(1..Len(s)) /\ Cardinality(1..Len(s)) = Len(s)
    BY <1>1, FS_Interval
  <1>5. Len(s) = Cardinality(ToSet(s))
    BY <1>3, <1>4, FS_Bijection DEF ExistsBijection
  <1>6. Cardinality(ToSet(s)) <= NumJobs
    BY <1>2, JobsFinite
  <1>7. Cardinality(ToSet(s)) = NumJobs <=> ToSet(s) = JobId
    BY <1>2, JobsFinite, FS_Subset
  <1> QED BY <1>5, <1>6, <1>7

-----------------------------------------------------------------------------
(* The inductive invariant *)

InRun == mpc \in {"wave", "launch", "collect"}
Scheduling == mpc \in {"visit", "assign"} \/ InRun

\* What topologicalJobOrder has put in order so far: each job once, after all
\* of its needs, none of which is unknown.
Ordered ==
  Scheduling =>
    /\ \A j \in JobId : Needs(j) \subseteq JobId
    /\ Distinct(order)
    /\ \A l \in 1..Len(order) : \A n \in Needs(order[l]) :
         \E k \in 1..(l - 1) : order[k] = n

\* Kahn's loop: the in-degree of a job counts its needs that are not in order,
\* and the jobs without such a need are in order or ready, once.
Kahn ==
  mpc = "visit" =>
    /\ Distinct(ready) /\ ToSet(ready) \cap ToSet(order) = {}
    /\ \A j \in JobId : in_degree[j] = Cardinality(Needs(j) \ ToSet(order))
    /\ \A j \in JobId : j \in ToSet(order) \cup ToSet(ready)
                          <=> Needs(j) \subseteq ToSet(order)

\* The jobs at the first a places of the order.
Prefix(a) == {order[k] : k \in 1..a}
Assigned == {j \in JobId : wave[j] # -1}

\* The wave after the last wave of a job's needs.
After(needs, wv, j) == 1 + Max({-1} \cup {wv[n] : n \in needs[j]})

\* waveSchedule's loop: the first jobs of the order have their waves, each the
\* one after the last of its needs, and no wave is beyond its job's place.
Waved ==
  /\ mpc = "visit" => Assigned = {}
  /\ mpc = "assign" \/ InRun =>
       /\ Len(order) = NumJobs
       /\ \E a \in 0..NumJobs :
            /\ Assigned = Prefix(a)
            /\ mpc = "assign" <=> a < NumJobs
            /\ \A k \in 1..a :
                 /\ wave[order[k]] \in 0..(k - 1)
                 /\ wave[order[k]] = After(wf.needs, wave, order[k])

\* The list of a wave holds the jobs of that wave, each once.
Listed ==
  \A w \in 0..(NumJobs - 1) :
    Distinct(waves[w]) /\ ToSet(waves[w]) = {j \in JobId : wave[j] = w}

\* Outside a wave's batches no job thread is alive; while the waves are run,
\* the jobs of earlier waves have ended and are recorded, and those of later
\* waves have not begun.
Progress ==
  /\ mpc # "launch" => \A j \in JobId : jpc[j] \in {"none", "ended"}
  /\ InRun => /\ completed = {j \in JobId : wave[j] < cur}
              /\ \A j \in completed : jpc[j] = "ended"
              /\ \A j \in JobId : wave[j] > cur => jpc[j] = "none"
  /\ mpc = "wave" => \A j \in JobId : wave[j] = cur => jpc[j] = "none"
  /\ mpc = "collect" => \A j \in JobId : wave[j] = cur => jpc[j] = "ended"
  /\ mpc \in {"launch", "collect"} => cur < NumJobs
  /\ mpc = "launch" =>
       /\ launched <= batch_end /\ batch_end <= Len(WaveSeq)
       /\ \A k \in 1..Len(WaveSeq) :
            /\ k > launched => jpc[WaveSeq[k]] = "none"
            /\ k <= batch_end - BatchSize => jpc[WaveSeq[k]] = "ended"

\* Every thread that ended left a result; success says no recorded job failed,
\* and a recorded failure that did not end the run was allowed to go on.
Results ==
  /\ \A j \in JobId : jpc[j] \in {"unregister", "ended"} => verdict[j] # "none"
  /\ InRun => \A j \in completed :
       /\ success => verdict[j] = "success"
       /\ verdict[j] = "success" \/ \E k \in JobId : wave[k] = wave[j] /\ ~wf.fail_fast[k]
  /\ mpc = "attempt" /\ attempt > 0 => ~success
  /\ attempt = 0 => mpc \in {"attempt", "stop", "join", "exit"}

\* Executors are registered while they live, and stay registered only if they
\* threw; a cancelled command tells those that register later.
Registered ==
  /\ cancelled <=> cpc # "watch"
  /\ \A j \in JobId : jpc[j] \in {"executing", "unregister"} => Executor(j) \in executors
  /\ executors \subseteq Alive \cup thrown

IndInv == TypeOK /\ Ordered /\ Kahn /\ Waved /\ Listed /\ Progress /\ Results
          /\ Registered /\ SuccessIsTrue /\ CancelReachesAll
-----------------------------------------------------------------------------
(* Steps, and the types *)

\* A step is a step of the main thread, of a job's thread or of the cancel
\* thread, a signal, or a stutter.
LEMMA NextCases ==
  ASSUME [Next]_vars
  PROVE  \/ NextAttempt \/ RunReturned \/ StopCancelThread \/ JoinCancelThread
         \/ StartSort \/ Visit \/ EndSort \/ AssignWave
         \/ WaveTop \/ Launch \/ JoinBatch \/ Collect
         \/ \E j \in JobId : Register(j) \/ Execute(j) \/ Unregister(j)
         \/ SetCancelled \/ CancelAll \/ Signal \/ UNCHANGED vars
  BY DEF Next, MainStep, JobStep, CancelStep, Exited

\* Steps that touch nothing of the schedule and of the jobs' threads.
Aside == \/ NextAttempt \/ RunReturned \/ StopCancelThread \/ JoinCancelThread
         \/ SetCancelled \/ CancelAll \/ Signal \/ UNCHANGED vars

\* What such a step leaves alone, and where the main thread goes.
LEMMA AsideFrame ==
  ASSUME Aside
  PROVE  /\ UNCHANGED <<wf, graph, progress, jpc, verdict, executors, thrown>>
         /\ mpc' # mpc => mpc \notin {"visit", "assign", "wave", "launch", "collect"}
         /\ mpc' # mpc => mpc' \notin {"visit", "assign", "wave", "launch", "collect"}
         /\ attempt' # attempt => mpc = "attempt" /\ mpc' = "sort" /\ attempt' = attempt + 1
  BY DEF Aside, NextAttempt, RunReturned, StopCancelThread, JoinCancelThread,
         SetCancelled, CancelAll, Signal, vars, jobs

\* The steps that run jobs leave the schedule alone.
LEMMA RunFrame ==
  ASSUME NEW j \in JobId,
         \/ WaveTop \/ Launch \/ JoinBatch \/ Collect
         \/ Register(j) \/ Execute(j) \/ Unregister(j)
  PROVE  UNCHANGED <<wf, shutdown, attempt, graph, cancelled, cpc, dead_use>>
  BY DEF WaveTop, Launch, JoinBatch, Collect, Register, Execute, Unregister

\* The steps of a job's thread leave the main thread alone.
LEMMA JobFrame ==
  ASSUME NEW j \in JobId, Register(j) \/ Execute(j) \/ Unregister(j)
  PROVE  UNCHANGED <<wf, shutdown, mpc, attempt, success, graph, progress,
                     cancelled, cpc, dead_use>>
  BY DEF Register, Execute, Unregister

\* The last wave has every job's wave before it or is it.
LEMMA LastWaveFacts ==
  ASSUME TypeOK
  PROVE  /\ LastWave \in -1..(NumJobs - 1)
         /\ \A j \in JobId : wave[j] <= LastWave
  <1> DEFINE T == {wave[j] : j \in JobId}
  <1>1. T \subseteq -1..(NumJobs - 1) /\ 1 \in JobId /\ NumJobs \in Nat
    BY JobsFinite DEF TypeOK, JobId
  <1>2. T # {} /\ \A j \in JobId : wave[j] \in T
    BY <1>1
  <1>3. LastWave = Max(T)
    BY DEF LastWave
  <1> HIDE DEF T
  <1>4. -1 \in Int /\ NumJobs - 1 \in Int
    BY <1>1
  <1>5. Max(T) \in T /\ \A k \in T : k <= Max(T)
    BY <1>1, <1>2, <1>4, MaxOfBounded
  <1> QED BY <1>1, <1>2, <1>3, <1>5

\* A batch ends within its wave, and is no longer than any limit of a job of
\* the wave.
LEMMA BatchFacts ==
  ASSUME TypeOK, Listed, cur < NumJobs
  PROVE  /\ WaveSeq \in Seq(JobId) /\ Distinct(WaveSeq) /\ ToSet(WaveSeq) = Wave
         /\ Len(WaveSeq) \in 0..NumJobs
         /\ BatchSize \in Nat
         /\ \A j \in Wave : wf.max_parallel[j] > 0 => BatchSize <= wf.max_parallel[j]
         /\ \A from \in 0..Len(WaveSeq) :
              /\ BatchEnd(from) \in from..Len(WaveSeq)
              /\ BatchEnd(from) <= from + BatchSize
  <1>1. cur \in 0..(NumJobs - 1) /\ NumJobs \in Nat
    BY JobsFinite DEF TypeOK
  <1>2. WaveSeq \in Seq(JobId) /\ Distinct(WaveSeq) /\ ToSet(WaveSeq) = Wave
    BY <1>1 DEF TypeOK, Listed, WaveSeq, Wave
  <1>3. Len(WaveSeq) \in 0..NumJobs
    BY <1>1, <1>2, DistinctLength, ToSetIs
  <1>4. \A j \in JobId : wf.max_parallel[j] \in Nat
    BY DEF TypeOK, WorkflowType
  <1>5. Limits \subseteq Nat /\ \A j \in Wave : wf.max_parallel[j] > 0 => wf.max_parallel[j] \in Limits
    BY <1>4 DEF Limits, Wave
  <1>6. Limits # {} => Min(Limits) \in Limits /\ \A k \in Limits : Min(Limits) <= k
    BY <1>5, MinOfNaturals
  <1>7. BatchSize \in Nat
    <2>1. Len(WaveSeq) \in Nat
      BY <1>1, <1>3
    <2> QED BY <1>5, <1>6, <2>1 DEF BatchSize
  <1>8. \A j \in Wave : wf.max_parallel[j] > 0 => BatchSize <= wf.max_parallel[j]
    BY <1>5, <1>6 DEF BatchSize
  <1>9. ASSUME NEW from \in 0..Len(WaveSeq)
         PROVE  BatchEnd(from) \in from..Len(WaveSeq) /\ BatchEnd(from) <= from + BatchSize
    <2> DEFINE T == {from + BatchSize, Len(WaveSeq)}
    <2>1. T \subseteq Nat /\ T # {}
      BY <1>3, <1>7
    <2>2. Min(T) \in T /\ \A k \in T : Min(T) <= k
      BY <2>1, MinOfNaturals
    <2> QED BY <1>3, <1>7, <2>2 DEF BatchEnd
  <1> QED BY <1>2, <1>3, <1>7, <1>8, <1>9

-----------------------------------------------------------------------------
(* What topologicalJobOrder and waveSchedule do in a step *)

\* The first a jobs of the order are a jobs.
LEMMA PrefixFacts ==
  ASSUME order \in Seq(JobId), Distinct(order), NEW a \in 0..Len(order)
  PROVE  Prefix(a) \in SUBSET JobId /\ Cardinality(Prefix(a)) = a
  <1> DEFINE f == [k \in 1..a |-> order[k]]
  <1>1. Len(order) \in Nat /\ order \in [1..Len(order) -> JobId]
    BY LenProperties
  <1>2. Prefix(a) \in SUBSET JobId
    BY <1>1 DEF Prefix
  <1>3. f \in Bijection(1..a, Prefix(a))
    BY <1>1 DEF Prefix, Bijection, Injection, Surjection, IsInjective, Distinct
  <1>4. IsFiniteSet(1..a) /\ Cardinality(1..a) = a
    BY <1>1, FS_Interval
  <1>5. Cardinality(Prefix(a)) = a
    BY <1>3, <1>4, FS_Bijection DEF ExistsBijection
  <1> QED BY <1>2, <1>5

\* A step of waveSchedule: the job at place a + 1 of the order gets its wave.
Assigns(a, id, w) ==
  /\ id = order[a + 1] /\ id \notin Assigned
  /\ Assigned = Prefix(a) /\ Needs(id) \subseteq Prefix(a)
  /\ \A k \in 1..a : /\ wave[order[k]] \in 0..(k - 1)
                     /\ wave[order[k]] = After(wf.needs, wave, order[k])
  /\ w \in 0..a /\ w = After(wf.needs, wave, id)
  /\ wave' = [wave EXCEPT ![id] = w]
  /\ waves' = [waves EXCEPT ![w] = Append(@, id)]
  /\ mpc' = IF a + 1 = NumJobs THEN "wave" ELSE "assign"

LEMMA AssignFacts ==
  ASSUME TypeOK, Ordered, Waved, AssignWave
  PROVE  \E a \in 0..(NumJobs - 1), id \in JobId, w \in 0..(NumJobs - 1) : Assigns(a, id, w)
  <1>1. mpc = "assign" /\ Scheduling /\ NumJobs \in Nat
    BY JobsFinite DEF AssignWave, Scheduling
  <1>2. order \in Seq(JobId) /\ Distinct(order) /\ Len(order) = NumJobs
        /\ order \in [1..NumJobs -> JobId]
    BY <1>1, LenProperties DEF TypeOK, Ordered, Waved
  <1>3. PICK a \in 0..NumJobs :
          /\ Assigned = Prefix(a)
          /\ mpc = "assign" <=> a < NumJobs
          /\ \A k \in 1..a :
               /\ wave[order[k]] \in 0..(k - 1)
               /\ wave[order[k]] = After(wf.needs, wave, order[k])
    BY <1>1 DEF Waved
  <1>4. a \in 0..(NumJobs - 1) /\ a + 1 \in 1..NumJobs
    BY <1>1, <1>3
  <1> DEFINE id == order[a + 1]
             T == {-1} \cup {wave[n] : n \in Needs(id)}
             w == 1 + Max(T)
  <1>5. Cardinality(Assigned) = a
    BY <1>2, <1>3, PrefixFacts
  <1>6. id \in JobId
    BY <1>2, <1>4
  <1>7. id \notin Assigned
    <2> SUFFICES ASSUME NEW k \in 1..a, order[k] = order[a + 1] PROVE FALSE
      BY <1>3 DEF Prefix
    <2>1. k \in 1..Len(order) /\ a + 1 \in 1..Len(order) /\ k # a + 1
      BY <1>1, <1>2, <1>4
    <2> QED BY <1>2, <2>1 DEF Distinct
  <1>8. Needs(id) \subseteq Prefix(a)
    <2> SUFFICES ASSUME NEW n \in Needs(id) PROVE n \in Prefix(a)
      OBVIOUS
    <2>1. a + 1 \in 1..Len(order) /\ (a + 1) - 1 = a
      BY <1>1, <1>2, <1>4
    <2>2. \E k \in 1..((a + 1) - 1) : order[k] = n
      BY <1>1, <2>1 DEF Ordered
    <2> QED BY <2>1, <2>2 DEF Prefix
  <1>9. \A n \in Needs(id) : wave[n] \in 0..(a - 1)
    <2> TAKE n \in Needs(id)
    <2>1. PICK k \in 1..a : n = order[k]
      BY <1>8 DEF Prefix
    <2>2. wave[n] \in 0..(k - 1)
      BY <1>3, <2>1
    <2> QED BY <1>4, <2>1, <2>2
  <1>10. Max(T) \in T /\ T \subseteq -1..(a - 1)
    <2>1. T \subseteq -1..(a - 1) /\ T # {} /\ -1 \in Int /\ a - 1 \in Int
      BY <1>4, <1>9
    <2> HIDE DEF T
    <2> QED BY <2>1, MaxOfBounded
  <1>11. w \in 0..a
    <2>1. Max(T) \in -1..(a - 1)
      BY <1>10, Zenon
    <2> HIDE DEF T
    <2> QED BY <1>4, <2>1
  <1>12. wave' = [wave EXCEPT ![id] = w] /\ waves' = [waves EXCEPT ![w] = Append(@, id)]
    BY <1>5 DEF AssignWave, Assigned
  <1>13. mpc' = IF a + 1 = NumJobs THEN "wave" ELSE "assign"
    <2> DEFINE rest == {j \in JobId : wave[j] = -1}
    <2>1. rest = JobId \ Assigned /\ Assigned \in SUBSET JobId
      BY DEF Assigned
    <2>2. Cardinality(rest) = NumJobs - a
      <3>1. Cardinality(JobId \ Assigned) = Cardinality(JobId) - Cardinality(JobId \cap Assigned)
        BY JobsFinite, FS_Difference
      <3>2. JobId \cap Assigned = Assigned
        BY <2>1
      <3> QED BY <1>5, <2>1, <3>1, <3>2, JobsFinite
    <2>3. Cardinality(rest) = 1 <=> a + 1 = NumJobs
      BY <1>1, <1>4, <2>2
    <2> QED BY <1>1, <2>3 DEF AssignWave
  <1>14. Assigns(a, id, w)
    <2>1. w = After(wf.needs, wave, id)
      BY DEF After, Needs
    <2> QED BY <1>3, <1>7, <1>8, <1>11, <1>12, <1>13, <2>1 DEF Assigns
  <1>15. w \in 0..(NumJobs - 1)
    <2> HIDE DEF w
    <2> QED BY <1>1, <1>4, <1>11
  <1> HIDE DEF id, w
  <1> QED BY <1>4, <1>6, <1>14, <1>15

\* A step of Kahn's loop: the head of the ready jobs is put in order, and the
\* jobs that waited for it alone become ready.
Visits(id, s) ==
  /\ id = Head(ready) /\ order' = Append(order, id)
  /\ in_degree' = [j \in JobId |-> IF id \in Needs(j) THEN in_degree[j] - 1 ELSE in_degree[j]]
  /\ s \in Seq(JobId) /\ Distinct(s)
  /\ ToSet(s) = {j \in JobId : id \in Needs(j) /\ in_degree[j] = 1}
  /\ ready' = Tail(ready) \o s

LEMMA VisitFacts ==
  ASSUME Visit
  PROVE  \E id, s : Visits(id, s)
  <1> DEFINE id == Head(ready)
             waiting == {j \in JobId : id \in Needs(j)}
             S == {j \in waiting : in_degree[j] = 1}
  <1>1. PICK s \in InMapOrder(S) : ready' = Tail(ready) \o s
    BY DEF Visit
  <1>2. S \in SUBSET JobId /\ s \in SetToSeqs(S)
    BY <1>1 DEF InMapOrder
  <1>3. s \in Seq(JobId) /\ Distinct(s) /\ ToSet(s) = S
    BY <1>2, SeqOfSet
  <1>4. order' = Append(order, id)
        /\ in_degree' = [j \in JobId |-> IF id \in Needs(j) THEN in_degree[j] - 1
                                                            ELSE in_degree[j]]
    BY DEF Visit
  <1>5. Visits(id, s)
    BY <1>1, <1>3, <1>4 DEF Visits
  <1> QED BY <1>5

-----------------------------------------------------------------------------
(* The types are kept *)

\* Needs without an unknown name are jobs.
LEMMA NeedsAreJobs ==
  ASSUME TypeOK, NEW j \in JobId
  PROVE  Needs(j) \subseteq 0..NumJobs /\ (0 \notin Needs(j) => Needs(j) \subseteq JobId)
  <1>1. Needs(j) \in SUBSET (0..NumJobs)
    BY DEF TypeOK, WorkflowType, Needs
  <1>2. NumJobs \in Nat
    BY JobsFinite
  <1> QED BY <1>1, <1>2 DEF JobId

\* The in-degree of a job whose last needs are being put in order is positive.
LEMMA InDegreePositive ==
  ASSUME TypeOK, Ordered, Kahn, mpc = "visit", NEW id \in JobId, id \notin ToSet(order),
         NEW j \in JobId, id \in Needs(j)
  PROVE  in_degree[j] \in 1..NumJobs
  <1> DEFINE S == Needs(j) \ ToSet(order)
  <1>1. S \in SUBSET JobId /\ id \in S
    BY DEF Ordered, Scheduling
  <1>2. IsFiniteSet(S) /\ Cardinality(S) \in Nat /\ Cardinality(S) <= NumJobs
    BY <1>1, JobsFinite
  <1>3. Cardinality(S) # 0
    BY <1>1, <1>2, FS_EmptySet
  <1>4. in_degree[j] = Cardinality(S)
    BY DEF Kahn
  <1> QED BY <1>2, <1>3, <1>4, JobsFinite

\* The steps that sort and schedule keep the types.
LEMMA ScheduleTypeStep ==
  ASSUME TypeOK, Ordered, Kahn, Waved, Listed,
         StartSort \/ Visit \/ EndSort \/ AssignWave
  PROVE  TypeOK'
  <1> USE DEF graph, progress, jobs
  <1>1. CASE StartSort
    <2>1. UNCHANGED <<wf, shutdown, attempt, progress, jobs, cancelled, cpc, dead_use>>
      BY <1>1 DEF StartSort
    <2>2. mpc' \in {"returned", "visit"} /\ success' \in BOOLEAN
      BY <1>1 DEF StartSort, TypeOK
    <2>3. CASE \E j \in JobId : 0 \in Needs(j)
      <3>1. UNCHANGED graph
        BY <1>1, <2>3 DEF StartSort
      <3> QED BY <2>1, <2>2, <3>1 DEF TypeOK
    <2>4. CASE ~\E j \in JobId : 0 \in Needs(j)
      <3>1. /\ order' = <<>>
            /\ in_degree' = [j \in JobId |-> Cardinality(Needs(j))]
            /\ ready' \in SetToSeqs({j \in JobId : Needs(j) = {}})
            /\ wave' = [j \in JobId |-> -1]
            /\ waves' = [w \in 0..(NumJobs - 1) |-> <<>>]
        BY <1>1, <2>4 DEF StartSort
      <3>2. \A j \in JobId : Cardinality(Needs(j)) \in 0..NumJobs
        BY <2>4, NeedsAreJobs, JobsFinite
      <3>3. ready' \in Seq(JobId)
        BY <3>1, SeqOfSet
      <3>4. wave' \in [JobId -> -1..(NumJobs - 1)]
        BY <3>1, JobsFinite
      <3>5. waves' \in [0..(NumJobs - 1) -> Seq(JobId)]
        BY <3>1, EmptySeq
      <3>6. order' \in Seq(JobId) /\ in_degree' \in [JobId -> 0..NumJobs]
        BY <3>1, <3>2
      <3> QED BY <2>1, <2>2, <3>3, <3>4, <3>5, <3>6 DEF TypeOK
    <2> QED BY <2>3, <2>4
  <1>2. CASE Visit
    <2>1. PICK id, t : Visits(id, t)
      BY <1>2, VisitFacts
    <2>2. UNCHANGED <<wf, shutdown, mpc, attempt, success, wave, waves, progress, jobs,
                      cancelled, cpc, dead_use>>
      BY <1>2 DEF Visit
    <2>3. mpc = "visit" /\ ready # <<>> /\ ready \in Seq(JobId) /\ Distinct(ready)
      BY <1>2 DEF Visit, TypeOK, Kahn
    <2>4. id \in JobId /\ id \in ToSet(ready) /\ Tail(ready) \in Seq(JobId)
      BY <2>1, <2>3, TailDistinct DEF Visits
    <2>5. order' \in Seq(JobId)
      BY <2>1, <2>4, AppendProperties DEF Visits, TypeOK
    <2>6. ready' \in Seq(JobId)
      BY <2>1, <2>4, ConcatProperties DEF Visits
    <2>7. id \notin ToSet(order)
      BY <2>3, <2>4 DEF Kahn
    <2>8. \A j \in JobId : id \in Needs(j) => in_degree[j] \in 1..NumJobs
      BY <2>3, <2>4, <2>7, InDegreePositive
    <2>9. in_degree' \in [JobId -> 0..NumJobs]
      <3>1. in_degree' = [j \in JobId |-> IF id \in Needs(j) THEN in_degree[j] - 1
                                                             ELSE in_degree[j]]
        BY <2>1 DEF Visits
      <3>2. in_degree \in [JobId -> 0..NumJobs] /\ NumJobs \in Nat
        BY JobsFinite DEF TypeOK
      <3>3. \A j \in JobId : id \in Needs(j) => in_degree[j] - 1 \in 0..NumJobs
        BY <2>8, <3>2
      <3> QED BY <3>1, <3>2, <3>3
    <2> QED BY <2>2, <2>5, <2>6, <2>9 DEF TypeOK
  <1>3. CASE EndSort
    <2>1. UNCHANGED <<wf, shutdown, attempt, graph, progress, jobs, cancelled, cpc, dead_use>>
      BY <1>3 DEF EndSort
    <2>2. mpc' \in {"returned", "assign"}
      BY <1>3 DEF EndSort
    <2>3. success' \in BOOLEAN
      BY <1>3, Zenon DEF EndSort, TypeOK
    <2> QED BY <2>1, <2>2, <2>3 DEF TypeOK
  <1>4. CASE AssignWave
    <2>1. PICK a \in 0..(NumJobs - 1), id \in JobId, w \in 0..(NumJobs - 1) : Assigns(a, id, w)
      BY <1>4, AssignFacts
    <2>2. UNCHANGED <<wf, shutdown, attempt, success, ready, in_degree, order, launched,
                      batch_end, executors, told, thrown, cancelled, cpc, dead_use>>
      BY <1>4 DEF AssignWave
    <2>3. mpc' \in {"wave", "assign"}
      BY <2>1 DEF Assigns
    <2>4. wave' \in [JobId -> -1..(NumJobs - 1)]
      BY <2>1 DEF Assigns, TypeOK
    <2>5. waves' \in [0..(NumJobs - 1) -> Seq(JobId)]
      <3>1. waves[w] \in Seq(JobId)
        BY DEF TypeOK
      <3>2. Append(waves[w], id) \in Seq(JobId)
        BY <3>1, AppendProperties
      <3> QED BY <2>1, <3>2 DEF Assigns, TypeOK
    <2>6. cur' \in 0..NumJobs /\ completed' \subseteq JobId
      BY <1>4, JobsFinite DEF AssignWave, TypeOK
    <2>7. /\ jpc' \in [JobId -> {"none", "created", "executing", "unregister", "ended"}]
          /\ verdict' \in [JobId -> {"none", "success", "failure"}]
      BY <1>4 DEF AssignWave, TypeOK
    <2> QED BY <2>2, <2>3, <2>4, <2>5, <2>6, <2>7 DEF TypeOK
  <1> QED BY <1>1, <1>2, <1>3, <1>4

\* The steps that run the waves keep the types.
LEMMA RunTypeStep ==
  ASSUME TypeOK, Listed, Progress, WaveTop \/ Launch \/ JoinBatch \/ Collect
  PROVE  TypeOK'
  <1> USE DEF graph, progress, jobs
  <1>1. CASE WaveTop
    <2>1. UNCHANGED <<wf, shutdown, attempt, graph, cur, completed, jobs, cancelled, cpc,
                      dead_use>>
      BY <1>1 DEF WaveTop
    <2>2. mpc' \in {"returned", "launch"}
      BY <1>1 DEF WaveTop
    <2>3. success' \in BOOLEAN
      BY <1>1, Zenon DEF WaveTop, TypeOK
    <2>4. launched' \in 0..NumJobs /\ batch_end' \in 0..NumJobs
      <3>1. CASE UNCHANGED <<launched, batch_end>>
        BY <3>1 DEF TypeOK
      <3>2. CASE cur <= LastWave /\ launched' = 0 /\ batch_end' = BatchEnd(0)
        <4>1. cur < NumJobs
          <5>1. LastWave \in -1..(NumJobs - 1) /\ NumJobs \in Nat /\ cur \in 0..NumJobs
            BY LastWaveFacts, JobsFinite DEF TypeOK
          <5> QED BY <3>2, <5>1
        <4>2. Len(WaveSeq) \in 0..NumJobs /\ 0 \in 0..Len(WaveSeq)
          BY <4>1, BatchFacts
        <4>3. BatchEnd(0) \in 0..Len(WaveSeq)
          BY <4>1, <4>2, BatchFacts
        <4> QED BY <3>2, <4>2, <4>3, JobsFinite
      <3> QED BY <1>1, <3>1, <3>2 DEF WaveTop
    <2> QED BY <2>1, <2>2, <2>3, <2>4 DEF TypeOK
  <1>2. CASE Launch
    <2>1. UNCHANGED <<wf, shutdown, mpc, attempt, success, graph, cur, batch_end, completed,
                      verdict, executors, told, thrown, cancelled, cpc, dead_use>>
      BY <1>2 DEF Launch
    <2>2. launched' \in 0..NumJobs
      BY <1>2, JobsFinite DEF Launch, TypeOK
    <2>3. jpc' \in [JobId -> {"none", "created", "executing", "unregister", "ended"}]
      BY <1>2 DEF Launch, TypeOK
    <2> QED BY <2>1, <2>2, <2>3 DEF TypeOK
  <1>3. CASE JoinBatch
    <2>1. UNCHANGED <<wf, shutdown, attempt, success, graph, cur, launched, completed, jobs,
                      cancelled, cpc, dead_use>>
      BY <1>3 DEF JoinBatch
    <2>2. mpc' \in {"launch", "collect"}
      BY <1>3 DEF JoinBatch
    <2>3. batch_end' \in 0..NumJobs
      <3>1. CASE batch_end' = batch_end
        BY <3>1 DEF TypeOK
      <3>2. CASE launched < Len(WaveSeq) /\ batch_end' = BatchEnd(launched)
        <4>1. cur < NumJobs
          BY <1>3 DEF JoinBatch, Progress
        <4>2. Len(WaveSeq) \in 0..NumJobs
          BY <4>1, BatchFacts
        <4>3. launched \in 0..Len(WaveSeq)
          BY <3>2, <4>2, JobsFinite DEF TypeOK
        <4>4. BatchEnd(launched) \in launched..Len(WaveSeq)
          BY <4>1, <4>3, BatchFacts
        <4> QED BY <3>2, <4>2, <4>3, <4>4, JobsFinite
      <3> QED BY <1>3, <3>1, <3>2 DEF JoinBatch
    <2> QED BY <2>1, <2>2, <2>3 DEF TypeOK
  <1>4. CASE Collect
    <2>1. UNCHANGED <<wf, shutdown, attempt, graph, launched, batch_end, jobs, cancelled,
                      cpc, dead_use>>
      BY <1>4 DEF Collect
    <2>2. mpc' \in {"returned", "wave"}
      BY <1>4, Zenon DEF Collect
    <2>3. success' \in BOOLEAN
      BY <1>4, Zenon DEF Collect, TypeOK
    <2>4. cur' \in 0..NumJobs
      <3>1. cur < NumJobs
        BY <1>4 DEF Collect, Progress
      <3>2. cur' = cur \/ cur' = cur + 1
        BY <1>4 DEF Collect
      <3> QED BY <3>1, <3>2, JobsFinite DEF TypeOK
    <2>5. completed' \subseteq JobId
      BY <1>4 DEF Collect, TypeOK, Wave
    <2> QED BY <2>1, <2>2, <2>3, <2>4, <2>5 DEF TypeOK
  <1> QED BY <1>1, <1>2, <1>3, <1>4

\* The steps of the jobs' threads and all others keep the types.
LEMMA OtherTypeStep ==
  ASSUME TypeOK, Progress, Results,
         Aside \/ \E j \in JobId : Register(j) \/ Execute(j) \/ Unregister(j)
  PROVE  TypeOK'
  <1> USE DEF graph, progress, jobs
  <1>1. ASSUME NEW j \in JobId, Register(j) \/ Execute(j) \/ Unregister(j)
        PROVE  TypeOK'
    <2>1. UNCHANGED <<wf, shutdown, mpc, attempt, success, graph, progress, cancelled, cpc,
                      dead_use>>
      BY <1>1, JobFrame
    <2>2. jpc[j] \notin {"none", "ended"} /\ jpc' \in
            [JobId -> {"none", "created", "executing", "unregister", "ended"}]
      BY <1>1 DEF Register, Execute, Unregister, TypeOK
    <2>3. verdict' \in [JobId -> {"none", "success", "failure"}]
      BY <1>1 DEF Register, Execute, Unregister, TypeOK
    <2>4. mpc = "launch"
      BY <2>2 DEF Progress
    <2>5. attempt \in 1..MaxAttempts
      BY <2>4, AttemptsAssumption DEF Results, TypeOK
    <2>6. Executor(j) \in JobId \X (1..MaxAttempts)
      BY <2>5 DEF Executor
    <2>7. /\ executors' \subseteq executors \cup {Executor(j)}
          /\ told' \subseteq told \cup {Executor(j)}
          /\ thrown' \subseteq thrown \cup {Executor(j)}
      BY <1>1 DEF Register, Execute, Unregister
    <2>8. /\ executors' \subseteq JobId \X (1..MaxAttempts)
          /\ told' \subseteq JobId \X (1..MaxAttempts)
          /\ thrown' \subseteq JobId \X (1..MaxAttempts)
      BY <2>6, <2>7 DEF TypeOK
    <2> QED BY <2>1, <2>2, <2>3, <2>8 DEF TypeOK
  <1>2. ASSUME Aside PROVE TypeOK'
    <2>1. UNCHANGED <<wf, graph, progress, jpc, verdict, executors, thrown>>
      BY <1>2, AsideFrame
    <2>2. /\ shutdown' \in BOOLEAN /\ success' \in BOOLEAN
          /\ cancelled' \in BOOLEAN /\ dead_use' \in BOOLEAN
      BY <1>2, Zenon DEF Aside, NextAttempt, RunReturned, StopCancelThread,
         JoinCancelThread, SetCancelled, CancelAll, Signal, vars, TypeOK
    <2>3. mpc' \in {"attempt", "sort", "visit", "assign", "wave", "launch",
                    "collect", "returned", "stop", "join", "exit"}
      BY <1>2 DEF Aside, NextAttempt, RunReturned, StopCancelThread,
         JoinCancelThread, SetCancelled, CancelAll, Signal, vars, TypeOK
    <2>4. attempt' \in 0..MaxAttempts
      BY <1>2, AttemptsAssumption DEF Aside, NextAttempt, RunReturned, StopCancelThread,
         JoinCancelThread, SetCancelled, CancelAll, Signal, vars, TypeOK
    <2>5. cpc' \in {"watch", "cancel", "done"}
      BY <1>2 DEF Aside, NextAttempt, RunReturned, StopCancelThread,
         JoinCancelThread, SetCancelled, CancelAll, Signal, vars, TypeOK
    <2>6. told' \subseteq told \cup executors
      BY <1>2 DEF Aside, NextAttempt, RunReturned, StopCancelThread,
         JoinCancelThread, SetCancelled, CancelAll, Signal, vars
    <2> QED BY <2>1, <2>2, <2>3, <2>4, <2>5, <2>6 DEF TypeOK
  <1> QED BY <1>1, <1>2

-----------------------------------------------------------------------------
(* The schedule *)

Schedule == Ordered /\ Kahn /\ Waved /\ Listed

\* A step that leaves the graph alone and stays where the schedule is built,
\* or runs it, or leaves, keeps what is known of the schedule.
LEMMA ScheduleKept ==
  ASSUME Schedule, UNCHANGED <<wf, graph>>,
         mpc' = mpc \/ (InRun /\ InRun') \/ ~Scheduling'
  PROVE  Schedule'
  <1> USE DEF graph
  <1>1. UNCHANGED <<wf, ready, in_degree, order, wave, waves>>
    OBVIOUS
  <1>2. Listed'
    BY <1>1 DEF Schedule, Listed
  <1>3. CASE mpc' = mpc
    <2>1. Ordered' /\ Kahn'
      BY <1>1, <1>3 DEF Schedule, Ordered, Kahn, Scheduling, InRun, Needs
    <2>2. Assigned' = Assigned /\ InRun' = InRun /\ Waved
      BY <1>1, <1>3 DEF Schedule, InRun, Assigned
    <2>3. Waved'
      BY <1>1, <1>3, <2>2 DEF Waved, Prefix
    <2> QED BY <1>2, <2>1, <2>3 DEF Schedule
  <1>4. CASE InRun /\ InRun'
    <2>1. /\ mpc \in {"wave", "launch", "collect"} /\ mpc' \in {"wave", "launch", "collect"}
          /\ Scheduling /\ Scheduling'
      BY <1>4 DEF InRun, Scheduling
    <2>2. Ordered' /\ Kahn'
      BY <1>1, <2>1 DEF Schedule, Ordered, Kahn, Needs
    <2>3. Waved'
      BY <1>1, <2>1 DEF Schedule, Waved, InRun, Needs, Assigned, Prefix
    <2> QED BY <1>2, <2>2, <2>3 DEF Schedule
  <1>5. CASE ~Scheduling'
    BY <1>2, <1>5 DEF Schedule, Ordered, Kahn, Waved, Scheduling, InRun
  <1> QED BY <1>3, <1>4, <1>5

\* The sort begins: no job is in order, those without needs are ready.
LEMMA StartSortStep ==
  ASSUME TypeOK, Schedule, StartSort
  PROVE  Schedule'
  <1> USE DEF graph
  <1>1. mpc = "sort" /\ UNCHANGED wf /\ \A j : Needs(j)' = Needs(j)
    BY DEF StartSort, Needs
  <1>2. CASE \E j \in JobId : 0 \in Needs(j)
    <2>1. UNCHANGED graph /\ mpc' = "returned"
      BY <1>2 DEF StartSort
    <2>2. ~Scheduling'
      BY <2>1 DEF Scheduling, InRun
    <2> QED BY <1>1, <2>1, <2>2, ScheduleKept
  <1>3. CASE ~\E j \in JobId : 0 \in Needs(j)
    <2> DEFINE S == {j \in JobId : Needs(j) = {}}
    <2>1. /\ order' = <<>> /\ mpc' = "visit"
          /\ in_degree' = [j \in JobId |-> Cardinality(Needs(j))]
          /\ ready' \in SetToSeqs(S)
          /\ wave' = [j \in JobId |-> -1]
          /\ waves' = [w \in 0..(NumJobs - 1) |-> <<>>]
      BY <1>3 DEF StartSort
    <2>2. Distinct(ready') /\ ToSet(ready') = S
      <3>1. S \in SUBSET JobId
        OBVIOUS
      <3> HIDE DEF S
      <3> QED BY <2>1, <3>1, SeqOfSet
    <2>3. ToSet(order') = {} /\ Len(order') = 0 /\ Distinct(order')
      <3>1. <<>> \in Seq(JobId) /\ Len(<<>>) = 0
        BY EmptySeq
      <3>2. ToSet(<<>>) = {}
        <4>1. ToSet(<<>>) = {<<>>[k] : k \in 1..0}
          BY <3>1, ToSetIs
        <4> QED BY <4>1
      <3> QED BY <2>1, <3>1, <3>2 DEF Distinct
    <2>4. Ordered'
      <3>1. \A j \in JobId : Needs(j) \subseteq JobId
        BY <1>3, NeedsAreJobs
      <3> QED BY <1>1, <2>3, <3>1 DEF Ordered
    <2>5. Kahn'
      <3>1. \A j \in JobId : Needs(j) \ ToSet(order') = Needs(j)
        BY <2>3
      <3>2. \A j \in JobId : in_degree'[j] = Cardinality(Needs(j) \ ToSet(order'))
        BY <2>1, <3>1
      <3>3. \A j \in JobId : j \in ToSet(order') \cup ToSet(ready')
                               <=> Needs(j) \subseteq ToSet(order')
        BY <2>2, <2>3
      <3> QED BY <1>1, <2>2, <2>3, <3>2, <3>3 DEF Kahn
    <2>6. Waved'
      BY <2>1 DEF Waved, Assigned, InRun
    <2>7. Listed'
      <3>1. <<>> \in Seq(JobId) /\ Len(<<>>) = 0 /\ ToSet(<<>>) = {} /\ Distinct(<<>>)
        BY <2>1, <2>3
      <3>2. \A w \in 0..(NumJobs - 1) : {j \in JobId : wave'[j] = w} = {}
        BY <2>1, JobsFinite
      <3> QED BY <2>1, <3>1, <3>2 DEF Listed
    <2> QED BY <2>4, <2>5, <2>6, <2>7 DEF Schedule
  <1> QED BY <1>2, <1>3

\* A job is put in order when all its needs are, and the jobs that become
\* ready are those that have no other need left.
LEMMA VisitStep ==
  ASSUME TypeOK, Schedule, Visit
  PROVE  Schedule'
  <1> USE DEF Schedule
  <1>1. PICK id, t : Visits(id, t)
    BY VisitFacts
  <1>2. /\ mpc = "visit" /\ mpc' = "visit" /\ ready # <<>>
        /\ UNCHANGED <<wf, wave, waves>> /\ \A j : Needs(j)' = Needs(j)
        /\ Scheduling /\ Scheduling'
    BY DEF Visit, Needs, Scheduling
  <1>3. /\ ready \in Seq(JobId) /\ order \in Seq(JobId) /\ in_degree \in [JobId -> 0..NumJobs]
        /\ Distinct(ready) /\ Distinct(order) /\ ToSet(ready) \cap ToSet(order) = {}
        /\ \A j \in JobId : in_degree[j] = Cardinality(Needs(j) \ ToSet(order))
        /\ \A j \in JobId : j \in ToSet(order) \cup ToSet(ready)
                              <=> Needs(j) \subseteq ToSet(order)
        /\ \A j \in JobId : Needs(j) \subseteq JobId
    BY <1>2 DEF TypeOK, Ordered, Kahn
  <1>4. /\ id \in JobId /\ id \in ToSet(ready) /\ Tail(ready) \in Seq(JobId)
        /\ Distinct(Tail(ready)) /\ ToSet(Tail(ready)) = ToSet(ready) \ {id}
    BY <1>1, <1>2, <1>3, TailDistinct DEF Visits
  <1>5. id \notin ToSet(order) /\ Needs(id) \subseteq ToSet(order)
    BY <1>3, <1>4
  <1>6. /\ order' \in Seq(JobId) /\ Distinct(order') /\ ToSet(order') = ToSet(order) \cup {id}
        /\ Len(order') = Len(order) + 1 /\ order'[Len(order) + 1] = id
        /\ \A k \in 1..Len(order) : order'[k] = order[k]
    BY <1>1, <1>3, <1>4, <1>5, AppendDistinct DEF Visits
  <1>7. ASSUME NEW j \in JobId, id \in Needs(j)
        PROVE  /\ Cardinality(Needs(j) \ ToSet(order')) = in_degree[j] - 1
               /\ in_degree[j] = 1 <=> Needs(j) \subseteq ToSet(order')
    <2> DEFINE S == Needs(j) \ ToSet(order)
    <2>1. S \in SUBSET JobId /\ id \in S /\ Needs(j) \ ToSet(order') = S \ {id}
      BY <1>3, <1>5, <1>6, <1>7
    <2>2. IsFiniteSet(S) /\ Cardinality(S) \in Nat /\ in_degree[j] = Cardinality(S)
      BY <1>3, <2>1, JobsFinite
    <2> HIDE DEF S
    <2>3. Cardinality(S \ {id}) = Cardinality(S) - 1 /\ IsFiniteSet(S \ {id})
      BY <2>1, <2>2, FS_RemoveElement
    <2>4. Cardinality(S \ {id}) = 0 <=> S \ {id} = {}
      BY <2>3, FS_EmptySet
    <2>5. Needs(j) \subseteq ToSet(order') <=> S \ {id} = {}
      BY <2>1
    <2> QED BY <2>1, <2>2, <2>3, <2>4, <2>5
  <1>8. ASSUME NEW j \in JobId, id \notin Needs(j)
        PROVE  Needs(j) \ ToSet(order') = Needs(j) \ ToSet(order)
    BY <1>6, <1>8
  <1>9. ToSet(t) = {j \in JobId : id \in Needs(j) /\ in_degree[j] = 1}
        /\ t \in Seq(JobId) /\ Distinct(t) /\ ready' = Tail(ready) \o t
    BY <1>1 DEF Visits
  <1>10. ToSet(t) \cap (ToSet(order) \cup ToSet(ready)) = {}
    BY <1>3, <1>5, <1>9
  <1>11. Distinct(ready') /\ ToSet(ready') = (ToSet(ready) \ {id}) \cup ToSet(t)
    <2>1. ToSet(Tail(ready)) \cap ToSet(t) = {}
      BY <1>4, <1>10
    <2> QED BY <1>4, <1>9, <2>1, ConcatDistinct
  <1>12. Ordered'
    <2>1. ASSUME NEW l \in 1..Len(order'), NEW n \in Needs(order'[l])
          PROVE  \E k \in 1..(l - 1) : order'[k] = n
      <3>1. Len(order) \in Nat
        BY <1>3, LenProperties
      <3>2. CASE l \in 1..Len(order)
        <4>1. order'[l] = order[l]
          BY <1>6, <3>2
        <4>2. PICK k \in 1..(l - 1) : order[k] = n
          BY <1>2, <2>1, <3>2, <4>1 DEF Ordered
        <4>3. k \in 1..Len(order)
          BY <3>1, <3>2, <4>2
        <4> QED BY <1>6, <4>2, <4>3
      <3>3. CASE l = Len(order) + 1
        <4>1. n \in ToSet(order)
          BY <1>5, <1>6, <2>1, <3>3
        <4>2. PICK k \in 1..Len(order) : order[k] = n
          BY <1>3, <4>1, ToSetIs
        <4>3. k \in 1..(l - 1)
          BY <3>1, <3>3, <4>2
        <4> QED BY <1>6, <4>2, <4>3
      <3> QED BY <1>6, <3>1, <3>2, <3>3
    <2> QED BY <1>2, <1>3, <1>6, <2>1 DEF Ordered
  <1>13. Kahn'
    <2>1. ToSet(ready') \cap ToSet(order') = {}
      BY <1>3, <1>4, <1>5, <1>6, <1>10, <1>11
    <2>2. \A j \in JobId : in_degree'[j] = Cardinality(Needs(j) \ ToSet(order'))
      <3> TAKE j \in JobId
      <3>1. in_degree'[j] = IF id \in Needs(j) THEN in_degree[j] - 1 ELSE in_degree[j]
        BY <1>1 DEF Visits
      <3> QED BY <1>3, <1>7, <1>8, <3>1
    <2>3. \A j \in JobId : j \in ToSet(order') \cup ToSet(ready')
                             <=> Needs(j) \subseteq ToSet(order')
      <3> TAKE j \in JobId
      <3>1. j \in ToSet(order') \cup ToSet(ready')
              <=> j \in ToSet(order) \cup ToSet(ready) \/ j \in ToSet(t)
        BY <1>4, <1>6, <1>11
      <3>2. CASE id \in Needs(j)
        <4>1. j \notin ToSet(order) \cup ToSet(ready)
          BY <1>3, <1>5, <3>2
        <4> QED BY <1>7, <1>9, <3>1, <3>2, <4>1
      <3>3. CASE id \notin Needs(j)
        <4>1. j \notin ToSet(t)
          BY <1>9, <3>3
        <4>2. Needs(j) \subseteq ToSet(order') <=> Needs(j) \subseteq ToSet(order)
          BY <1>6, <3>3
        <4> QED BY <1>3, <3>1, <4>1, <4>2
      <3> QED BY <3>2, <3>3
    <2> QED BY <1>2, <1>11, <2>1, <2>2, <2>3 DEF Kahn
  <1>14. Waved' /\ Listed'
    BY <1>2 DEF Waved, Listed, Assigned, InRun
  <1> QED BY <1>12, <1>13, <1>14

\* The order is complete, or there is a cycle and the run fails.
LEMMA EndSortStep ==
  ASSUME TypeOK, Schedule, EndSort
  PROVE  Schedule'
  <1> USE DEF graph, Schedule
  <1>1. mpc = "visit" /\ UNCHANGED <<wf, graph>>
    BY DEF EndSort
  <1>2. CASE mpc' = "returned"
    <2>1. ~Scheduling'
      BY <1>2 DEF Scheduling, InRun
    <2> QED BY <1>1, <2>1, ScheduleKept
  <1>3. CASE mpc' = "assign" /\ Len(order) = NumJobs
    <2>1. Ordered' /\ Kahn' /\ Listed'
      BY <1>1, <1>3 DEF Ordered, Kahn, Listed, Scheduling, Needs
    <2>2. Assigned = {} /\ Prefix(0) = {} /\ 0 \in 0..NumJobs /\ 0 < NumJobs
      BY <1>1, JobsFinite DEF Waved, Prefix
    <2>3. Assigned' = Assigned /\ Prefix(0)' = Prefix(0) /\ Len(order') = NumJobs
      BY <1>1, <1>3 DEF Assigned, Prefix
    <2>4. Waved'
      <3>1. \A k \in 1..0 : FALSE
        OBVIOUS
      <3> QED BY <1>3, <2>2, <2>3, <3>1 DEF Waved, InRun
    <2> QED BY <2>1, <2>4
  <1> QED BY <1>2, <1>3 DEF EndSort

\* The wave after a job's needs depends on the waves of its needs alone.
LEMMA AfterSame ==
  ASSUME NEW needs, NEW u, NEW v, NEW j, \A n \in needs[j] : u[n] = v[n]
  PROVE  After(needs, u, j) = After(needs, v, j)
  <1>1. {u[n] : n \in needs[j]} = {v[n] : n \in needs[j]}
    OBVIOUS
  <1> QED BY <1>1 DEF After

\* Giving the next job its wave changes none of the waves known before, on
\* which its needs' waves are.
LEMMA AssignStep ==
  ASSUME TypeOK, Schedule, AssignWave
  PROVE  Schedule'
  <1> USE DEF Schedule
  <1>1. PICK a \in 0..(NumJobs - 1), id \in JobId, w \in 0..(NumJobs - 1) : Assigns(a, id, w)
    BY AssignFacts
  <1>2. /\ mpc = "assign" /\ mpc' \in {"assign", "wave"} /\ UNCHANGED <<wf, order>>
        /\ Scheduling /\ Scheduling'
    BY <1>1 DEF AssignWave, Assigns, Scheduling, InRun
  <1>3. Ordered' /\ Kahn'
    BY <1>2 DEF Ordered, Kahn, Needs
  <1>4. /\ wave \in [JobId -> -1..(NumJobs - 1)] /\ NumJobs \in Nat
        /\ waves \in [0..(NumJobs - 1) -> Seq(JobId)]
        /\ order \in [1..NumJobs -> JobId] /\ Len(order) = NumJobs
    BY <1>2, JobsFinite, LenProperties DEF TypeOK, Waved
  <1>5. wave[id] = -1 /\ \A j \in JobId : wave'[j] = IF j = id THEN w ELSE wave[j]
    BY <1>1, <1>4 DEF Assigns, Assigned
  <1>6. Waved'
    <2>1. 1..(a + 1) = 1..a \cup {a + 1} /\ a + 1 \in 0..NumJobs /\ a + 1 \in 1..NumJobs
      BY <1>4
    <2>2. Assigned' = Prefix(a + 1)'
      <3>1. Assigned' = Assigned \cup {id}
        BY <1>4, <1>5 DEF Assigned
      <3>2. Prefix(a + 1)' = Prefix(a) \cup {order[a + 1]}
        BY <1>2, <2>1 DEF Prefix
      <3> QED BY <1>1, <3>1, <3>2 DEF Assigns
    <2>3. mpc' = "assign" <=> a + 1 < NumJobs
      BY <1>1, <1>4, <2>1 DEF Assigns
    <2>4. ASSUME NEW k \in 1..(a + 1)
          PROVE  /\ wave'[order[k]] \in 0..(k - 1)
                 /\ wave'[order[k]] = After(wf.needs, wave', order[k])
      <3>1. ASSUME NEW n \in Prefix(a) PROVE wave'[n] = wave[n]
        BY <1>1, <1>5, <3>1 DEF Assigns, Assigned
      <3>2. CASE k \in 1..a
        <4>1. order[k] \in Prefix(a)
          BY <3>2 DEF Prefix
        <4>2. wf.needs[order[k]] \subseteq Prefix(a)
          <5> SUFFICES ASSUME NEW n \in Needs(order[k]) PROVE n \in Prefix(a)
            BY DEF Needs
          <5>1. k \in 1..Len(order)
            BY <1>4, <3>2
          <5>2. PICK l \in 1..(k - 1) : order[l] = n
            BY <1>2, <5>1 DEF Ordered
          <5>3. l \in 1..a
            BY <3>2, <5>2
          <5> QED BY <5>2, <5>3 DEF Prefix
        <4>3. After(wf.needs, wave', order[k]) = After(wf.needs, wave, order[k])
          BY <3>1, <4>2, AfterSame
        <4> QED BY <1>1, <3>1, <3>2, <4>1, <4>3 DEF Assigns
      <3>3. CASE k = a + 1
        <4>1. order[k] = id /\ wf.needs[id] \subseteq Prefix(a) /\ k - 1 = a
          BY <1>1, <3>3 DEF Assigns, Needs
        <4>2. After(wf.needs, wave', id) = After(wf.needs, wave, id)
          BY <3>1, <4>1, AfterSame
        <4>3. wave'[id] = w /\ w \in 0..a /\ w = After(wf.needs, wave, id)
          BY <1>1, <1>5 DEF Assigns
        <4> QED BY <4>1, <4>2, <4>3
      <3> QED BY <2>1, <3>2, <3>3
    <2> HIDE DEF Prefix
    <2>5. /\ Len(order') = NumJobs /\ wf' = wf /\ order' = order /\ mpc' # "visit"
      BY <1>2, <1>4
    <2> QED BY <2>1, <2>2, <2>3, <2>4, <2>5 DEF Waved
  <1>7. Listed'
    <2> SUFFICES ASSUME NEW v \in 0..(NumJobs - 1)
                 PROVE  /\ Distinct(waves'[v])
                        /\ ToSet(waves'[v]) = {j \in JobId : wave'[j] = v}
      BY DEF Listed
    <2>1. waves'[v] = IF v = w THEN Append(waves[w], id) ELSE waves[v]
      BY <1>1, <1>4 DEF Assigns
    <2>2. CASE v = w
      <3>1. {j \in JobId : wave'[j] = v} = {j \in JobId : wave[j] = v} \cup {id}
        BY <1>5, <2>2
      <3>2. id \notin {j \in JobId : wave[j] = v}
        BY <1>4, <1>5, <2>2
      <3>3. waves[w] \in Seq(JobId) /\ Distinct(waves[w])
            /\ ToSet(waves[w]) = {j \in JobId : wave[j] = v}
        BY <1>4, <2>2 DEF Listed
      <3> QED BY <2>1, <2>2, <3>1, <3>2, <3>3, AppendDistinct
    <2>3. CASE v # w
      <3>1. {j \in JobId : wave'[j] = v} = {j \in JobId : wave[j] = v}
        BY <1>4, <1>5, <2>3
      <3> QED BY <2>1, <2>3, <3>1 DEF Listed
    <2> QED BY <2>2, <2>3
  <1> QED BY <1>3, <1>6, <1>7

\* Every step keeps what is known of the schedule.
LEMMA ScheduleStep ==
  ASSUME TypeOK, Schedule, Progress, [Next]_vars
  PROVE  Schedule'
  <1>1. CASE Aside
    <2>1. UNCHANGED <<wf, graph>>
      BY <1>1, AsideFrame
    <2>2. mpc' = mpc \/ (InRun /\ InRun') \/ ~Scheduling'
      BY <1>1, AsideFrame DEF Scheduling, InRun
    <2> QED BY <2>1, <2>2, ScheduleKept, Zenon
  <1>2. CASE WaveTop \/ Launch \/ JoinBatch \/ Collect
    <2>1. UNCHANGED <<wf, graph>>
      BY <1>2 DEF WaveTop, Launch, JoinBatch, Collect
    <2>2. mpc \in {"wave", "launch", "collect"}
          /\ mpc' \in {"wave", "launch", "collect", "returned"}
      BY <1>2, Zenon DEF WaveTop, Launch, JoinBatch, Collect
    <2>3. (InRun /\ InRun') \/ ~Scheduling'
      BY <2>2 DEF Scheduling, InRun
    <2> QED BY <2>1, <2>3, ScheduleKept
  <1>3. ASSUME NEW j \in JobId, Register(j) \/ Execute(j) \/ Unregister(j)
        PROVE  Schedule'
    <2>1. UNCHANGED <<wf, graph>>
      BY <1>3, JobFrame
    <2>2. mpc' = mpc \/ (InRun /\ InRun') \/ ~Scheduling'
      BY <1>3, JobFrame
    <2> QED BY <2>1, <2>2, ScheduleKept, Zenon
  <1> QED BY <1>1, <1>2, <1>3, NextCases, StartSortStep, VisitStep, EndSortStep, AssignStep
          DEF Aside

\* A complete order has every job, and no cycle: of any set of jobs, the first
\* in order needs none of the others.
LEMMA CompleteOrder ==
  ASSUME TypeOK, Ordered, Scheduling, Len(order) = NumJobs
  PROVE  ToSet(order) = JobId /\ Acyclic
  <1>1. /\ order \in Seq(JobId) /\ Distinct(order) /\ NumJobs \in Nat
        /\ order \in [1..NumJobs -> JobId]
    BY LenProperties, JobsFinite DEF TypeOK, Ordered
  <1>2. ToSet(order) = JobId /\ ToSet(order) = {order[k] : k \in 1..NumJobs}
    BY <1>1, DistinctLength, ToSetIs
  <1>3. ASSUME NEW S \in SUBSET JobId, S # {}
        PROVE  \E j \in S : Needs(j) \cap S = {}
    <2> DEFINE P == {k \in 1..NumJobs : order[k] \in S}
    <2>1. P \subseteq Nat /\ P # {}
      <3>1. PICK x \in S : x \in JobId
        BY <1>3
      <3>2. PICK k \in 1..NumJobs : order[k] = x
        BY <1>2, <3>1
      <3>3. k \in P
        BY <3>1, <3>2
      <3> QED BY <3>3
    <2>2. PICK l \in P : \A k \in P : l <= k
      BY <2>1, LeastNatural
    <2>3. l \in 1..Len(order) /\ order[l] \in S
      BY <2>2
    <2>4. ASSUME NEW n \in Needs(order[l]), n \in S PROVE FALSE
      <3>1. PICK k \in 1..(l - 1) : order[k] = n
        BY <2>3, <2>4 DEF Ordered
      <3>2. k \in P /\ k < l /\ k \in Int /\ l \in Int
        BY <1>1, <2>3, <2>4, <3>1
      <3> QED BY <2>2, <3>2
    <2> QED BY <2>3, <2>4
  <1> QED BY <1>2, <1>3 DEF Acyclic

\* When no job is ready any more, the jobs that are not in order need each
\* other: without a cycle, there are none.
LEMMA AcyclicIsOrdered ==
  ASSUME TypeOK, Ordered, Kahn, mpc = "visit", ready = <<>>, Acyclic
  PROVE  Len(order) = NumJobs
  <1>1. order \in Seq(JobId) /\ Distinct(order) /\ ToSet(order) \subseteq JobId
    BY ToSetIs DEF TypeOK, Ordered, Scheduling
  <1>2. ToSet(ready) = {}
    <2>1. <<>> \in Seq(JobId) /\ Len(<<>>) = 0
      BY EmptySeq
    <2>2. ToSet(<<>>) = {<<>>[k] : k \in 1..0}
      BY <2>1, ToSetIs
    <2> QED BY <2>2
  <1> DEFINE S == JobId \ ToSet(order)
  <1>3. S = {}
    <2> SUFFICES ASSUME S # {} PROVE FALSE
      OBVIOUS
    <2>1. PICK j \in S : Needs(j) \cap S = {}
      BY DEF Acyclic
    <2>2. Needs(j) \subseteq JobId
      BY <2>1 DEF Ordered, Scheduling
    <2>3. Needs(j) \subseteq ToSet(order)
      BY <2>1, <2>2
    <2> QED BY <1>2, <2>1, <2>3 DEF Kahn
  <1>4. ToSet(order) = JobId
    BY <1>1, <1>3
  <1> QED BY <1>1, <1>4, DistinctLength

\* While the waves are run, every job is one wave after the last of its needs,
\* so after each of them.
LEMMA WavesFollowNeeds ==
  ASSUME TypeOK, Schedule, InRun, NEW j \in JobId
  PROVE  /\ wave[j] = 1 + Max({-1} \cup {wave[n] : n \in Needs(j)})
         /\ wave[j] \in 0..(NumJobs - 1)
         /\ Needs(j) \subseteq JobId /\ \A n \in Needs(j) : wave[n] < wave[j]
  <1> USE DEF Schedule
  <1>1. Scheduling /\ mpc # "assign" /\ NumJobs \in Nat
    BY JobsFinite DEF InRun, Scheduling
  <1>2. order \in Seq(JobId) /\ Len(order) = NumJobs
    BY DEF TypeOK, Waved
  <1>3. PICK a \in 0..NumJobs :
          /\ mpc = "assign" <=> a < NumJobs
          /\ \A k \in 1..a : /\ wave[order[k]] \in 0..(k - 1)
                             /\ wave[order[k]] = After(wf.needs, wave, order[k])
    BY DEF Waved
  <1>4. a = NumJobs
    BY <1>1, <1>3
  <1>5. PICK k \in 1..NumJobs : order[k] = j
    <2>1. ToSet(order) = JobId
      BY <1>1, <1>2, CompleteOrder
    <2> QED BY <1>2, <2>1, ToSetIs
  <1>6. wave[j] \in 0..(NumJobs - 1) /\ wave[j] = After(wf.needs, wave, j)
    BY <1>1, <1>3, <1>4, <1>5
  <1>7. Needs(j) \subseteq JobId
    BY <1>1 DEF Ordered
  <1> DEFINE T == {-1} \cup {wave[n] : n \in Needs(j)}
  <1>8. wave[j] = 1 + Max(T)
    BY <1>6 DEF After, Needs
  <1>9. T \subseteq -1..(NumJobs - 1) /\ T # {} /\ \A n \in Needs(j) : wave[n] \in T
    BY <1>1, <1>7 DEF TypeOK
  <1> HIDE DEF T
  <1>10. -1 \in Int /\ NumJobs - 1 \in Int
    BY <1>1
  <1>11. Max(T) \in T /\ \A v \in T : v <= Max(T)
    BY <1>9, <1>10, MaxOfBounded
  <1>12. Max(T) \in Int
    <2>1. Max(T) \in -1..(NumJobs - 1)
      BY <1>9, <1>11, Zenon
    <2> QED BY <1>10, <2>1
  <1>13. \A n \in Needs(j) : wave[n] < wave[j]
    <2> TAKE n \in Needs(j)
    <2>1. wave[n] \in T /\ wave[n] \in -1..(NumJobs - 1)
      BY <1>9
    <2>2. wave[n] <= Max(T)
      BY <1>11, <2>1
    <2> QED BY <1>8, <1>10, <1>12, <2>1, <2>2
  <1> QED BY <1>6, <1>7, <1>8, <1>13 DEF T

\* What the invariant says of the schedule is what ScheduleCorrect asks.
LEMMA ScheduleIsCorrect ==
  ASSUME TypeOK, Schedule
  PROVE  ScheduleCorrect
  <1> USE DEF Schedule
  <1>1. ASSUME mpc = "visit", ready = <<>> PROVE Len(order) = NumJobs <=> Acyclic
    BY <1>1, CompleteOrder, AcyclicIsOrdered DEF Scheduling
  <1>2. ASSUME mpc \in {"assign", "wave", "launch", "collect"}
        PROVE  /\ Acyclic /\ ToSet(order) = JobId /\ Len(order) = NumJobs
               /\ \A k, l \in DOMAIN order : order[k] \in Needs(order[l]) => k < l
    <2>1. Scheduling /\ Len(order) = NumJobs /\ order \in Seq(JobId) /\ Distinct(order)
      BY <1>2 DEF Scheduling, InRun, Waved, TypeOK, Ordered
    <2>2. Acyclic /\ ToSet(order) = JobId
      BY <2>1, CompleteOrder
    <2>3. ASSUME NEW k \in 1..Len(order), NEW l \in 1..Len(order), order[k] \in Needs(order[l])
          PROVE  k < l
      <3>1. PICK i \in 1..(l - 1) : order[i] = order[k]
        BY <2>1, <2>3 DEF Ordered
      <3>2. i \in 1..Len(order) /\ NumJobs \in Nat
        BY <2>1, <2>3, <3>1, JobsFinite
      <3>3. i = k
        BY <2>1, <2>3, <3>1, <3>2 DEF Distinct
      <3> QED BY <2>1, <3>1, <3>2, <3>3
    <2>4. DOMAIN order = 1..Len(order)
      BY <2>1, LenProperties
    <2> QED BY <2>1, <2>2, <2>3, <2>4
  <1>3. ASSUME mpc \in {"wave", "launch", "collect"}, NEW j \in JobId
        PROVE  wave[j] = 1 + Max({-1} \cup {wave[n] : n \in Needs(j)})
    BY <1>3, WavesFollowNeeds DEF InRun
  <1> QED BY <1>1, <1>2, <1>3 DEF ScheduleCorrect

-----------------------------------------------------------------------------
(* The progress of the waves *)

\* What the batches depend on is fixed while a wave is run.
LEMMA SameBatches ==
  ASSUME UNCHANGED <<wf, graph, cur>>
  PROVE  WaveSeq' = WaveSeq /\ Wave' = Wave /\ BatchSize' = BatchSize
  <1>1. UNCHANGED <<wf, wave, waves, cur>>
    BY DEF graph
  <1>2. WaveSeq' = WaveSeq /\ Wave' = Wave
    BY <1>1 DEF WaveSeq, Wave
  <1>3. Limits' = Limits
    BY <1>1, <1>2 DEF Limits
  <1> QED BY <1>2, <1>3 DEF BatchSize

\* When the last job has its wave, no job is without one.
LEMMA AssignLast ==
  ASSUME TypeOK, Ordered, Waved, AssignWave, mpc' = "wave"
  PROVE  \A j \in JobId : wave'[j] \in 0..(NumJobs - 1)
  <1> DEFINE rest == {j \in JobId : wave[j] = -1}
  <1>1. PICK a \in 0..(NumJobs - 1), id \in JobId, w \in 0..(NumJobs - 1) : Assigns(a, id, w)
    BY AssignFacts
  <1>2. Cardinality(rest) = 1 /\ rest \in SUBSET JobId
    BY DEF AssignWave
  <1>3. id \in rest
    BY <1>1 DEF Assigns, Assigned
  <1>4. rest = {id}
    <2>1. IsFiniteSet(rest)
      BY <1>2, JobsFinite
    <2>2. \E x : rest = {x}
      BY <1>2, <2>1, FS_Singleton
    <2> QED BY <1>3, <2>2
  <1>5. \A j \in JobId : wave'[j] = IF j = id THEN w ELSE wave[j]
    BY <1>1 DEF Assigns, TypeOK
  <1>6. \A j \in JobId : j # id => wave[j] \in -1..(NumJobs - 1) /\ wave[j] # -1
    BY <1>4 DEF TypeOK
  <1> QED BY <1>5, <1>6, JobsFinite

\* The main thread's steps outside the waves start none and leave none behind.
LEMMA ProgressOutside ==
  ASSUME IndInv, Aside \/ StartSort \/ Visit \/ EndSort \/ AssignWave
  PROVE  Progress'
  <1> USE DEF IndInv
  <1>1. CASE Aside
    <2>1. UNCHANGED <<wf, graph, progress, jpc>>
          /\ (mpc' # mpc => mpc \notin {"visit", "assign", "wave", "launch", "collect"})
          /\ (mpc' # mpc => mpc' \notin {"visit", "assign", "wave", "launch", "collect"})
      BY <1>1, AsideFrame
    <2>2. UNCHANGED <<wave, cur, launched, batch_end, completed, jpc>>
      BY <2>1 DEF graph, progress
    <2>3. WaveSeq' = WaveSeq /\ BatchSize' = BatchSize
      BY <2>1, SameBatches DEF progress
    <2>4. CASE mpc' = mpc
      BY <2>2, <2>3, <2>4 DEF Progress, InRun
    <2>5. CASE mpc' # mpc
      BY <2>1, <2>2, <2>5 DEF Progress, InRun
    <2> QED BY <2>4, <2>5
  <1>2. CASE StartSort \/ Visit \/ EndSort
    <2>1. /\ mpc \in {"sort", "visit"} /\ mpc' \in {"visit", "returned", "assign"}
          /\ jpc' = jpc
      BY <1>2, Zenon DEF StartSort, Visit, EndSort, jobs
    <2> QED BY <2>1 DEF Progress, InRun
  <1>3. CASE AssignWave
    <2>1. mpc = "assign" /\ mpc' \in {"assign", "wave"}
      BY <1>3, Zenon DEF AssignWave
    <2>2. CASE mpc' = "assign"
      <3>1. jpc' = jpc
        BY <1>3, <2>1, <2>2 DEF AssignWave
      <3> QED BY <2>1, <2>2, <3>1 DEF Progress, InRun
    <2>3. CASE mpc' = "wave"
      <3>1. cur' = 0 /\ completed' = {} /\ jpc' = [j \in JobId |-> "none"]
        BY <1>3, <2>1, <2>3 DEF AssignWave
      <3>2. \A j \in JobId : wave'[j] \in 0..(NumJobs - 1)
        BY <1>3, <2>3, AssignLast
      <3>3. completed' = {j \in JobId : wave'[j] < cur'}
        BY <3>1, <3>2, JobsFinite
      <3> QED BY <2>3, <3>1, <3>3 DEF Progress, InRun
    <2> QED BY <2>1, <2>2, <2>3
  <1> QED BY <1>1, <1>2, <1>3

\* The steps of one wave: its batches are started and joined one by one.
LEMMA ProgressInside ==
  ASSUME IndInv, WaveTop \/ Launch \/ JoinBatch \/ Collect
  PROVE  Progress'
  <1> USE DEF IndInv
  <1>0. /\ NumJobs \in Nat /\ cur \in 0..NumJobs /\ launched \in 0..NumJobs
        /\ batch_end \in 0..NumJobs /\ \A j \in JobId : wave[j] \in -1..(NumJobs - 1)
        /\ jpc \in [JobId -> {"none", "created", "executing", "unregister", "ended"}]
    BY JobsFinite DEF TypeOK
  <1>1. CASE WaveTop
    <2>1. mpc = "wave" /\ UNCHANGED <<wf, graph, cur, completed, jpc>>
      BY <1>1 DEF WaveTop, jobs
    <2>2. CASE mpc' = "returned"
      BY <2>1, <2>2 DEF Progress, InRun
    <2>3. CASE mpc' = "launch"
      <3>1. cur <= LastWave /\ launched' = 0 /\ batch_end' = BatchEnd(0)
        BY <1>1, <2>3 DEF WaveTop
      <3>2. cur < NumJobs
        <4>1. LastWave \in -1..(NumJobs - 1)
          BY LastWaveFacts
        <4> QED BY <1>0, <3>1, <4>1
      <3>3. /\ WaveSeq \in Seq(JobId) /\ ToSet(WaveSeq) = Wave /\ BatchSize \in Nat
            /\ Len(WaveSeq) \in 0..NumJobs
        BY <3>2, BatchFacts
      <3>4. BatchEnd(0) \in 0..Len(WaveSeq) /\ BatchEnd(0) <= 0 + BatchSize
        <4>1. 0 \in 0..Len(WaveSeq)
          BY <3>3
        <4> QED BY <3>2, <4>1, BatchFacts
      <3>5. \A k \in 1..Len(WaveSeq) : jpc[WaveSeq[k]] = "none"
        <4> TAKE k \in 1..Len(WaveSeq)
        <4>1. WaveSeq[k] \in Wave
          BY <3>3, ToSetIs
        <4> QED BY <2>1, <4>1 DEF Wave, Progress
      <3>6. WaveSeq' = WaveSeq /\ BatchSize' = BatchSize
        BY <2>1, SameBatches
      <3>7. \A k \in 1..Len(WaveSeq) : ~(k <= batch_end' - BatchSize)
        BY <1>0, <3>1, <3>3, <3>4
      <3>8. launched' <= batch_end' /\ batch_end' <= Len(WaveSeq)
        BY <1>0, <3>1, <3>3, <3>4
      <3>9. UNCHANGED wave
        BY <2>1 DEF graph
      <3> QED BY <2>1, <2>3, <3>2, <3>5, <3>6, <3>7, <3>8, <3>9 DEF Progress, InRun
    <2> QED BY <1>1, <2>2, <2>3 DEF WaveTop
  <1>2. CASE Launch
    <2>1. /\ mpc = "launch" /\ mpc' = "launch" /\ launched < batch_end
          /\ launched' = launched + 1
          /\ jpc' = [jpc EXCEPT ![WaveSeq[launched + 1]] = "created"]
          /\ UNCHANGED <<wf, graph, cur, batch_end, completed>>
      BY <1>2 DEF Launch
    <2>2. cur < NumJobs /\ launched <= batch_end /\ batch_end <= Len(WaveSeq)
      BY <2>1 DEF Progress
    <2>3. /\ WaveSeq \in Seq(JobId) /\ ToSet(WaveSeq) = Wave /\ BatchSize \in Nat
          /\ Distinct(WaveSeq) /\ Len(WaveSeq) \in 0..NumJobs
      BY <2>2, BatchFacts
    <2>4. launched + 1 \in 1..Len(WaveSeq)
      BY <1>0, <2>1, <2>2, <2>3
    <2> DEFINE x == WaveSeq[launched + 1]
    <2>5. x \in JobId /\ wave[x] = cur
      BY <2>3, <2>4, ToSetIs DEF Wave
    <2>6. jpc[x] = "none"
      BY <1>0, <2>1, <2>4 DEF Progress
    <2>7. \A j \in JobId : jpc'[j] = IF j = x THEN "created" ELSE jpc[j]
      BY <1>0, <2>1
    <2>8. \A k \in 1..Len(WaveSeq) : k # launched + 1 => WaveSeq[k] # x
      BY <2>3, <2>4 DEF Distinct
    <2>9. \A k \in 1..Len(WaveSeq) : WaveSeq[k] \in JobId
      BY <2>3, ElementOfSeq
    <2> HIDE DEF x
    <2>10. \A k \in 1..Len(WaveSeq) :
             /\ k > launched' => jpc'[WaveSeq[k]] = "none"
             /\ k <= batch_end - BatchSize => jpc'[WaveSeq[k]] = "ended"
      <3> TAKE k \in 1..Len(WaveSeq)
      <3>1. CASE k = launched + 1
        <4>1. ~(k > launched')
          BY <1>0, <2>1, <3>1
        <4>2. ~(k <= batch_end - BatchSize)
          BY <2>1, <2>6, <3>1 DEF Progress, x
        <4> QED BY <4>1, <4>2
      <3>2. CASE k # launched + 1
        <4>1. jpc'[WaveSeq[k]] = jpc[WaveSeq[k]]
          BY <2>7, <2>8, <2>9, <3>2
        <4>2. k > launched' => k > launched
          BY <1>0, <2>1
        <4> QED BY <2>1, <4>1, <4>2 DEF Progress
      <3> QED BY <3>1, <3>2
    <2>11. WaveSeq' = WaveSeq /\ BatchSize' = BatchSize
      BY <2>1, SameBatches
    <2>12. /\ completed = {j \in JobId : wave[j] < cur}
           /\ \A j \in completed : jpc[j] = "ended"
           /\ \A j \in JobId : wave[j] > cur => jpc[j] = "none"
      BY <2>1 DEF Progress, InRun
    <2>13. /\ \A j \in completed : jpc'[j] = "ended"
           /\ \A j \in JobId : wave[j] > cur => jpc'[j] = "none"
      BY <1>0, <2>5, <2>7, <2>12
    <2>14. launched' <= batch_end
      BY <1>0, <2>1
    <2>15. UNCHANGED wave
      BY <2>1 DEF graph
    <2> QED BY <2>1, <2>2, <2>10, <2>11, <2>12, <2>13, <2>14, <2>15 DEF Progress, InRun
  <1>3. CASE JoinBatch
    <2>1. /\ mpc = "launch" /\ launched = batch_end
          /\ \A k \in 1..launched : jpc[WaveSeq[k]] = "ended"
          /\ UNCHANGED <<wf, graph, cur, launched, completed, jpc>>
      BY <1>3 DEF JoinBatch, jobs
    <2>2. cur < NumJobs /\ batch_end <= Len(WaveSeq)
      BY <2>1 DEF Progress
    <2>3. /\ WaveSeq \in Seq(JobId) /\ ToSet(WaveSeq) = Wave /\ BatchSize \in Nat
          /\ Len(WaveSeq) \in 0..NumJobs
      BY <2>2, BatchFacts
    <2>4. /\ completed = {j \in JobId : wave[j] < cur}
          /\ \A j \in completed : jpc[j] = "ended"
          /\ \A j \in JobId : wave[j] > cur => jpc[j] = "none"
      BY <2>1 DEF Progress, InRun
    <2>5. WaveSeq' = WaveSeq /\ BatchSize' = BatchSize /\ wave' = wave
      BY <2>1, SameBatches DEF graph
    <2>6. CASE launched < Len(WaveSeq) /\ batch_end' = BatchEnd(launched) /\ mpc' = mpc
      <3>1. launched \in 0..Len(WaveSeq)
        BY <1>0, <2>3, <2>6
      <3>2. batch_end' \in launched..Len(WaveSeq) /\ batch_end' <= launched + BatchSize
        BY <2>2, <2>6, <3>1, BatchFacts
      <3>3. \A k \in 1..Len(WaveSeq) :
              /\ k > launched => jpc[WaveSeq[k]] = "none"
              /\ k <= batch_end' - BatchSize => jpc[WaveSeq[k]] = "ended"
        <4> TAKE k \in 1..Len(WaveSeq)
        <4>1. k <= batch_end' - BatchSize => k \in 1..launched
          <5>1. PICK e \in Int : e = batch_end'
            BY <1>0, <2>3, <3>2
          <5>2. PICK b \in Int : b = BatchSize
            BY <2>3
          <5>3. e <= launched + b /\ launched \in Int
            BY <1>0, <3>2, <5>1, <5>2
          <5>4. k <= e - b => k \in 1..launched
            BY <1>0, <2>3, <5>3
          <5> QED BY <5>1, <5>2, <5>4
        <4> QED BY <2>1, <4>1 DEF Progress
      <3>4. launched <= batch_end' /\ batch_end' <= Len(WaveSeq)
        BY <3>1, <3>2, <2>3, <1>0
      <3> QED BY <2>1, <2>2, <2>4, <2>5, <2>6, <3>3, <3>4 DEF Progress, InRun
    <2>7. CASE launched = Len(WaveSeq) /\ mpc' = "collect"
      <3>1. \A j \in JobId : wave[j] = cur => jpc[j] = "ended"
        <4> SUFFICES ASSUME NEW j \in Wave PROVE jpc[j] = "ended"
          BY DEF Wave
        <4>1. PICK k \in 1..Len(WaveSeq) : WaveSeq[k] = j
          BY <2>3, ToSetIs
        <4> QED BY <2>1, <2>7, <4>1
      <3>2. \A j \in JobId : wave[j] < cur \/ wave[j] = cur \/ wave[j] > cur
        BY <1>0
      <3>3. \A j \in JobId : jpc[j] \in {"none", "ended"}
        BY <2>4, <3>1, <3>2
      <3> QED BY <2>1, <2>2, <2>4, <2>5, <2>7, <3>1, <3>3 DEF Progress, InRun
    <2> QED BY <1>3, <2>6, <2>7 DEF JoinBatch
  <1>4. CASE Collect
    <2>1. /\ mpc = "collect" /\ UNCHANGED <<graph, jpc>>
          /\ completed' = completed \cup Wave
          /\ \/ mpc' = "returned" /\ cur' = cur
             \/ mpc' = "wave" /\ cur' = cur + 1
      BY <1>4 DEF Collect, jobs
    <2>2. /\ completed = {j \in JobId : wave[j] < cur} /\ cur < NumJobs
          /\ \A j \in completed : jpc[j] = "ended"
          /\ \A j \in JobId : wave[j] > cur => jpc[j] = "none"
          /\ \A j \in JobId : wave[j] = cur => jpc[j] = "ended"
          /\ \A j \in JobId : jpc[j] \in {"none", "ended"}
      BY <2>1 DEF Progress, InRun
    <2>3. CASE mpc' = "returned"
      BY <2>1, <2>2, <2>3 DEF Progress, InRun
    <2>4. CASE mpc' = "wave" /\ cur' = cur + 1
      <3>1. wave' = wave
        BY <2>1 DEF graph
      <3>2. completed' = {j \in JobId : wave[j] < cur + 1}
        <4>1. \A j \in JobId : wave[j] < cur + 1 <=> wave[j] < cur \/ wave[j] = cur
          BY <1>0
        <4> QED BY <2>1, <2>2, <4>1 DEF Wave
      <3>3. \A j \in completed' : jpc[j] = "ended"
        BY <2>1, <2>2 DEF Wave
      <3>4. \A j \in JobId : wave[j] > cur + 1 \/ wave[j] = cur + 1 => jpc[j] = "none"
        BY <1>0, <2>2
      <3> QED BY <2>1, <2>2, <2>4, <3>1, <3>2, <3>3, <3>4 DEF Progress, InRun
    <2> QED BY <2>1, <2>3, <2>4
  <1> QED BY <1>1, <1>2, <1>3, <1>4

\* A job's thread only moves while its batch is waited for.
LEMMA ProgressJob ==
  ASSUME IndInv, NEW j \in JobId, Register(j) \/ Execute(j) \/ Unregister(j)
  PROVE  Progress'
  <1> USE DEF IndInv
  <1>1. UNCHANGED <<wf, mpc, graph, cur, launched, batch_end, completed>>
    BY JobFrame DEF progress
  <1>2. /\ jpc[j] \notin {"none", "ended"}
        /\ \A i \in JobId : i # j => jpc'[i] = jpc[i]
    BY DEF Register, Execute, Unregister, TypeOK
  <1>3. mpc = "launch" /\ wave' = wave
    BY <1>1, <1>2 DEF Progress, graph
  <1>4. WaveSeq' = WaveSeq /\ BatchSize' = BatchSize
    BY <1>1, SameBatches
  <1>5. WaveSeq \in Seq(JobId) /\ cur < NumJobs
    BY <1>3, BatchFacts DEF Progress
  <1>6. \A k \in 1..Len(WaveSeq) :
          /\ k > launched => jpc'[WaveSeq[k]] = "none"
          /\ k <= batch_end - BatchSize => jpc'[WaveSeq[k]] = "ended"
    <2> TAKE k \in 1..Len(WaveSeq)
    <2>1. WaveSeq[k] \in JobId
      BY <1>5, ElementOfSeq
    <2> QED BY <1>2, <1>3, <2>1 DEF Progress
  <1>7. /\ completed = {i \in JobId : wave[i] < cur}
        /\ \A i \in completed : jpc'[i] = "ended"
        /\ \A i \in JobId : wave[i] > cur => jpc'[i] = "none"
    BY <1>2, <1>3 DEF Progress, InRun
  <1> QED BY <1>1, <1>3, <1>4, <1>5, <1>6, <1>7 DEF Progress, InRun

-----------------------------------------------------------------------------
(* The results *)

\* What a step of Aside does to the outcome of the command.
LEMMA AsideOutcome ==
  ASSUME Aside
  PROVE  \/ mpc' = mpc /\ success' = success /\ attempt' = attempt
         \/ mpc = "attempt" /\ mpc' = "sort" /\ attempt' = attempt + 1
         \/ mpc = "attempt" /\ mpc' = "stop" /\ success' = success /\ attempt' = attempt
         \/ /\ mpc = "returned" /\ success' = success /\ attempt' = attempt
            /\ (success => mpc' = "stop") /\ (~success => mpc' = "attempt")
         \/ /\ mpc = "stop" /\ mpc' = "join" /\ success' = success /\ attempt' = attempt
         \/ /\ mpc = "join" /\ mpc' = "exit" /\ success' = success /\ attempt' = attempt
  <1>1. CASE NextAttempt
    BY <1>1 DEF NextAttempt
  <1>2. CASE RunReturned
    BY <1>2 DEF RunReturned
  <1>3. CASE StopCancelThread \/ JoinCancelThread
    BY <1>3 DEF StopCancelThread, JoinCancelThread
  <1>4. CASE SetCancelled \/ CancelAll \/ Signal \/ UNCHANGED vars
    BY <1>4 DEF SetCancelled, CancelAll, Signal, vars
  <1> QED BY <1>1, <1>2, <1>3, <1>4 DEF Aside

\* The results stay true to what the threads left, and success to the results.
LEMMA ResultsStep ==
  ASSUME IndInv, [Next]_vars
  PROVE  Results'
  <1> USE DEF IndInv
  <1>0. attempt \in Nat
    BY AttemptsAssumption DEF TypeOK
  <1>1. CASE Aside
    <2>1. /\ UNCHANGED <<wf, wave, completed, jpc, verdict>>
          /\ mpc' # mpc => mpc' \notin {"visit", "assign", "wave", "launch", "collect"}
      BY <1>1, AsideFrame DEF graph, progress
    <2>2. CASE mpc' = mpc /\ success' = success /\ attempt' = attempt
      BY <2>1, <2>2 DEF Results, InRun
    <2>3. CASE mpc' # mpc
      <3>1. mpc' = "attempt" /\ attempt' > 0 => ~success'
        BY <1>1, <2>3, AsideOutcome
      <3>2. attempt' = 0 => mpc' \in {"attempt", "stop", "join", "exit"}
        BY <1>0, <1>1, <2>3, AsideOutcome DEF Results
      <3> QED BY <2>1, <2>3, <3>1, <3>2 DEF Results, InRun
    <2> QED BY <1>1, <2>2, <2>3, AsideOutcome
  <1>2. CASE StartSort \/ Visit \/ EndSort
    <2>1. /\ mpc \in {"sort", "visit"} /\ mpc' \in {"visit", "returned", "assign"}
          /\ jpc' = jpc /\ verdict' = verdict /\ attempt' = attempt
      BY <1>2, Zenon DEF StartSort, Visit, EndSort, jobs
    <2> QED BY <2>1 DEF Results, InRun
  <1>3. CASE AssignWave
    <2>1. mpc = "assign" /\ mpc' \in {"assign", "wave"} /\ attempt' = attempt
      BY <1>3, Zenon DEF AssignWave
    <2>2. CASE mpc' = "assign"
      <3>1. jpc' = jpc /\ verdict' = verdict
        BY <1>3, <2>1, <2>2 DEF AssignWave
      <3> QED BY <2>1, <2>2, <3>1 DEF Results, InRun
    <2>3. CASE mpc' = "wave"
      <3>1. completed' = {} /\ jpc' = [j \in JobId |-> "none"]
        BY <1>3, <2>1, <2>3 DEF AssignWave
      <3> QED BY <2>1, <2>3, <3>1 DEF Results, InRun
    <2> QED BY <2>1, <2>2, <2>3
  <1>4. CASE WaveTop \/ JoinBatch
    <2>1. /\ mpc \in {"wave", "launch"} /\ mpc' \in {"returned", "launch", "collect"}
          /\ UNCHANGED <<wf, attempt, wave, completed, jpc, verdict>>
          /\ mpc' = "returned" \/ success' = success
      BY <1>4 DEF WaveTop, JoinBatch, jobs, graph
    <2> QED BY <2>1 DEF Results, InRun
  <1>5. CASE Launch
    <2>1. /\ mpc = "launch" /\ mpc' = mpc
          /\ UNCHANGED <<wf, attempt, success, wave, completed, verdict>>
          /\ \A j \in JobId : jpc'[j] \in {"created", jpc[j]}
      BY <1>5 DEF Launch, graph, TypeOK
    <2> QED BY <2>1 DEF Results, InRun
  <1>6. CASE Collect
    <2>1. /\ mpc = "collect" /\ mpc' \in {"returned", "wave"}
          /\ completed' = completed \cup Wave
          /\ UNCHANGED <<wf, attempt, wave, jpc, verdict>>
      BY <1>6, Zenon DEF Collect, jobs, graph
    <2>2. \A j \in JobId : jpc[j] \in {"unregister", "ended"} => verdict[j] # "none"
      BY DEF Results
    <2>3. \A j \in Wave : verdict[j] \in {"success", "failure"}
      BY <2>1, <2>2 DEF Progress, Wave, TypeOK
    <2>4. \A j \in completed :
            /\ success => verdict[j] = "success"
            /\ verdict[j] = "success" \/ \E k \in JobId : wave[k] = wave[j] /\ ~wf.fail_fast[k]
      BY <2>1 DEF Results, InRun
    <2>5. ASSUME mpc' = "wave", NEW j \in completed'
          PROVE  /\ success' => verdict[j] = "success"
                 /\ verdict[j] = "success" \/ \E k \in JobId : wave[k] = wave[j] /\ ~wf.fail_fast[k]
      <3>1. CASE \E i \in Wave : verdict[i] = "failure"
        <4>1. success' = FALSE /\ ~WaveFailFast
          BY <1>6, <2>5, <3>1 DEF Collect
        <4>2. PICK k \in Wave : ~wf.fail_fast[k]
          BY <4>1 DEF WaveFailFast
        <4>3. k \in JobId /\ wave[k] = cur
          BY <4>2 DEF Wave
        <4>4. CASE j \in Wave
          BY <4>1, <4>2, <4>3, <4>4 DEF Wave
        <4> QED BY <2>1, <2>4, <2>5, <4>1, <4>4
      <3>2. CASE ~\E i \in Wave : verdict[i] = "failure"
        <4>1. success' = success
          BY <1>6, <3>2 DEF Collect
        <4>2. \A i \in Wave : verdict[i] = "success"
          BY <2>3, <3>2
        <4> QED BY <2>1, <2>4, <2>5, <4>1, <4>2
      <3> QED BY <3>1, <3>2
    <2> QED BY <2>1, <2>2, <2>5 DEF Results, InRun
  <1>7. ASSUME NEW j \in JobId, Register(j) \/ Execute(j) \/ Unregister(j)
        PROVE  Results'
    <2>1. UNCHANGED <<wf, mpc, attempt, success, wave, completed>>
      BY <1>7, JobFrame DEF graph, progress
    <2>2. /\ jpc[j] \notin {"none", "ended"}
          /\ \A i \in JobId : i # j => jpc'[i] = jpc[i] /\ verdict'[i] = verdict[i]
          /\ jpc'[j] \in {"unregister", "ended"} => verdict'[j] # "none"
      BY <1>7 DEF Register, Execute, Unregister, TypeOK, Results
    <2>3. mpc = "launch"
      BY <2>2 DEF Progress
    <2>4. completed \subseteq JobId /\ \A i \in completed : i # j
      BY <2>2, <2>3 DEF Progress, InRun, TypeOK
    <2> QED BY <2>1, <2>2, <2>3, <2>4 DEF Results, InRun
  <1> QED BY <1>1, <1>2, <1>3, <1>4, <1>5, <1>6, <1>7, NextCases DEF Aside

\* A run says success only at the end of the last wave, with every job
\* recorded; nothing between there and the end of the command changes that.
LEMMA SuccessStep ==
  ASSUME IndInv, [Next]_vars
  PROVE  SuccessIsTrue'
  <1> USE DEF IndInv
  <1> SUFFICES ASSUME mpc' \in {"returned", "stop", "join", "exit"}, success', attempt' > 0
               PROVE  \A j \in JobId : verdict'[j] = "success"
    BY DEF SuccessIsTrue
  <1>1. CASE Aside
    <2>1. verdict' = verdict /\ attempt' = attempt
      BY <1>1, AsideFrame, AsideOutcome
    <2>2. mpc \in {"returned", "stop", "join", "exit"} /\ success
      BY <1>1, <2>1, AsideOutcome DEF Results
    <2> QED BY <2>1, <2>2 DEF SuccessIsTrue
  <1>2. ASSUME StartSort \/ Visit \/ EndSort \/ AssignWave \/ Launch \/ JoinBatch \/ Collect
        PROVE  FALSE
    <2>1. CASE StartSort \/ EndSort \/ Collect
      BY <2>1 DEF StartSort, EndSort, Collect
    <2>2. CASE Visit \/ AssignWave \/ Launch \/ JoinBatch
      BY <2>2 DEF Visit, AssignWave, Launch, JoinBatch
    <2> QED BY <1>2, <2>1, <2>2
  <1>3. CASE WaveTop
    <2>1. /\ mpc = "wave" /\ verdict' = verdict /\ cur > LastWave
          /\ \A j \in completed : verdict[j] = "success"
      BY <1>3 DEF WaveTop, jobs
    <2>2. completed = {j \in JobId : wave[j] < cur}
      BY <2>1 DEF Progress, InRun
    <2>3. \A j \in JobId : wave[j] < cur
      <3> TAKE j \in JobId
      <3>1. /\ LastWave \in -1..(NumJobs - 1) /\ wave[j] <= LastWave /\ NumJobs \in Nat
            /\ wave[j] \in -1..(NumJobs - 1) /\ cur \in 0..NumJobs
        BY LastWaveFacts, JobsFinite DEF TypeOK
      <3> QED BY <2>1, <3>1
    <2> QED BY <2>1, <2>2, <2>3
  <1>4. ASSUME NEW j \in JobId, Register(j) \/ Execute(j) \/ Unregister(j)
        PROVE  FALSE
    <2>1. mpc' = mpc /\ jpc[j] \notin {"none", "ended"}
      BY <1>4, JobFrame DEF Register, Execute, Unregister
    <2> QED BY <2>1 DEF Progress
  <1> QED BY <1>1, <1>2, <1>3, <1>4, NextCases DEF Aside

-----------------------------------------------------------------------------
(* Executors and cancellation *)

\* An executor exists exactly while its thread is in the try block.
LEMMA AliveIs ==
  \A x : x \in Alive <=> \E j \in JobId : jpc[j] \in {"executing", "unregister"}
                                          /\ x = Executor(j)
  BY DEF Alive

\* Steps that move no thread into or out of its try block, within an attempt
\* or while there is none, leave the executors as they are.
LEMMA CancelKept ==
  ASSUME Registered, CancelReachesAll,
         UNCHANGED <<executors, told, thrown, cancelled, cpc, dead_use>>,
         \A j \in JobId : jpc'[j] \in {"executing", "unregister"} => jpc'[j] = jpc[j],
         \A j \in JobId : jpc[j] \in {"executing", "unregister"} => jpc'[j] = jpc[j],
         attempt' = attempt
           \/ \A j \in JobId : jpc'[j] \notin {"executing", "unregister"}
  PROVE  Registered' /\ CancelReachesAll'
  <1>1. CASE attempt' = attempt
    <2>1. \A j : Executor(j)' = Executor(j)
      BY <1>1 DEF Executor
    <2>2. Alive' = Alive
      BY <2>1 DEF Alive
    <2> QED BY <2>1, <2>2 DEF Registered, CancelReachesAll
  <1>2. CASE \A j \in JobId : jpc'[j] \notin {"executing", "unregister"}
    <2>1. Alive = {}
      BY <1>2 DEF Alive
    <2> QED BY <1>2, <2>1 DEF Registered, CancelReachesAll
  <1> QED BY <1>1, <1>2

\* cancel() and registerExecutor run under one lock: whichever is second
\* tells the executor.
LEMMA CancelStepInv ==
  ASSUME IndInv, [Next]_vars
  PROVE  Registered' /\ CancelReachesAll'
  <1> USE DEF IndInv
  <1>1. CASE NextAttempt \/ RunReturned \/ StopCancelThread \/ JoinCancelThread \/ Signal
             \/ UNCHANGED vars
    <2>1. UNCHANGED <<executors, told, thrown, cancelled, cpc, dead_use, jpc>>
      BY <1>1 DEF NextAttempt, RunReturned, StopCancelThread, JoinCancelThread, Signal,
                  vars, jobs
    <2>2. attempt' = attempt \/ mpc = "attempt"
      BY <1>1 DEF NextAttempt, RunReturned, StopCancelThread, JoinCancelThread, Signal, vars
    <2>3. mpc = "attempt" => \A j \in JobId : jpc[j] \in {"none", "ended"}
      BY DEF Progress
    <2> QED BY <2>1, <2>2, <2>3, CancelKept
  <1>2. CASE StartSort \/ Visit \/ EndSort \/ WaveTop \/ JoinBatch \/ Collect
    <2>1. UNCHANGED <<executors, told, thrown, cancelled, cpc, dead_use, jpc, attempt>>
      BY <1>2 DEF StartSort, Visit, EndSort, WaveTop, JoinBatch, Collect, jobs
    <2> QED BY <2>1, CancelKept
  <1>3. CASE AssignWave
    <2>1. /\ UNCHANGED <<executors, told, thrown, cancelled, cpc, dead_use, attempt>>
          /\ mpc = "assign" /\ \A j \in JobId : jpc'[j] \in {"none", jpc[j]}
      BY <1>3 DEF AssignWave
    <2>2. \A j \in JobId : jpc[j] \in {"none", "ended"}
      BY <2>1 DEF Progress
    <2> QED BY <2>1, <2>2, CancelKept
  <1>4. CASE Launch
    <2>1. /\ UNCHANGED <<executors, told, thrown, cancelled, cpc, dead_use, attempt>>
          /\ mpc = "launch" /\ launched < batch_end
          /\ jpc' = [jpc EXCEPT ![WaveSeq[launched + 1]] = "created"]
      BY <1>4 DEF Launch
    <2>2. /\ cur < NumJobs /\ launched \in Nat /\ batch_end \in Nat
          /\ launched <= batch_end /\ batch_end <= Len(WaveSeq)
      BY <2>1, JobsFinite DEF Progress, TypeOK
    <2>3. Len(WaveSeq) \in 0..NumJobs
      BY <2>2, BatchFacts
    <2>4. launched + 1 \in 1..Len(WaveSeq) /\ launched + 1 > launched
      BY <2>1, <2>2, <2>3, JobsFinite
    <2>5. jpc[WaveSeq[launched + 1]] = "none"
      BY <2>1, <2>4 DEF Progress
    <2>6. \A j \in JobId : jpc'[j] = jpc[j] \/ (jpc'[j] = "created" /\ jpc[j] = "none")
      BY <2>1, <2>5 DEF TypeOK
    <2> QED BY <2>1, <2>6, CancelKept
  <1>5. ASSUME NEW j \in JobId, Register(j) \/ Execute(j) \/ Unregister(j)
        PROVE  Registered' /\ CancelReachesAll'
    <2>1. UNCHANGED <<attempt, cancelled, cpc, dead_use>>
      BY <1>5, JobFrame
    <2>2. \A i : Executor(i)' = Executor(i)
      BY <2>1 DEF Executor
    <2>3. \A i \in JobId : i # j => jpc'[i] = jpc[i] /\ Executor(i) # Executor(j)
      BY <1>5 DEF Register, Execute, Unregister, TypeOK, Executor
    <2>4. \A x : x \in Alive' <=> \E i \in JobId : jpc'[i] \in {"executing", "unregister"}
                                                   /\ x = Executor(i)
      BY <2>2 DEF Alive
    <2>5. CASE Register(j)
      <3>1. /\ executors' = executors \cup {Executor(j)} /\ thrown' = thrown
            /\ told \subseteq told' /\ (cancelled => Executor(j) \in told')
            /\ jpc'[j] = "executing" /\ jpc[j] = "created"
        BY <2>5 DEF Register, TypeOK
      <3>2. Registered'
        BY <2>1, <2>2, <2>3, <2>4, <3>1, AliveIs DEF Registered
      <3> QED BY <2>1, <2>2, <2>3, <3>1, <3>2 DEF CancelReachesAll, Registered
    <2>6. CASE Execute(j)
      <3>1. /\ executors' = executors /\ told' = told /\ jpc[j] = "executing"
            /\ \/ jpc'[j] = "unregister" /\ thrown' = thrown
               \/ jpc'[j] = "ended" /\ thrown' = thrown \cup {Executor(j)}
        BY <2>6 DEF Execute, TypeOK
      <3>2. Registered'
        BY <2>1, <2>2, <2>3, <2>4, <3>1, AliveIs DEF Registered
      <3>3. \A i \in JobId : jpc'[i] = "executing" => jpc[i] = "executing"
        BY <2>3, <3>1
      <3> QED BY <2>1, <2>2, <3>1, <3>2, <3>3 DEF CancelReachesAll
    <2>7. CASE Unregister(j)
      <3>1. /\ executors' = executors \ {Executor(j)} /\ told' = told /\ thrown' = thrown
            /\ jpc'[j] = "ended" /\ jpc[j] = "unregister"
        BY <2>7 DEF Unregister, TypeOK
      <3>2. Registered'
        BY <2>1, <2>2, <2>3, <2>4, <3>1, AliveIs DEF Registered
      <3>3. \A i \in JobId : jpc'[i] = "executing" => jpc[i] = "executing"
        BY <2>3, <3>1
      <3> QED BY <2>1, <2>2, <3>1, <3>2, <3>3 DEF CancelReachesAll
    <2> QED BY <1>5, <2>5, <2>6, <2>7
  <1>6. CASE SetCancelled
    <2>1. /\ UNCHANGED <<executors, told, thrown, dead_use, jpc, attempt>>
          /\ cancelled' = TRUE /\ cpc' = "cancel"
      BY <1>6 DEF SetCancelled, jobs
    <2> QED BY <2>1 DEF Registered, CancelReachesAll, Alive, Executor
  <1>7. CASE CancelAll
    <2>1. /\ UNCHANGED <<executors, thrown, cancelled, jpc, attempt>>
          /\ told' = told \cup executors /\ cpc = "cancel" /\ cpc' = "done"
          /\ dead_use' = (executors \ Alive # {})
      BY <1>7 DEF CancelAll
    <2>2. Registered'
      BY <2>1 DEF Registered, Alive, Executor
    <2>3. executors \ Alive # {} => thrown # {}
      BY DEF Registered
    <2>4. dead_use' => thrown' # {}
      BY <2>1, <2>3
    <2> QED BY <2>1, <2>2, <2>4 DEF Registered, CancelReachesAll, Executor
  <1> QED BY <1>1, <1>2, <1>3, <1>4, <1>5, <1>6, <1>7, NextCases

-----------------------------------------------------------------------------
(* What a job that runs may rely on *)

\* A job that was started has all its needs recorded, and none of them failed
\* unless that was allowed.
LEMMA NeedsRecorded ==
  ASSUME IndInv, mpc \in {"launch", "collect"}, NEW j \in JobId, jpc[j] # "none",
         NEW n \in Needs(j)
  PROVE  /\ n \in completed /\ jpc[n] = "ended"
         /\ verdict[n] = "success" \/ \E k \in JobId : wave[k] = wave[n] /\ ~wf.fail_fast[k]
  <1> USE DEF IndInv
  <1>1. InRun /\ Schedule
    BY DEF InRun, Schedule
  <1>2. n \in JobId /\ wave[n] < wave[j] /\ wave[j] \in 0..(NumJobs - 1)
    BY <1>1, WavesFollowNeeds
  <1>3. wave[n] \in -1..(NumJobs - 1) /\ cur \in 0..NumJobs /\ NumJobs \in Nat
    BY <1>2, JobsFinite DEF TypeOK
  <1>4. ~(wave[j] > cur)
    BY <1>1 DEF Progress
  <1>5. wave[n] < cur
    BY <1>2, <1>3, <1>4
  <1>6. n \in completed /\ jpc[n] = "ended"
    BY <1>1, <1>2, <1>5 DEF Progress
  <1> QED BY <1>1, <1>6 DEF Results

\* The jobs that run at once are of one batch, so no more than its limit.
LEMMA RunningBounded ==
  ASSUME IndInv, NEW j \in JobId, jpc[j] \in {"created", "executing", "unregister"},
         wf.max_parallel[j] > 0
  PROVE  Cardinality({i \in JobId : jpc[i] \in {"created", "executing", "unregister"}})
           <= wf.max_parallel[j]
  <1> USE DEF IndInv
  <1> DEFINE R == {i \in JobId : jpc[i] \in {"created", "executing", "unregister"}}
             D == {k \in 1..Len(WaveSeq) : WaveSeq[k] \in R}
             f == [k \in D |-> WaveSeq[k]]
  <1>1. mpc = "launch"
    BY DEF Progress
  <1>2. cur < NumJobs /\ launched <= batch_end /\ batch_end <= Len(WaveSeq)
    BY <1>1 DEF Progress
  <1>3. /\ WaveSeq \in Seq(JobId) /\ ToSet(WaveSeq) = Wave /\ BatchSize \in Nat
        /\ Len(WaveSeq) \in 0..NumJobs
        /\ \A i \in Wave : wf.max_parallel[i] > 0 => BatchSize <= wf.max_parallel[i]
    BY <1>2, BatchFacts
  <1>4. R \subseteq Wave
    <2> SUFFICES ASSUME NEW i \in R PROVE wave[i] = cur
      BY DEF Wave
    <2>1. ~(wave[i] < cur) /\ ~(wave[i] > cur)
      BY <1>1 DEF Progress, InRun
    <2>2. wave[i] \in -1..(NumJobs - 1) /\ cur \in 0..NumJobs
      BY DEF TypeOK
    <2> QED BY <2>1, <2>2, JobsFinite
  <1>5. f \in Surjection(D, R)
    <2>1. \A i \in R : \E k \in D : WaveSeq[k] = i
      BY <1>3, <1>4, ToSetIs
    <2> QED BY <2>1 DEF Surjection
  <1>6. PICK b \in Nat : b = BatchSize
    BY <1>3
  <1>7. PICK m \in Int : m = batch_end - b
    BY JobsFinite DEF TypeOK
  <1>8. D \in SUBSET ((m + 1)..launched)
    <2> SUFFICES ASSUME NEW k \in D PROVE k \in (m + 1)..launched
      OBVIOUS
    <2>1. jpc[WaveSeq[k]] \notin {"none", "ended"} /\ k \in 1..Len(WaveSeq) /\ k \in Int
      OBVIOUS
    <2>2. ~(k > launched) /\ ~(k <= m)
      BY <1>1, <1>6, <1>7, <2>1 DEF Progress
    <2>3. launched \in Int
      BY JobsFinite DEF TypeOK
    <2> QED BY <1>7, <2>1, <2>2, <2>3
  <1>9. launched \in Int /\ m + 1 \in Int /\ batch_end \in Int
    BY JobsFinite DEF TypeOK
  <1>10. /\ IsFiniteSet((m + 1)..launched)
         /\ Cardinality((m + 1)..launched) =
              IF m + 1 > launched THEN 0 ELSE launched - (m + 1) + 1
    BY <1>9, FS_Interval
  <1>11. Cardinality((m + 1)..launched) <= b /\ Cardinality((m + 1)..launched) \in Nat
    BY <1>2, <1>6, <1>7, <1>9, <1>10
  <1>12. IsFiniteSet(D) /\ Cardinality(D) <= Cardinality((m + 1)..launched)
    BY <1>8, <1>10, FS_Subset
  <1> HIDE DEF D, R, f
  <1>13. Cardinality(R) <= Cardinality(D) /\ IsFiniteSet(R)
    BY <1>5, <1>12, FS_Surjection
  <1>14. Cardinality(R) \in Nat /\ Cardinality(D) \in Nat
    BY <1>12, <1>13, FS_CardinalityType
  <1>15. b <= wf.max_parallel[j]
    BY <1>3, <1>4, <1>6 DEF R
  <1>16. wf.max_parallel[j] \in Nat
    BY DEF TypeOK, WorkflowType
  <1>17. Cardinality(R) <= wf.max_parallel[j]
    BY <1>11, <1>12, <1>13, <1>14, <1>15, <1>16
  <1> QED BY <1>17 DEF R

-----------------------------------------------------------------------------
(* Theorems *)

\* The command has just begun.
LEMMA InitInv == ASSUME Init PROVE IndInv
  <1> USE DEF Init
  <1>1. NumJobs \in Nat /\ NumJobs >= 1
    BY JobsFinite
  <1>2. TypeOK
    <2>1. wf \in WorkflowType
      BY WorkflowAssumption
    <2>2. attempt \in 0..MaxAttempts
      BY AttemptsAssumption
    <2>3. /\ in_degree \in [JobId -> 0..NumJobs] /\ wave \in [JobId -> -1..(NumJobs - 1)]
          /\ cur \in 0..NumJobs /\ launched \in 0..NumJobs /\ batch_end \in 0..NumJobs
      BY <1>1
    <2>4. waves \in [0..(NumJobs - 1) -> Seq(JobId)] /\ ready \in Seq(JobId)
          /\ order \in Seq(JobId)
      BY EmptySeq
    <2> QED BY <2>1, <2>2, <2>3, <2>4 DEF TypeOK
  <1>3. Ordered /\ Kahn /\ Waved
    BY DEF Ordered, Kahn, Waved, Scheduling, InRun
  <1>4. Listed
    <2>1. <<>> \in Seq(JobId) /\ Len(<<>>) = 0
      BY EmptySeq
    <2>2. ToSet(<<>>) = {} /\ Distinct(<<>>)
      <3>1. PICK s \in Seq(JobId) : s = <<>> /\ Len(s) = 0
        BY <2>1
      <3>2. ToSet(s) = {s[k] : k \in 1..Len(s)}
        BY ToSetIs
      <3>3. 1..Len(s) = {}
        BY <3>1
      <3>4. ToSet(s) = {} /\ Distinct(s)
        BY <3>2, <3>3 DEF Distinct
      <3> QED BY <3>1, <3>4
    <2>3. \A w \in 0..(NumJobs - 1) : {j \in JobId : wave[j] = w} = {}
      BY <1>1
    <2> QED BY <2>2, <2>3 DEF Listed
  <1>5. Progress /\ Results
    BY DEF Progress, Results, InRun
  <1>6. Registered /\ SuccessIsTrue /\ CancelReachesAll
    BY DEF Registered, SuccessIsTrue, CancelReachesAll
  <1> QED BY <1>2, <1>3, <1>4, <1>5, <1>6 DEF IndInv

\* The inductive invariant holds throughout every command, for every workflow.
THEOREM OrchestratorInvariant == Spec => []IndInv
  <1>1. Init => IndInv
    BY InitInv
  <1>2. IndInv /\ [Next]_vars => IndInv'
    <2> SUFFICES ASSUME IndInv, [Next]_vars PROVE IndInv'
      OBVIOUS
    <2>1. TypeOK'
      BY NextCases, ScheduleTypeStep, RunTypeStep, OtherTypeStep DEF IndInv, Aside
    <2>2. Schedule'
      BY ScheduleStep DEF IndInv, Schedule
    <2>3. Progress'
      BY NextCases, ProgressOutside, ProgressInside, ProgressJob DEF Aside
    <2>4. Results' /\ SuccessIsTrue' /\ Registered' /\ CancelReachesAll'
      BY ResultsStep, SuccessStep, CancelStepInv
    <2> QED BY <2>1, <2>2, <2>3, <2>4 DEF IndInv, Schedule
  <1> QED BY <1>1, <1>2, PTL DEF Spec

\* Every variable keeps its type: in-degrees are never negative, and batches
\* and waves never run past the jobs there are.
THEOREM TypeCorrect == Spec => []TypeOK
  <1>1. IndInv => TypeOK
    BY DEF IndInv
  <1> QED BY <1>1, OrchestratorInvariant, PTL

\* topologicalJobOrder orders exactly the graphs without a cycle, each job
\* once and after its needs, and waveSchedule puts each job in the wave after
\* the last wave of its needs, for any number of jobs and any needs.
THEOREM SchedulesCorrectly == Spec => []ScheduleCorrect
  <1>1. IndInv => ScheduleCorrect
    BY ScheduleIsCorrect DEF IndInv, Schedule
  <1> QED BY <1>1, OrchestratorInvariant, PTL

\* A job runs only with the results of all its needs recorded, a failed one
\* only if fail-fast: false allows it, and never more jobs at once than the
\* max-parallel of any of them.
THEOREM StartsOnlyAllowed == Spec => []StartsAllowed
  <1>1. IndInv => StartsAllowed
    BY NeedsRecorded, RunningBounded DEF StartsAllowed
  <1> QED BY <1>1, OrchestratorInvariant, PTL

\* A run, and a command, that reports success has run every job, and every
\* job succeeded, after any retries and signals.
THEOREM SuccessAlwaysTrue == Spec => []SuccessIsTrue
  <1>1. IndInv => SuccessIsTrue
    BY DEF IndInv
  <1> QED BY <1>1, OrchestratorInvariant, PTL

\* Once cancel() has returned, every executor that executes has been told,
\* also one that registered while cancel() ran; and cancel() used no executor
\* that was gone unless an execute() threw.
THEOREM CancelReachesEvery == Spec => []CancelReachesAll
  <1>1. IndInv => CancelReachesAll
    BY DEF IndInv
  <1> QED BY <1>1, OrchestratorInvariant, PTL

=============================================================================
