-------------------------- MODULE ActionRunnerProofs -------------------------
(***************************************************************************)
(* Proofs about ActionRunner and the ActionCache it fetches actions from:  *)
(* what a step that uses an action reports as its result and outputs,      *)
(* which variables its processes see, and what fetchAction hands out; for  *)
(* any number of jobs, actions and base URLs, any definitions, whichever   *)
(* commands fail and whenever the runner dies.                             *)
(***************************************************************************)
EXTENDS ActionRunner, SequenceTheorems, TLAPS

-----------------------------------------------------------------------------
(* The inductive invariant: the cache *)

Whole(a) == {e \in dest[a].files : e.file # "git"} = {TopFile(a, f) : f \in File}

\* What fetchAction is doing, it does for an action; git has written nothing
\* before it runs; only a curl that runs writes to the archive.
Working ==
  /\ \A j \in Job : fpc[j] # "idle" => target[j] \in Action
  /\ \A j \in Job : fpc[j] # "cloning" => wrote[j] = {}
  /\ \A j \in zip.writers : fpc[j] = "curling"

Archive == {"curling", "unzip", "unlink"}

\* A job that is busy with an action which is not suspect is alone with it,
\* and alone with the archive.
Alone ==
  /\ \A j, k \in Job :
       j # k /\ target[j] = target[k] /\ target[j] \notin suspect /\ fpc[j] \in Busy =>
         fpc[k] \notin Busy \cup {"fetched"}
  /\ \A j, k \in Job :
       j # k /\ fpc[j] \in Archive /\ fpc[k] \in Archive => target[j] \in suspect

\* What is in the directory of an action that is not suspect, at every place
\* of fetchAction.
Stage(j) ==
  target[j] \notin suspect =>
    LET a == target[j] IN
    /\ fpc[j] = "cloning" =>
         /\ dest[a].there
         /\ {e \in dest[a].files : e.file # "git"} = {TopFile(a, f) : f \in wrote[j]}
    /\ fpc[j] \in {"curl", "curling", "unzip"} => dest[a].files = {}
    /\ fpc[j] \in {"curling", "unzip"} => zip.of \in {a, Junk}
    /\ fpc[j] \in {"unlink", "flatten"} =>
         /\ dest[a].there
         /\ dest[a].files \subseteq {TopFile(a, f) : f \in File} \cup {SubFile(a, f) : f \in File}
         /\ \A f \in File : TopFile(a, f) \in dest[a].files \/ SubFile(a, f) \in dest[a].files
    /\ fpc[j] = "fetched" => Whole(a)

Stages == \A j \in Job : Stage(j)

\* Nobody leaves half an action behind.
Left ==
  \A a \in Action \ suspect :
    (\A j \in Job : target[j] = a => fpc[j] \notin Busy) => dest[a].files = {} \/ Whole(a)

CacheInv == CacheTypeOK /\ Working /\ Alone /\ Stages /\ Left

-----------------------------------------------------------------------------
(* The inductive invariant: the steps *)

FrameType == [ref : Ref, def : Ref, coe : BOOLEAN, depth : Nat, ix : Nat \ {0}, outs : Nat]
Place == {"start", "checkGit", "checkout", "resolve", "fetch", "load",
          "dispatch", "loop", "proc", "ret", "collect", "done", "looping"}

RunnerTypes ==
  /\ [steps |-> step, host |-> host] \in Scenario
  /\ pc \in [Job -> Place]
  /\ stack \in [Job -> Seq(FrameType)]
  /\ ret \in [Job -> [ok : BOOLEAN, outs : Nat]]
  /\ procs \in [Job -> Nat] /\ seen \in [Job -> Nat]
  /\ out_file \in [Job -> Nat] /\ env_file \in [Job -> Nat] /\ env_overrides \in [Job -> Nat]
  /\ post_queue \in [Job -> Seq(Ref)]
  /\ first \in [Job -> Nat] /\ recent \in [Job -> Nat]
  /\ fatal \in [Job -> BOOLEAN] /\ threw \in [Job -> BOOLEAN]
  /\ crashes \in 0..MaxCrashes

Depth(j) == Len(stack[j])
IsComposite(f) == Def[f.def].type = "composite"

\* The stack: a frame per call, composite actions below the innermost one.
Shaped(j) ==
  /\ pc[j] \in {"start", "collect", "done"} => Depth(j) = 0
  /\ pc[j] \notin {"start", "collect", "done", "looping"} => Depth(j) # 0
  /\ pc[j] \in {"checkGit", "checkout"} => Depth(j) = 1
  /\ Depth(j) <= MaxDepth + 2
  /\ \A k \in 1..Depth(j) : stack[j][k].depth = k - 1
  /\ \A k \in 1..Depth(j) : k < Depth(j) => IsComposite(stack[j][k])
  /\ pc[j] = "loop" => IsComposite(stack[j][Depth(j)])
  /\ pc[j] \in {"loop", "proc"} /\ IsComposite(stack[j][Depth(j)]) => Depth(j) <= MaxDepth + 1

Returning == {"ret", "collect", "done"}

\* The first value of the output: the outermost of the calls under way that
\* has a value has this one, or none has any and it is what was returned.
Carried(j) ==
  \/ /\ first[j] # 0
     /\ \E k \in 1..Depth(j) :
          /\ stack[j][k].outs = first[j]
          /\ \A l \in 1..Depth(j) : l < k => stack[j][l].outs = 0
  \/ /\ \A k \in 1..Depth(j) : stack[j][k].outs = 0
     /\ first[j] = IF pc[j] \in Returning THEN ret[j].outs ELSE 0

Kept(j) ==
  /\ pc[j] = "start" => ret[j] = NoResult
  /\ pc[j] # "done" => out_file[j] = recent[j]
  /\ recent[j] # 0 => first[j] # 0
  /\ ~threw[j] /\ pc[j] # "done" => Carried(j)
  /\ ~threw[j] /\ pc[j] = "done" =>
       ret[j].outs = IF recent[j] # 0 THEN recent[j] ELSE first[j]
  /\ Depth(j) # 0 /\ (pc[j] \notin {"loop", "proc", "ret", "looping"}
                      \/ (pc[j] = "proc" /\ ~IsComposite(stack[j][Depth(j)]))) =>
       stack[j][Depth(j)].outs = 0
  /\ pc[j] = "ret" /\ stack[j][Depth(j)].outs # 0 => ret[j].outs = stack[j][Depth(j)].outs

\* A failure is fatal if none of the calls under way may fail.
Judged(j) ==
  /\ fatal[j] => pc[j] \in Returning
  /\ threw[j] => pc[j] \in {"collect", "done"}
  /\ pc[j] = "ret" =>
       (fatal[j] <=> ~ret[j].ok /\ \A k \in 2..Depth(j) : ~stack[j][k].coe)
  /\ pc[j] \in {"collect", "done"} /\ ~threw[j] => (fatal[j] <=> ~ret[j].ok)

Informed(j) ==
  /\ env_overrides[j] = env_file[j]
  /\ pc[j] = "proc" => seen[j] = env_file[j]

\* A fetch is only under way while its caller waits for it.
Waited(j) == pc[j] # "fetch" => fpc[j] \notin Busy \cup {"lookup"}

JobInv(j) == Shaped(j) /\ Kept(j) /\ Judged(j) /\ Informed(j)

IndInv ==
  /\ CacheInv /\ RunnerTypes
  /\ \A j \in Job : JobInv(j) /\ Waited(j)

-----------------------------------------------------------------------------
(* The cache *)

\* A job that is busy with an action moves on: what it leaves alone.
Moves(j) ==
  /\ fpc[j] \in Busy /\ target' = target /\ suspect \subseteq suspect'
  /\ \A k \in Job : k # j => fpc'[k] = fpc[k] /\ wrote'[k] = wrote[k]
  /\ \A a \in Action : a # target[j] => dest'[a] = dest[a]

\* A step of a job that is busy with an action keeps the invariant of the
\* cache if it does for the job itself; that it is alone with the action does
\* the rest.
LEMMA BusyStep ==
  ASSUME CacheInv, NEW j \in Job, Moves(j), CacheTypeOK',
         fpc'[j] # "idle", fpc'[j] # "cloning" => wrote'[j] = {},
         \A k \in zip'.writers : fpc'[k] = "curling",
         \/ fpc'[j] \in Archive => fpc[j] \in Archive
         \/ \A k \in Job : k # j /\ fpc[k] \in Archive =>
              target[j] \in suspect' /\ target[k] \in suspect',
         \A k \in Job : k # j /\ fpc[k] \in {"curling", "unzip"} /\ target[k] \notin suspect' =>
              zip'.of = zip.of,
         Stage(j)',
         fpc'[j] \in Busy \/ target[j] \in suspect'
           \/ dest'[target[j]].files = {} \/ Whole(target[j])'
  PROVE  CacheInv'
  <1>0. Working /\ Alone /\ Stages /\ Left
    BY DEF CacheInv
  <1>1. Working'
    BY <1>0 DEF Working, Moves, Busy
  <1>2. Alone'
    <2>1. ASSUME NEW k \in Job, NEW l \in Job, k # l, target'[k] = target'[l],
                 target'[k] \notin suspect', fpc'[k] \in Busy
          PROVE  fpc'[l] \notin Busy \cup {"fetched"}
      <3>1. target[k] = target[l] /\ target[k] \notin suspect /\ fpc[k] \in Busy
        BY <2>1 DEF Moves
      <3>2. fpc[l] \notin Busy \cup {"fetched"}
        BY <1>0, <2>1, <3>1 DEF Alone
      <3>3. l # j
        BY <3>2 DEF Moves
      <3> QED BY <3>2, <3>3 DEF Moves
    <2>2. ASSUME NEW k \in Job, NEW l \in Job, k # l, fpc'[k] \in Archive, fpc'[l] \in Archive
          PROVE  target'[k] \in suspect'
      <3>1. CASE k # j /\ l # j
        BY <1>0, <2>2, <3>1 DEF Alone, Moves
      <3>2. CASE fpc'[j] \in Archive => fpc[j] \in Archive
        <4>1. fpc[k] \in Archive /\ fpc[l] \in Archive
          BY <2>2, <3>2 DEF Moves
        <4>2. target[k] \in suspect
          BY <1>0, <2>2, <4>1 DEF Alone
        <4> QED BY <4>2 DEF Moves
      <3>3. CASE \A m \in Job : m # j /\ fpc[m] \in Archive =>
                   target[j] \in suspect' /\ target[m] \in suspect'
        <4>1. CASE k = j
          <5>1. l # j /\ fpc[l] \in Archive
            BY <2>2, <4>1 DEF Moves
          <5> QED BY <3>3, <4>1, <5>1 DEF Moves
        <4>2. CASE l = j
          <5>1. k # j /\ fpc[k] \in Archive
            BY <2>2, <4>2 DEF Moves
          <5> QED BY <3>3, <5>1 DEF Moves
        <4> QED BY <3>1, <4>1, <4>2
      <3> QED BY <3>2, <3>3
    <2> QED BY <2>1, <2>2 DEF Alone
  <1>3. Stages'
    <2>1. ASSUME NEW k \in Job, k # j PROVE Stage(k)'
      <3> SUFFICES ASSUME target'[k] \notin suspect' PROVE Stage(k)'
        BY DEF Stage
      <3>1. /\ fpc'[k] = fpc[k] /\ target'[k] = target[k] /\ wrote'[k] = wrote[k]
            /\ target[k] \notin suspect
            /\ fpc[k] \in {"curling", "unzip"} => zip'.of = zip.of
        BY <2>1 DEF Moves
      <3>2. CASE target[k] = target[j]
        <4>1. fpc'[k] \notin Busy \cup {"fetched"}
          BY <1>0, <2>1, <3>1, <3>2 DEF Alone, Moves
        <4> QED BY <4>1 DEF Stage, Busy
      <3>3. CASE target[k] # target[j] /\ fpc[k] # "idle"
        <4>1. dest'[target[k]] = dest[target[k]]
          BY <1>0, <3>3 DEF Working, Moves
        <4> QED BY <1>0, <3>1, <4>1 DEF Stages, Stage, Whole
      <3>4. CASE fpc[k] = "idle"
        BY <3>1, <3>4 DEF Stage
      <3> QED BY <3>2, <3>3, <3>4
    <2> QED BY <2>1 DEF Stages
  <1>4. Left'
    <2> SUFFICES ASSUME NEW a \in Action, a \notin suspect',
                        \A k \in Job : target'[k] = a => fpc'[k] \notin Busy
                 PROVE  dest'[a].files = {} \/ Whole(a)'
      BY DEF Left
    <2>1. CASE a = target[j]
      BY <2>1 DEF Moves
    <2>2. CASE a # target[j]
      <3>1. dest'[a] = dest[a] /\ a \notin suspect
        BY <2>2 DEF Moves
      <3>2. \A k \in Job : target[k] = a => fpc[k] \notin Busy
        BY <2>2 DEF Moves
      <3>3. dest[a].files = {} \/ Whole(a)
        BY <1>0, <3>1, <3>2 DEF Left
      <3> QED BY <3>1, <3>3 DEF Whole
    <2> QED BY <2>1, <2>2
  <1> QED BY <1>1, <1>2, <1>3, <1>4 DEF CacheInv

\* Files of an action are entries.
LEMMA EntriesAre ==
  /\ \A a \in Action, f \in File : TopFile(a, f) \in Entry /\ SubFile(a, f) \in Entry
  /\ \A a \in Action : TopFile(a, "git") \in Entry
  /\ \A e \in Entry : e.of \in Action /\ (e.at = "sub" => e.file \in File)
  BY DEF Entry, TopFile, SubFile

\* A job that is busy has an action.
LEMMA BusyTarget ==
  ASSUME CacheInv, NEW j \in Job, fpc[j] \in Busy
  PROVE  /\ target[j] \in Action /\ dest[target[j]] \in [there : BOOLEAN, files : SUBSET Entry]
         /\ dest[target[j]].files \subseteq Entry /\ Stage(j)
  <1>1. target[j] \in Action
    BY DEF CacheInv, Working, Busy
  <1> QED BY <1>1 DEF CacheInv, CacheTypeOK, Stages

\* git clone.
LEMMA CloneStep ==
  ASSUME CacheInv, NEW j \in Job,
         CloneStarts(j) \/ CloneRefused(j) \/ CloneWrites(j) \/ CloneSucceeds(j) \/ CloneFails(j)
  PROVE  CacheInv'
  <1>0. CacheTypeOK /\ Working
    BY DEF CacheInv
  <1>1. CASE CloneStarts(j)
    <2>1. fpc[j] \in Busy
      BY <1>1 DEF CloneStarts, Busy
    <2>2. target[j] \in Action
      BY <2>1, BusyTarget
    <2>3. CacheTypeOK'
      BY <1>0, <1>1, <2>2, EntriesAre DEF CloneStarts, Goto, CacheTypeOK, Busy
    <2>4. /\ fpc'[j] = "cloning" /\ wrote[j] = {} /\ wrote' = wrote /\ zip' = zip
          /\ dest'[target[j]] = [there |-> TRUE, files |-> {TopFile(target[j], "git")}]
          /\ target' = target /\ suspect' = suspect
      BY <1>0, <1>1, <2>2 DEF CloneStarts, Goto, CacheTypeOK, Working
    <2>5. Moves(j)
      BY <1>0, <1>1, <2>1 DEF CloneStarts, Goto, CacheTypeOK, Moves
    <2>6. Stage(j)'
      BY <2>4 DEF Stage, TopFile
    <2>7. \A k \in zip'.writers : fpc'[k] = "curling"
      BY <1>0, <1>1, <2>4, <2>5 DEF CloneStarts, Working, CacheTypeOK, Moves
    <2> QED BY <2>3, <2>4, <2>5, <2>6, <2>7, BusyStep DEF Busy, Archive
  <1>2. CASE CloneRefused(j)
    <2>1. fpc[j] \in Busy
      BY <1>2 DEF CloneRefused, Busy
    <2>3. CacheTypeOK'
      BY <1>0, <1>2 DEF CloneRefused, Goto, CacheTypeOK, Busy
    <2>4. fpc'[j] = "clear" /\ wrote'[j] = {} /\ zip' = zip /\ target' = target
      BY <1>0, <1>2 DEF CloneRefused, Goto, CacheTypeOK, Working
    <2>5. Moves(j)
      BY <1>0, <1>2, <2>1 DEF CloneRefused, Goto, CacheTypeOK, Moves
    <2>6. Stage(j)'
      BY <2>4 DEF Stage
    <2>7. \A k \in zip'.writers : fpc'[k] = "curling"
      BY <1>0, <1>2, <2>4, <2>5 DEF CloneRefused, Working, CacheTypeOK, Moves
    <2> QED BY <2>3, <2>4, <2>5, <2>6, <2>7, BusyStep DEF Busy, Archive
  <1>3. CASE CloneWrites(j)
    <2>1. fpc[j] \in Busy
      BY <1>3 DEF CloneWrites, Busy
    <2>2. /\ target[j] \in Action /\ Stage(j)
          /\ dest[target[j]] \in [there : BOOLEAN, files : SUBSET Entry]
      BY <2>1, BusyTarget
    <2>a. PICK f \in File \ wrote[j] :
            /\ wrote' = [wrote EXCEPT ![j] = @ \cup {f}]
            /\ dest' = [dest EXCEPT ![target[j]].files = @ \cup {TopFile(target[j], f)}]
      BY <1>3 DEF CloneWrites
    <2>b. /\ dest'[target[j]] = [dest[target[j]] EXCEPT !.files = @ \cup {TopFile(target[j], f)}]
          /\ dest' \in [Action -> [there : BOOLEAN, files : SUBSET Entry]]
      BY <1>0, <2>2, <2>a, EntriesAre DEF CacheTypeOK
    <2>3. CacheTypeOK'
      BY <1>0, <1>3, <2>a, <2>b DEF CloneWrites, CacheTypeOK
    <2>4. /\ fpc' = fpc /\ fpc[j] = "cloning" /\ zip' = zip /\ target' = target
          /\ suspect' = suspect /\ wrote'[j] = wrote[j] \cup {f}
      BY <1>0, <1>3, <2>a DEF CloneWrites, CacheTypeOK
    <2>5. Moves(j)
      BY <1>0, <1>3, <2>1, <2>a DEF CloneWrites, CacheTypeOK, Moves
    <2>6. Stage(j)'
      <3> SUFFICES ASSUME target[j] \notin suspect PROVE Stage(j)'
        BY <2>4 DEF Stage
      <3>1. /\ dest[target[j]].there
            /\ {e \in dest[target[j]].files : e.file # "git"}
                 = {TopFile(target[j], g) : g \in wrote[j]}
        BY <2>2, <2>4 DEF Stage
      <3>2. /\ dest'[target[j]].there
            /\ dest'[target[j]].files = dest[target[j]].files \cup {TopFile(target[j], f)}
        BY <2>2, <2>b, <3>1
      <3>3. TopFile(target[j], f).file # "git"
        BY DEF TopFile, File
      <3>4. {e \in dest'[target[j]].files : e.file # "git"}
              = {TopFile(target[j], g) : g \in wrote[j] \cup {f}}
        BY <3>1, <3>2, <3>3
      <3> QED BY <2>4, <3>2, <3>4 DEF Stage
    <2>7. \A k \in zip'.writers : fpc'[k] = "curling"
      BY <1>0, <2>4 DEF Working
    <2> QED BY <2>3, <2>4, <2>5, <2>6, <2>7, BusyStep DEF Busy, Archive
  <1>4. CASE CloneSucceeds(j)
    <2>1. fpc[j] \in Busy
      BY <1>4 DEF CloneSucceeds, Busy
    <2>2. target[j] \in Action /\ Stage(j)
      BY <2>1, BusyTarget
    <2>3. CacheTypeOK'
      BY <1>0, <1>4, CacheAssumption DEF CloneSucceeds, Leave, Goto, CacheTypeOK, Busy
    <2>4. /\ fpc'[j] = "fetched" /\ wrote'[j] = {} /\ zip' = zip /\ target' = target
          /\ dest' = dest /\ suspect' = suspect /\ fpc[j] = "cloning" /\ wrote[j] = File
      BY <1>0, <1>4 DEF CloneSucceeds, Leave, Goto, CacheTypeOK
    <2>5. Moves(j)
      BY <1>0, <1>4, <2>1 DEF CloneSucceeds, Leave, Goto, CacheTypeOK, Moves
    <2>6. target[j] \notin suspect => Whole(target[j])'
      BY <2>2, <2>4 DEF Stage, Whole
    <2>7. Stage(j)'
      BY <2>4, <2>6 DEF Stage
    <2>8. \A k \in zip'.writers : fpc'[k] = "curling"
      BY <1>0, <2>4, <2>5 DEF Working, CacheTypeOK, Moves
    <2> QED BY <2>3, <2>4, <2>5, <2>6, <2>7, <2>8, BusyStep DEF Archive
  <1>5. CASE CloneFails(j)
    <2>1. fpc[j] \in Busy
      BY <1>5 DEF CloneFails, Busy
    <2>3. CacheTypeOK'
      BY <1>0, <1>5 DEF CloneFails, Goto, CacheTypeOK, Busy
    <2>4. fpc'[j] = "clear" /\ wrote'[j] = {} /\ zip' = zip /\ target' = target
      BY <1>0, <1>5 DEF CloneFails, Goto, CacheTypeOK, Working
    <2>5. Moves(j)
      BY <1>0, <1>5, <2>1 DEF CloneFails, Goto, CacheTypeOK, Moves
    <2>6. Stage(j)'
      BY <2>4 DEF Stage
    <2>7. \A k \in zip'.writers : fpc'[k] = "curling"
      BY <1>0, <1>5, <2>4, <2>5 DEF CloneFails, Working, CacheTypeOK, Moves
    <2> QED BY <2>3, <2>4, <2>5, <2>6, <2>7, BusyStep DEF Busy, Archive
  <1> QED BY <1>1, <1>2, <1>3, <1>4, <1>5

\* The next way of downloading.
LEMMA NextTryIs ==
  ASSUME CacheTypeOK, NEW j \in Job
  PROVE  /\ NextTry(j)[1] \in 1..Bases /\ NextTry(j)[2] \in {"git", "tags", "archive"}
         /\ NextTry(j)[3] \in {"curl", "clone", "failed"}
  <1>1. base[j] \in 1..Bases /\ try[j] \in {"git", "tags", "archive"} /\ Bases \in Nat \ {0}
    BY CacheAssumption DEF CacheTypeOK
  <1>2. CASE try[j] = "git"
    BY <1>1, <1>2 DEF NextTry
  <1>3. CASE try[j] = "tags"
    BY <1>1, <1>3 DEF NextTry
  <1>4. CASE try[j] = "archive" /\ base[j] < Bases
    <2>1. NextTry(j) = <<base[j] + 1, "git", "clone">>
      BY <1>4 DEF NextTry
    <2> QED BY <1>1, <1>4, <2>1
  <1>5. CASE try[j] = "archive" /\ ~(base[j] < Bases)
    <2>1. NextTry(j) = <<1, "git", "failed">>
      BY <1>5 DEF NextTry
    <2> QED BY <1>1, <2>1
  <1> QED BY <1>1, <1>2, <1>3, <1>4, <1>5

\* remove_all of what a failed way has left.
LEMMA ClearStep == ASSUME CacheInv, NEW j \in Job, ClearPartial(j) PROVE CacheInv'
  <1>0. CacheTypeOK /\ Working
    BY DEF CacheInv
  <1>1. fpc[j] \in Busy
    BY DEF ClearPartial, Busy
  <1>2. target[j] \in Action
    BY <1>1, BusyTarget
  <1>3. /\ NextTry(j)[1] \in 1..Bases /\ NextTry(j)[2] \in {"git", "tags", "archive"}
        /\ NextTry(j)[3] \in {"curl", "clone", "failed"}
    BY <1>0, NextTryIs
  <1>e. dest[target[j]] \in [there : BOOLEAN, files : SUBSET Entry]
    BY <1>1, BusyTarget
  <1>d. \/ dest' = [dest EXCEPT ![target[j]] = Gone] /\ suspect' = suspect
        \/ \E left \in SUBSET (dest[target[j]].files \cap Stuck) :
             /\ dest' = [dest EXCEPT ![target[j]].files = left]
             /\ suspect' = suspect \cup {target[j]}
    BY DEF ClearPartial
  <1>4. CacheTypeOK'
    <2>1. dest' \in [Action -> [there : BOOLEAN, files : SUBSET Entry]]
      <3>1. CASE dest' = [dest EXCEPT ![target[j]] = Gone]
        BY <1>0, <3>1 DEF Gone, CacheTypeOK
      <3>2. CASE \E left \in SUBSET (dest[target[j]].files \cap Stuck) :
                   dest' = [dest EXCEPT ![target[j]].files = left]
        BY <1>0, <1>2, <1>e, <3>2 DEF CacheTypeOK
      <3> QED BY <1>d, <3>1, <3>2
    <2>2. suspect' \subseteq Action
      BY <1>0, <1>2, <1>d DEF CacheTypeOK
    <2> QED BY <1>0, <1>3, <2>1, <2>2 DEF ClearPartial, Goto, CacheTypeOK, Busy
  <1>5. /\ fpc'[j] \in {"curl", "clone", "failed"} /\ wrote'[j] = {} /\ zip' = zip
        /\ target' = target
        /\ target[j] \in suspect' \/ dest'[target[j]].files = {}
    BY <1>0, <1>2, <1>3, <1>d DEF ClearPartial, Goto, Gone, CacheTypeOK, Working
  <1>6. Moves(j)
    BY <1>0, <1>1, <1>d DEF ClearPartial, Goto, CacheTypeOK, Moves
  <1>7. Stage(j)'
    BY <1>5 DEF Stage
  <1>8. \A k \in zip'.writers : fpc'[k] = "curling"
    BY <1>0, <1>5, <1>6 DEF ClearPartial, Working, CacheTypeOK, Moves
  <1> QED BY <1>4, <1>5, <1>6, <1>7, <1>8, BusyStep DEF Archive

\* Two jobs at the archive: both of their actions are suspect.
LEMMA Rivals ==
  ASSUME CacheInv, NEW j \in Job, fpc[j] \in Archive, NEW k \in Job, k # j, fpc[k] \in Archive
  PROVE  target[j] \in suspect /\ target[k] \in suspect
  BY DEF CacheInv, Alone

\* curl starts: it is alone with the archive, or all who use it are suspect.
LEMMA CurlStartsStep == ASSUME CacheInv, NEW j \in Job, CurlStarts(j) PROVE CacheInv'
  <1> DEFINE rivals == {k \in Job \ {j} : fpc[k] \in {"curling", "unzip", "unlink"}}
  <1>0. CacheTypeOK /\ Working
    BY DEF CacheInv
  <1>1. fpc[j] \in Busy /\ fpc[j] = "curl"
    BY DEF CurlStarts, Busy
  <1>2. target[j] \in Action /\ Stage(j)
    BY <1>1, BusyTarget
  <1>3. PICK got \in {target[j], Junk} :
          zip' = IF zip.there /\ zip.writers # {}
                 THEN [zip EXCEPT !.of = IF @ = got THEN got ELSE Junk,
                                  !.writers = @ \cup {j}]
                 ELSE [there |-> TRUE, of |-> got, writers |-> {j}]
    BY DEF CurlStarts
  <1>4. zip' \in [there : BOOLEAN, of : Action \cup {Junk}, writers : SUBSET Job]
    BY <1>0, <1>2, <1>3 DEF CacheTypeOK
  <1>5. /\ rivals = {} => suspect' = suspect
        /\ rivals # {} => suspect' = suspect \cup {target[j]} \cup {target[k] : k \in rivals}
    BY DEF CurlStarts
  <1>6. suspect' \subseteq Action /\ suspect \subseteq suspect'
    <2>1. \A k \in rivals : target[k] \in Action
      BY <1>0 DEF Working
    <2> QED BY <1>0, <1>2, <1>5, <2>1 DEF CacheTypeOK
  <1>7. CacheTypeOK'
    BY <1>0, <1>4, <1>6 DEF CurlStarts, Goto, CacheTypeOK, Busy
  <1>8. /\ fpc'[j] = "curling" /\ wrote'[j] = {} /\ target' = target /\ dest' = dest
    BY <1>0, <1>1 DEF CurlStarts, Goto, CacheTypeOK, Working
  <1>9. Moves(j)
    BY <1>0, <1>1, <1>6 DEF CurlStarts, Goto, CacheTypeOK, Moves
  <1>10. \A k \in Job : k # j /\ fpc[k] \in Archive =>
           target[j] \in suspect' /\ target[k] \in suspect'
    BY <1>5 DEF Archive
  <1>11. zip'.writers \subseteq zip.writers \cup {j}
    BY <1>0, <1>3 DEF CacheTypeOK
  <1>12. \A k \in zip'.writers : fpc'[k] = "curling"
    <2>1. \A k \in zip.writers : k \in Job /\ fpc[k] = "curling" /\ k # j
      BY <1>0, <1>1 DEF Working, CacheTypeOK
    <2> QED BY <1>8, <1>9, <1>11, <2>1 DEF Moves
  <1>13. Stage(j)'
    <2> SUFFICES ASSUME target[j] \notin suspect' PROVE Stage(j)'
      BY <1>8 DEF Stage
    <2>1. rivals = {}
      BY <1>5
    <2>2. zip.writers = {}
      BY <1>0, <1>1, <2>1 DEF Working, CacheTypeOK
    <2>3. zip'.of \in {target[j], Junk}
      BY <1>3, <2>2
    <2>4. dest[target[j]].files = {}
      BY <1>1, <1>2, <1>6 DEF Stage
    <2> QED BY <1>8, <2>3, <2>4 DEF Stage
  <1> HIDE DEF rivals
  <1>14. \A k \in Job : k # j /\ fpc[k] \in {"curling", "unzip"} /\ target[k] \notin suspect' =>
           zip'.of = zip.of
    BY <1>10 DEF Archive
  <1>15. fpc'[j] \in Busy
    BY <1>8 DEF Busy
  <1> QED BY <1>7, <1>8, <1>9, <1>10, <1>12, <1>13, <1>14, <1>15, BusyStep

\* curl ends, unzip runs, the archive goes.
LEMMA ArchiveStep ==
  ASSUME CacheInv, NEW j \in Job,
         CurlFails(j) \/ CurlSucceeds(j) \/ UnzipSucceeds(j) \/ UnzipFails(j) \/ UnlinkZip(j)
  PROVE  CacheInv'
  <1>0. CacheTypeOK /\ Working
    BY DEF CacheInv
  <1>z. zip \in [there : BOOLEAN, of : Action \cup {Junk}, writers : SUBSET Job]
    BY <1>0 DEF CacheTypeOK
  <1>1. CASE CurlFails(j)
    <2>1. fpc[j] \in Busy
      BY <1>1 DEF CurlFails, Busy
    <2>2. /\ zip' \in [there : BOOLEAN, of : Action \cup {Junk}, writers : SUBSET Job]
          /\ zip'.writers = zip.writers \ {j}
          /\ j \notin zip.writers => zip'.of = zip.of
      BY <1>1, <1>z DEF CurlFails
    <2>3. CacheTypeOK'
      BY <1>0, <1>1, <2>2 DEF CurlFails, Goto, CacheTypeOK, Busy
    <2>4. fpc'[j] = "clear" /\ wrote'[j] = {} /\ target' = target
      BY <1>0, <1>1 DEF CurlFails, Goto, CacheTypeOK, Working
    <2>5. Moves(j)
      BY <1>0, <1>1, <2>1 DEF CurlFails, Goto, CacheTypeOK, Moves
    <2>6. Stage(j)'
      BY <2>4 DEF Stage
    <2>7. \A k \in zip'.writers : fpc'[k] = "curling"
      BY <1>0, <1>z, <2>2, <2>5 DEF Working, Moves
    <2>8. \A k \in Job : k # j /\ fpc[k] \in {"curling", "unzip"} /\ target[k] \notin suspect' =>
            zip'.of = zip.of
      <3>1. suspect' = suspect
        BY <1>1 DEF CurlFails
      <3>2. j \in zip.writers => fpc[j] \in Archive
        BY <1>0 DEF Working, Archive
      <3> QED BY <2>2, <3>1, <3>2, Rivals DEF Archive
    <2> QED BY <2>3, <2>4, <2>5, <2>6, <2>7, <2>8, BusyStep DEF Busy, Archive
  <1>2. CASE CurlSucceeds(j)
    <2>1. fpc[j] \in Busy /\ fpc[j] = "curling"
      BY <1>2 DEF CurlSucceeds, Busy
    <2>2. /\ zip' \in [there : BOOLEAN, of : Action \cup {Junk}, writers : SUBSET Job]
          /\ zip'.writers = zip.writers \ {j} /\ zip'.of = zip.of
      BY <1>2, <1>z DEF CurlSucceeds
    <2>3. CacheTypeOK'
      BY <1>0, <1>2, <2>2 DEF CurlSucceeds, Goto, CacheTypeOK, Busy
    <2>4. /\ fpc'[j] = "unzip" /\ wrote'[j] = {} /\ target' = target /\ dest' = dest
          /\ suspect' = suspect
      BY <1>0, <1>2 DEF CurlSucceeds, Goto, CacheTypeOK, Working
    <2>5. Moves(j)
      BY <1>0, <1>2, <2>1 DEF CurlSucceeds, Goto, CacheTypeOK, Moves
    <2>6. Stage(j)'
      <3>1. Stage(j)
        BY <2>1, BusyTarget
      <3> QED BY <2>1, <2>2, <2>4, <3>1 DEF Stage
    <2>7. \A k \in zip'.writers : fpc'[k] = "curling"
      BY <1>0, <1>z, <2>2, <2>5 DEF Working, Moves
    <2> QED BY <2>1, <2>2, <2>3, <2>4, <2>5, <2>6, <2>7, BusyStep DEF Busy, Archive
  <1>3. CASE UnzipSucceeds(j)
    <2>1. fpc[j] \in Busy /\ fpc[j] = "unzip"
      BY <1>3 DEF UnzipSucceeds, Busy
    <2>2. /\ target[j] \in Action /\ Stage(j) /\ dest[target[j]].files \subseteq Entry
      BY <2>1, BusyTarget
    <2>3. /\ dest'[target[j]] =
               [there |-> TRUE,
                files |-> dest[target[j]].files \cup {SubFile(zip.of, f) : f \in File}]
          /\ \A a \in Action : a # target[j] => dest'[a] = dest[a]
          /\ zip.of \in Action /\ zip.of # Junk
      BY <1>0, <1>3, <1>z, <2>2 DEF UnzipSucceeds, CacheTypeOK
    <2>4. {SubFile(zip.of, f) : f \in File} \subseteq Entry
      BY <2>3, EntriesAre
    <2>5. CacheTypeOK'
      BY <1>0, <1>3, <2>2, <2>4 DEF UnzipSucceeds, Goto, CacheTypeOK, Busy
    <2>6. /\ fpc'[j] = "unlink" /\ wrote'[j] = {} /\ target' = target /\ zip' = zip
          /\ suspect' = suspect
      BY <1>0, <1>3 DEF UnzipSucceeds, Goto, CacheTypeOK, Working
    <2>7. Moves(j)
      BY <1>0, <1>3, <2>1, <2>3 DEF UnzipSucceeds, Goto, CacheTypeOK, Moves
    <2>8. Stage(j)'
      <3> SUFFICES ASSUME target[j] \notin suspect PROVE Stage(j)'
        BY <2>6 DEF Stage
      <3>1. dest[target[j]].files = {} /\ zip.of = target[j]
        BY <2>1, <2>2, <2>3 DEF Stage
      <3>2. dest'[target[j]] = [there |-> TRUE, files |-> {SubFile(target[j], f) : f \in File}]
        BY <2>3, <3>1
      <3>3. /\ dest'[target[j]].there
            /\ dest'[target[j]].files = {SubFile(target[j], f) : f \in File}
        BY <3>2
      <3> QED BY <2>6, <3>3 DEF Stage
    <2>9. \A k \in zip'.writers : fpc'[k] = "curling"
      BY <1>3, <2>6 DEF UnzipSucceeds
    <2> QED BY <2>1, <2>5, <2>6, <2>7, <2>8, <2>9, BusyStep DEF Busy, Archive
  <1>4. CASE UnzipFails(j)
    <2>1. fpc[j] \in Busy /\ fpc[j] = "unzip"
      BY <1>4 DEF UnzipFails, Busy
    <2>2. target[j] \in Action /\ dest[target[j]].files \subseteq Entry
      BY <2>1, BusyTarget
    <2>3. PICK fs \in SUBSET (IF zip.there /\ zip.of # Junk THEN File ELSE {}) :
            dest' = [dest EXCEPT ![target[j]] =
                  [there |-> TRUE,
                   files |-> @.files \cup {SubFile(zip.of, f) : f \in fs}]]
      BY <1>4 DEF UnzipFails
    <2>4. {SubFile(zip.of, f) : f \in fs} \subseteq Entry
      BY <1>z, <2>3, EntriesAre
    <2>5. dest' \in [Action -> [there : BOOLEAN, files : SUBSET Entry]]
      BY <1>0, <2>2, <2>3, <2>4 DEF CacheTypeOK
    <2>6. CacheTypeOK'
      BY <1>0, <1>4, <2>5 DEF UnzipFails, Goto, CacheTypeOK, Busy
    <2>7. /\ fpc'[j] = "clear" /\ wrote'[j] = {} /\ target' = target /\ zip'.writers = {}
          /\ suspect' = suspect
      BY <1>0, <1>4 DEF UnzipFails, Goto, CacheTypeOK, Working
    <2>8. Moves(j)
      BY <1>0, <1>4, <2>1, <2>3 DEF UnzipFails, Goto, CacheTypeOK, Moves
    <2>9. Stage(j)'
      BY <2>7 DEF Stage
    <2>10. \A k \in Job : k # j /\ fpc[k] \in {"curling", "unzip"} /\ target[k] \notin suspect' =>
             zip'.of = zip.of
      BY <2>1, <2>7, Rivals DEF Archive
    <2> QED BY <2>6, <2>7, <2>8, <2>9, <2>10, BusyStep DEF Busy, Archive
  <1>5. CASE UnlinkZip(j)
    <2>1. fpc[j] \in Busy /\ fpc[j] = "unlink"
      BY <1>5 DEF UnlinkZip, Busy
    <2>2. Stage(j)
      BY <2>1, BusyTarget
    <2>3. CacheTypeOK'
      BY <1>0, <1>5 DEF UnlinkZip, Goto, CacheTypeOK, Busy
    <2>4. /\ fpc'[j] = "flatten" /\ wrote'[j] = {} /\ target' = target /\ zip'.writers = {}
          /\ suspect' = suspect /\ dest' = dest
      BY <1>0, <1>5 DEF UnlinkZip, Goto, CacheTypeOK, Working
    <2>5. Moves(j)
      BY <1>0, <1>5, <2>1 DEF UnlinkZip, Goto, CacheTypeOK, Moves
    <2>6. Stage(j)'
      BY <2>1, <2>2, <2>4 DEF Stage
    <2>7. \A k \in Job : k # j /\ fpc[k] \in {"curling", "unzip"} /\ target[k] \notin suspect' =>
            zip'.of = zip.of
      BY <2>1, <2>4, Rivals DEF Archive
    <2> QED BY <2>3, <2>4, <2>5, <2>6, <2>7, BusyStep DEF Busy, Archive
  <1> QED BY <1>1, <1>2, <1>3, <1>4, <1>5

\* The contents of the archive's directory are moved up.
LEMMA FlattenStep ==
  ASSUME CacheInv, NEW j \in Job, Flatten(j) \/ FlattenEnds(j) \/ FlattenThrows(j)
  PROVE  CacheInv'
  <1>0. CacheTypeOK /\ Working
    BY DEF CacheInv
  <1>1. fpc[j] \in Busy /\ fpc[j] = "flatten"
    BY DEF Flatten, FlattenEnds, FlattenThrows, Busy
  <1>2. /\ target[j] \in Action /\ Stage(j) /\ dest[target[j]].files \subseteq Entry
        /\ dest[target[j]] \in [there : BOOLEAN, files : SUBSET Entry]
    BY <1>1, BusyTarget
  <1>3. target[j] \notin suspect =>
          /\ dest[target[j]].there
          /\ dest[target[j]].files
               \subseteq {TopFile(target[j], f) : f \in File} \cup {SubFile(target[j], f) : f \in File}
          /\ \A f \in File : \/ TopFile(target[j], f) \in dest[target[j]].files
                             \/ SubFile(target[j], f) \in dest[target[j]].files
    BY <1>1, <1>2 DEF Stage
  <1>4. CASE Flatten(j)
    <2>1. PICK e \in Below(target[j]) :
            dest' = [dest EXCEPT ![target[j]].files =
                       (@ \ {e}) \cup {TopFile(e.of, e.file)}]
      BY <1>4 DEF Flatten
    <2>2. e \in dest[target[j]].files /\ e.at = "sub" /\ TopFile(e.of, e.file) \in Entry
      BY <1>2, <2>1, EntriesAre DEF Below
    <2>3. /\ dest'[target[j]].there = dest[target[j]].there
          /\ dest'[target[j]].files
               = (dest[target[j]].files \ {e}) \cup {TopFile(e.of, e.file)}
          /\ dest' \in [Action -> [there : BOOLEAN, files : SUBSET Entry]]
      BY <1>0, <1>2, <2>1, <2>2 DEF CacheTypeOK
    <2>4. CacheTypeOK'
      BY <1>0, <1>4, <2>3 DEF Flatten, fetching, CacheTypeOK
    <2>5. /\ fpc' = fpc /\ wrote' = wrote /\ target' = target /\ zip' = zip
          /\ suspect' = suspect /\ wrote[j] = {}
      BY <1>0, <1>1, <1>4 DEF Flatten, fetching, Working
    <2>6. Moves(j)
      BY <1>0, <1>1, <2>1, <2>5 DEF CacheTypeOK, Moves
    <2>7. Stage(j)'
      <3> SUFFICES ASSUME target[j] \notin suspect PROVE Stage(j)'
        BY <2>5 DEF Stage
      <3>1. PICK g \in File : e = SubFile(target[j], g)
        BY <1>3, <2>2 DEF TopFile, SubFile
      <3>2. TopFile(e.of, e.file) = TopFile(target[j], g)
        BY <3>1 DEF SubFile
      <3>3. \A f \in File : TopFile(target[j], f) # e /\ (f # g => SubFile(target[j], f) # e)
        BY <3>1 DEF TopFile, SubFile
      <3>4. dest'[target[j]].files
              \subseteq {TopFile(target[j], f) : f \in File} \cup {SubFile(target[j], f) : f \in File}
        BY <1>3, <2>3, <3>2
      <3>5. \A f \in File : \/ TopFile(target[j], f) \in dest'[target[j]].files
                            \/ SubFile(target[j], f) \in dest'[target[j]].files
        BY <1>3, <2>3, <3>2, <3>3
      <3> QED BY <1>1, <1>3, <2>3, <2>5, <3>4, <3>5 DEF Stage
    <2>8. \A k \in zip'.writers : fpc'[k] = "curling"
      BY <1>0, <2>5 DEF Working
    <2> QED BY <1>1, <2>4, <2>5, <2>6, <2>7, <2>8, BusyStep DEF Archive
  <1>5. CASE FlattenEnds(j)
    <2>1. CacheTypeOK'
      BY <1>0, <1>5, CacheAssumption DEF FlattenEnds, Leave, Goto, CacheTypeOK, Busy
    <2>2. /\ fpc'[j] = "fetched" /\ wrote'[j] = {} /\ target' = target /\ zip' = zip
          /\ suspect' = suspect /\ dest' = dest
      BY <1>0, <1>5 DEF FlattenEnds, Leave, Goto, CacheTypeOK
    <2>3. Moves(j)
      BY <1>0, <1>1, <1>5 DEF FlattenEnds, Leave, Goto, CacheTypeOK, Moves
    <2>4. target[j] \notin suspect => Whole(target[j])
      <3> SUFFICES ASSUME target[j] \notin suspect PROVE Whole(target[j])
        OBVIOUS
      <3>1. \A e \in dest[target[j]].files : e.file \in File
        BY <1>3 DEF TopFile, SubFile
      <3>2. Below(target[j]) = {}
        BY <1>5, <3>1 DEF FlattenEnds, File
      <3>3. \A f \in File : SubFile(target[j], f) \notin dest[target[j]].files
        BY <3>2 DEF Below, SubFile
      <3>4. dest[target[j]].files = {TopFile(target[j], f) : f \in File}
        BY <1>3, <3>3
      <3> QED BY <3>1, <3>4 DEF Whole, File
    <2>5. (target[j] \notin suspect => Whole(target[j]))'
      BY <2>2, <2>4 DEF Whole
    <2>6. Stage(j)'
      BY <2>2, <2>5 DEF Stage
    <2>7. \A k \in zip'.writers : fpc'[k] = "curling"
      BY <1>0, <1>1, <2>2, <2>3 DEF Working, CacheTypeOK, Moves
    <2> QED BY <2>1, <2>2, <2>3, <2>5, <2>6, <2>7, BusyStep DEF Archive
  <1>6. CASE FlattenThrows(j)
    <2>1. /\ suspect \subseteq suspect' /\ suspect' \subseteq Action /\ target[j] \in suspect'
      BY <1>0, <1>2, <1>3, <1>6 DEF FlattenThrows, CacheTypeOK
    <2>2. CacheTypeOK'
      BY <1>0, <1>6, <2>1, CacheAssumption DEF FlattenThrows, Leave, Goto, CacheTypeOK, Busy
    <2>3. /\ fpc'[j] = "failed" /\ wrote'[j] = {} /\ target' = target /\ zip' = zip
      BY <1>0, <1>6 DEF FlattenThrows, Leave, Goto, CacheTypeOK
    <2>4. Moves(j)
      BY <1>0, <1>1, <1>6, <2>1 DEF FlattenThrows, Leave, Goto, CacheTypeOK, Moves
    <2>5. Stage(j)'
      BY <2>3 DEF Stage
    <2>6. \A k \in zip'.writers : fpc'[k] = "curling"
      BY <1>0, <1>1, <2>3, <2>4 DEF Working, CacheTypeOK, Moves
    <2> QED BY <2>1, <2>2, <2>3, <2>4, <2>5, <2>6, BusyStep DEF Archive
  <1> QED BY <1>4, <1>5, <1>6

\* A job looks an action up.
LEMMA LookupStep == ASSUME CacheInv, NEW j \in Job, Lookup(j) PROVE CacheInv'
  <1>0. CacheTypeOK /\ Working /\ Alone /\ Stages /\ Left
    BY DEF CacheInv
  <1>1. /\ fpc[j] = "lookup" /\ fpc[j] \notin Busy /\ target[j] \in Action /\ wrote[j] = {}
        /\ target' = target /\ wrote' = wrote /\ dest' = dest /\ zip' = zip
        /\ base' = base /\ try' = try
    BY <1>0 DEF Lookup, Busy, Working
  <1>2. /\ fpc' = [fpc EXCEPT ![j] = IF CachedPath(target[j]) THEN "fetched" ELSE "clone"]
        /\ fpc'[j] = IF CachedPath(target[j]) THEN "fetched" ELSE "clone"
        /\ \A k \in Job : k # j => fpc'[k] = fpc[k]
    BY <1>0 DEF Lookup, Goto, CacheTypeOK
  <1>3. suspect' = suspect \/ suspect' = suspect \cup {target[j]}
    BY DEF Lookup
  <1>4. target[j] \notin suspect' =>
          \A k \in Job : k # j /\ target[k] = target[j] =>
            fpc[k] \notin Busy /\ (~CachedPath(target[j]) => fpc[k] # "fetched")
    BY DEF Lookup, Others
  <1>5. CacheTypeOK'
    BY <1>0, <1>1, <1>2, <1>3 DEF CacheTypeOK, Busy
  <1>6. Working'
    <2>1. \A k \in zip.writers : k \in Job /\ k # j
      BY <1>0, <1>1 DEF Working, CacheTypeOK
    <2> QED BY <1>0, <1>1, <1>2, <2>1 DEF Working
  <1>7. Alone'
    <2>1. ASSUME NEW k \in Job, NEW l \in Job, k # l, target'[k] = target'[l],
                 target'[k] \notin suspect', fpc'[k] \in Busy
          PROVE  fpc'[l] \notin Busy \cup {"fetched"}
      <3>1. CASE k = j
        <4>1. ~CachedPath(target[j])
          BY <1>2, <2>1, <3>1 DEF Busy
        <4> QED BY <1>1, <1>2, <1>4, <2>1, <3>1, <4>1
      <3>2. CASE l = j
        BY <1>1, <1>2, <1>4, <2>1, <3>2
      <3>3. CASE k # j /\ l # j
        BY <1>0, <1>1, <1>2, <1>3, <2>1, <3>3 DEF Alone
      <3> QED BY <3>1, <3>2, <3>3
    <2>2. ASSUME NEW k \in Job, NEW l \in Job, k # l, fpc'[k] \in Archive, fpc'[l] \in Archive
          PROVE  target'[k] \in suspect'
      <3>1. k # j /\ l # j
        BY <1>2, <2>2 DEF Archive
      <3> QED BY <1>0, <1>1, <1>2, <1>3, <2>2, <3>1 DEF Alone
    <2> QED BY <2>1, <2>2 DEF Alone
  <1>8. Stages'
    <2>1. ASSUME NEW k \in Job, k # j PROVE Stage(k)'
      <3>1. Stage(k) /\ fpc'[k] = fpc[k] /\ suspect \subseteq suspect'
        BY <1>0, <1>2, <1>3, <2>1 DEF Stages
      <3> QED BY <1>1, <3>1 DEF Stage, Whole
    <2>2. Stage(j)'
      <3> SUFFICES ASSUME target[j] \notin suspect', CachedPath(target[j]) PROVE Whole(target[j])
        BY <1>1, <1>2 DEF Stage, Whole
      <3>1. \A k \in Job : target[k] = target[j] => fpc[k] \notin Busy
        BY <1>1, <1>4
      <3>2. dest[target[j]].files # {}
        BY DEF CachedPath
      <3> QED BY <1>0, <1>1, <1>3, <3>1, <3>2 DEF Left
    <2> QED BY <2>1, <2>2 DEF Stages
  <1>9. Left'
    <2> SUFFICES ASSUME NEW a \in Action, a \notin suspect',
                        \A k \in Job : target'[k] = a => fpc'[k] \notin Busy
                 PROVE  (dest[a].files = {} \/ Whole(a))'
      BY DEF Left
    <2>1. \A k \in Job : target[k] = a => fpc[k] \notin Busy
      BY <1>1, <1>2
    <2>2. dest[a].files = {} \/ Whole(a)
      BY <1>0, <1>3, <2>1 DEF Left
    <2> QED BY <1>1, <2>2 DEF Whole
  <1> QED BY <1>5, <1>6, <1>7, <1>8, <1>9 DEF CacheInv

\* fetchAction is called, or the job has done with what it has returned.
Turns(j) ==
  /\ fpc[j] \notin Busy
  /\ \E p \in {"idle", "lookup"}, t \in Action \cup {None} :
       /\ fpc' = [fpc EXCEPT ![j] = p] /\ target' = [target EXCEPT ![j] = t]
       /\ p = "lookup" => t \in Action
  /\ UNCHANGED <<base, try, wrote, dest, zip, suspect>>

LEMMA TurnStep == ASSUME CacheInv, NEW j \in Job, Turns(j) PROVE CacheInv'
  <1>0. CacheTypeOK /\ Working /\ Alone /\ Stages /\ Left
    BY DEF CacheInv
  <1>1. PICK p \in {"idle", "lookup"}, t \in Action \cup {None} :
          /\ fpc' = [fpc EXCEPT ![j] = p] /\ target' = [target EXCEPT ![j] = t]
          /\ p = "lookup" => t \in Action
    BY DEF Turns
  <1>2. /\ fpc[j] \notin Busy /\ fpc'[j] = p /\ target'[j] = t
        /\ \A k \in Job : k # j => fpc'[k] = fpc[k] /\ target'[k] = target[k]
        /\ wrote' = wrote /\ dest' = dest /\ zip' = zip /\ suspect' = suspect
        /\ base' = base /\ try' = try
    BY <1>0, <1>1 DEF Turns, CacheTypeOK
  <1>3. CacheTypeOK'
    BY <1>0, <1>1, <1>2 DEF CacheTypeOK
  <1>4. Working'
    <2>1. \A k \in zip.writers : k \in Job /\ k # j
      BY <1>0, <1>2 DEF Working, CacheTypeOK, Busy
    <2>2. wrote[j] = {}
      BY <1>0, <1>2 DEF Working, Busy
    <2> QED BY <1>0, <1>1, <1>2, <2>1, <2>2 DEF Working
  <1>5. Alone'
    <2>1. fpc'[j] \notin Busy \cup {"fetched"} /\ fpc'[j] \notin Archive
      BY <1>2 DEF Busy, Archive
    <2> QED BY <1>0, <1>2, <2>1 DEF Alone
  <1>6. Stages'
    <2>1. ASSUME NEW k \in Job, k # j PROVE Stage(k)'
      <3>1. Stage(k) /\ fpc'[k] = fpc[k] /\ target'[k] = target[k]
        BY <1>0, <1>2, <2>1 DEF Stages
      <3> QED BY <1>2, <3>1 DEF Stage, Whole
    <2>2. Stage(j)'
      BY <1>2 DEF Stage
    <2> QED BY <2>1, <2>2 DEF Stages
  <1>7. Left'
    <2> SUFFICES ASSUME NEW a \in Action, a \notin suspect,
                        \A k \in Job : target'[k] = a => fpc'[k] \notin Busy
                 PROVE  (dest[a].files = {} \/ Whole(a))'
      BY <1>2 DEF Left
    <2>1. \A k \in Job : target[k] = a => fpc[k] \notin Busy
      BY <1>2
    <2>2. dest[a].files = {} \/ Whole(a)
      BY <1>0, <2>1 DEF Left
    <2> QED BY <1>2, <2>2 DEF Whole
  <1> QED BY <1>3, <1>4, <1>5, <1>6, <1>7 DEF CacheInv

\* The runner dies: what was being fetched is suspect from then on.
LEMMA CrashStep == ASSUME CacheInv, CacheCrash PROVE CacheInv'
  <1>0. CacheTypeOK /\ Working /\ Left
    BY DEF CacheInv
  <1>1. /\ \A j \in Job : fpc'[j] = "idle" /\ wrote'[j] = {} /\ target'[j] = None
        /\ dest' = dest /\ suspect \subseteq suspect' /\ zip'.writers = {}
        /\ \A j \in Job : fpc[j] \in Busy => target[j] \in suspect'
    BY <1>0 DEF CacheCrash, CacheTypeOK
  <1>2. CacheTypeOK'
    <2>1. \A j \in Job : fpc[j] \in Busy => target[j] \in Action
      BY <1>0 DEF Working, Busy
    <2>2. zip' \in [there : BOOLEAN, of : Action \cup {Junk}, writers : SUBSET Job]
      BY <1>0 DEF CacheCrash, CacheTypeOK
    <2>3. suspect' \subseteq Action
      BY <1>0, <2>1 DEF CacheCrash, CacheTypeOK
    <2>4. base' \in [Job -> 1..Bases]
      <3>1. 1 \in 1..Bases
        BY CacheAssumption
      <3> QED BY <3>1 DEF CacheCrash
    <2>5. /\ target' \in [Job -> Action \cup {None}] /\ wrote' \in [Job -> SUBSET File]
          /\ fpc' \in [Job -> Busy \cup {"idle", "lookup", "fetched", "failed"}]
          /\ try' \in [Job -> {"git", "tags", "archive"}]
          /\ dest' \in [Action -> [there : BOOLEAN, files : SUBSET Entry]]
      BY <1>0 DEF CacheCrash, CacheTypeOK
    <2> QED BY <2>2, <2>3, <2>4, <2>5 DEF CacheTypeOK
  <1>3. Working' /\ Alone' /\ Stages'
    BY <1>1 DEF Working, Alone, Stages, Stage, Busy, Archive
  <1>4. Left'
    <2> SUFFICES ASSUME NEW a \in Action, a \notin suspect'
                 PROVE  (dest[a].files = {} \/ Whole(a))'
      BY DEF Left
    <2>1. \A k \in Job : target[k] = a => fpc[k] \notin Busy
      BY <1>1
    <2>2. dest[a].files = {} \/ Whole(a)
      BY <1>0, <1>1, <2>1 DEF Left
    <2> QED BY <1>1, <2>2 DEF Whole
  <1> QED BY <1>2, <1>3, <1>4 DEF CacheInv

LEMMA FetchSteps ==
  ASSUME CacheInv, NEW j \in Job, FetchStep(j) \/ CommandStep(j) PROVE CacheInv'
  <1>1. CASE FetchStep(j)
    BY <1>1, LookupStep, ClearStep, ArchiveStep, CurlStartsStep, FlattenStep, CloneStep
       DEF FetchStep
  <1>2. CASE CommandStep(j)
    BY <1>2, CloneStep, ArchiveStep DEF CommandStep
  <1> QED BY <1>1, <1>2

LEMMA CacheSame == ASSUME CacheInv, UNCHANGED cache PROVE CacheInv'
  BY DEF cache, fetching, CacheInv, CacheTypeOK, Working, Alone, Stages, Stage, Left, Whole

-----------------------------------------------------------------------------
(* What a step of the runner does to the cache *)

LEMMA ReleaseTurns ==
  ASSUME NEW j \in Job, fpc[j] \notin Busy, Release(j) PROVE Turns(j)
  BY DEF Release, Goto, Turns

\* The runner's steps.
LEMMA RunnerCases ==
  ASSUME [Next]_vars
  PROVE  \/ \E j \in Job :
              \/ Start(j) \/ CheckGit(j) \/ CheckoutEnds(j)
              \/ Resolve(j) \/ FetchEnds(j) \/ Load(j) \/ StartComposite(j)
              \/ Refuse(j) \/ JavaScriptMissing(j) \/ StartJavaScript(j) \/ SkipSub(j)
              \/ RunSub(j) \/ CallSub(j) \/ LoopEnds(j) \/ SubEnds(j) \/ JavaScriptEnds(j)
              \/ SpawnThrows(j) \/ Returned(j) \/ StepReturned(j) \/ CollectStep(j)
              \/ EvaluationHangs(j)
         \/ \E j \in Job : (FetchStep(j) \/ CommandStep(j))
                           /\ UNCHANGED <<step, host, running, crashes>>
         \/ Crash
         \/ UNCHANGED vars
  <1>1. CASE UNCHANGED vars \/ AllDone
    BY <1>1 DEF AllDone
  <1>2. ASSUME NEW j \in Job, RunnerStep(j) \/ CacheStep(j) \/ ExternalStep(j)
        PROVE  \/ Start(j) \/ CheckGit(j) \/ CheckoutEnds(j)
               \/ Resolve(j) \/ FetchEnds(j) \/ Load(j) \/ StartComposite(j)
               \/ Refuse(j) \/ JavaScriptMissing(j) \/ StartJavaScript(j) \/ SkipSub(j)
               \/ RunSub(j) \/ CallSub(j) \/ LoopEnds(j) \/ SubEnds(j) \/ JavaScriptEnds(j)
               \/ SpawnThrows(j) \/ Returned(j) \/ StepReturned(j) \/ CollectStep(j)
               \/ EvaluationHangs(j)
               \/ (FetchStep(j) \/ CommandStep(j)) /\ UNCHANGED <<step, host, running, crashes>>
    <2>1. CASE RunnerStep(j)
      BY <2>1 DEF RunnerStep
    <2>2. CASE CacheStep(j)
      BY <2>2 DEF CacheStep
    <2>3. CASE ExternalStep(j)
      BY <2>3 DEF ExternalStep
    <2> QED BY <1>2, <2>1, <2>2, <2>3
  <1> QED BY <1>1, <1>2 DEF Next

\* Every step keeps the invariant of the cache, and a fetch under way has a
\* caller that waits for it.
LEMMA CacheStepInv ==
  ASSUME IndInv, [Next]_vars PROVE CacheInv' /\ \A k \in Job : Waited(k)'
  <1>0. /\ CacheInv /\ CacheTypeOK /\ pc \in [Job -> Place]
        /\ \A k \in Job : Waited(k)
    BY DEF IndInv, CacheInv, RunnerTypes
  <1>a. ASSUME NEW j \in Job, Turns(j), NEW p, pc' = [pc EXCEPT ![j] = p],
               p = "fetch" \/ fpc'[j] = "idle"
        PROVE  CacheInv' /\ \A k \in Job : Waited(k)'
    <2>1. CacheInv'
      BY <1>0, <1>a, TurnStep
    <2>2. \A k \in Job : k # j => pc'[k] = pc[k] /\ fpc'[k] = fpc[k]
      BY <1>0, <1>a DEF Turns, CacheTypeOK
    <2>3. pc'[j] = p
      BY <1>0, <1>a
    <2> QED BY <1>0, <1>a, <2>1, <2>2, <2>3 DEF Waited, Busy
  <1>b. ASSUME NEW j \in Job, UNCHANGED cache, NEW p, pc' = [pc EXCEPT ![j] = p],
               fpc[j] \notin Busy \cup {"lookup"}
        PROVE  CacheInv' /\ \A k \in Job : Waited(k)'
    <2>1. CacheInv' /\ fpc' = fpc
      BY <1>0, <1>b, CacheSame DEF cache, fetching
    <2>2. \A k \in Job : k # j => pc'[k] = pc[k]
      BY <1>0, <1>b
    <2> QED BY <1>0, <1>b, <2>1, <2>2 DEF Waited
  <1>r. ASSUME NEW j \in Job, Release(j), fpc[j] \notin Busy, NEW p, pc' = [pc EXCEPT ![j] = p]
        PROVE  CacheInv' /\ \A k \in Job : Waited(k)'
    <2>1. fpc'[j] = "idle"
      BY <1>0, <1>r DEF Release, Goto, CacheTypeOK
    <2> QED BY <1>a, <1>r, <2>1, ReleaseTurns
  <1>1. ASSUME NEW j \in Job,
               \/ Start(j) \/ CheckGit(j) \/ CheckoutEnds(j)
               \/ Resolve(j) \/ FetchEnds(j) \/ Load(j) \/ StartComposite(j)
               \/ Refuse(j) \/ JavaScriptMissing(j) \/ StartJavaScript(j) \/ SkipSub(j)
               \/ RunSub(j) \/ CallSub(j) \/ LoopEnds(j) \/ SubEnds(j) \/ JavaScriptEnds(j)
               \/ SpawnThrows(j) \/ Returned(j) \/ StepReturned(j) \/ CollectStep(j)
               \/ EvaluationHangs(j)
        PROVE  CacheInv' /\ \A k \in Job : Waited(k)'
    <2> DEFINE Goal == CacheInv' /\ \A k \in Job : Waited(k)'
    <2>f. pc[j] # "fetch" => fpc[j] \notin Busy \cup {"lookup"}
      BY <1>0 DEF Waited
    <2>1. CASE Start(j)
      <3>1. pc[j] # "fetch" /\ UNCHANGED cache /\ \E p : pc' = [pc EXCEPT ![j] = p]
        BY <2>1 DEF Start, PcTo
      <3> QED BY <1>b, <2>f, <3>1
    <2>2. CASE CheckGit(j) \/ CheckoutEnds(j)
      <3>1. pc[j] # "fetch" /\ UNCHANGED cache /\ \E p : pc' = [pc EXCEPT ![j] = p]
        BY <2>2 DEF CheckGit, CheckoutEnds, PcTo, Return
      <3> QED BY <1>b, <2>f, <3>1
    <2>3. CASE Resolve(j)
      <3>1. CASE /\ Top(j).ref \in Action /\ PcTo(j, "fetch")
                 /\ target' = [target EXCEPT ![j] = Top(j).ref] /\ Goto(j, "lookup")
                 /\ UNCHANGED <<base, try, wrote, dest, zip, suspect, ret, fatal>>
        <4>1. fpc[j] \notin Busy
          BY <2>3, <2>f DEF Resolve
        <4>2. Turns(j)
          BY <3>1, <4>1 DEF Goto, Turns
        <4> QED BY <1>a, <3>1, <4>2 DEF PcTo
      <3>2. CASE UNCHANGED cache /\ \E p : pc' = [pc EXCEPT ![j] = p]
        <4>1. pc[j] # "fetch"
          BY <2>3 DEF Resolve
        <4> QED BY <1>b, <2>f, <3>2, <4>1
      <3> QED BY <2>3, <3>1, <3>2 DEF Resolve, PcTo, Return
    <2>4. CASE FetchEnds(j)
      <3>1. CASE fpc[j] = "fetched" /\ PcTo(j, "load") /\ UNCHANGED cache
        BY <1>b, <3>1 DEF PcTo, Busy
      <3>2. CASE fpc[j] \in {"failed", "fetched"} /\ Return(j, FALSE, 0) /\ Release(j)
        BY <1>r, <3>2 DEF Return, PcTo, Busy
      <3> QED BY <2>4, <3>1, <3>2 DEF FetchEnds
    <2>5. CASE Load(j)
      <3>1. pc[j] # "fetch" /\ (UNCHANGED cache \/ Release(j)) /\ \E p : pc' = [pc EXCEPT ![j] = p]
        BY <2>5 DEF Load, PcTo, Return
      <3> QED BY <1>b, <1>r, <2>f, <3>1
    <2>6. CASE StartComposite(j) \/ Refuse(j) \/ JavaScriptMissing(j) \/ EvaluationHangs(j)
      <3>1. pc[j] # "fetch" /\ Release(j) /\ \E p : pc' = [pc EXCEPT ![j] = p]
        BY <2>6 DEF StartComposite, Refuse, JavaScriptMissing, EvaluationHangs, PcTo, Return
      <3> QED BY <1>r, <2>f, <3>1
    <2>7. CASE StartJavaScript(j) \/ RunSub(j) \/ CallSub(j) \/ LoopEnds(j)
      <3>1. pc[j] # "fetch" /\ UNCHANGED cache /\ \E p : pc' = [pc EXCEPT ![j] = p]
        BY <2>7 DEF StartJavaScript, RunSub, CallSub, LoopEnds, AtSub, StartProcess, PcTo, Return
      <3> QED BY <1>b, <2>f, <3>1
    <2>8. CASE SkipSub(j)
      <3>1. UNCHANGED cache /\ pc' = pc
        BY <2>8 DEF SkipSub
      <3>2. CacheInv' /\ fpc' = fpc
        BY <1>0, <3>1, CacheSame DEF cache, fetching
      <3> QED BY <1>0, <3>1, <3>2 DEF Waited
    <2>9. CASE SubEnds(j)
      <3>1. pc[j] # "fetch" /\ UNCHANGED cache /\ \E p : pc' = [pc EXCEPT ![j] = p]
        BY <2>9 DEF SubEnds, PcTo, Return
      <3> QED BY <1>b, <2>f, <3>1
    <2>10. CASE JavaScriptEnds(j)
      <3>1. pc[j] # "fetch" /\ Release(j) /\ \E p : pc' = [pc EXCEPT ![j] = p]
        BY <2>10 DEF JavaScriptEnds, PcTo, Return
      <3> QED BY <1>r, <2>f, <3>1
    <2>11. CASE SpawnThrows(j)
      <3>1. pc[j] # "fetch" /\ Release(j) /\ \E p : pc' = [pc EXCEPT ![j] = p]
        BY <2>11 DEF SpawnThrows, PcTo
      <3> QED BY <1>r, <2>f, <3>1
    <2>12. CASE Returned(j) \/ StepReturned(j) \/ CollectStep(j)
      <3>1. pc[j] # "fetch" /\ UNCHANGED cache /\ \E p : pc' = [pc EXCEPT ![j] = p]
        BY <2>12 DEF Returned, StepReturned, CollectStep, PcTo
      <3> QED BY <1>b, <2>f, <3>1
    <2> HIDE DEF Goal
    <2> QED BY <1>1, <2>1, <2>2, <2>3, <2>4, <2>5, <2>6, <2>7, <2>8, <2>9, <2>10, <2>11, <2>12
            DEF Goal
  <1>2. ASSUME NEW j \in Job, FetchStep(j) \/ CommandStep(j),
               UNCHANGED <<step, host, running, crashes>>
        PROVE  CacheInv' /\ \A k \in Job : Waited(k)'
    <2>1. CacheInv'
      BY <1>0, <1>2, FetchSteps
    <2>2. pc' = pc
      BY <1>2 DEF running
    <2>3. fpc[j] \in Busy \cup {"lookup"}
      BY <1>2 DEF FetchStep, CommandStep, Lookup, ClearPartial, UnlinkZip, CurlStarts, Flatten,
           FlattenEnds, FlattenThrows, CloneStarts, CloneRefused, CloneWrites, CloneSucceeds,
           CloneFails, CurlSucceeds, CurlFails, UnzipSucceeds, UnzipFails, Busy
    <2>4. pc[j] = "fetch"
      BY <1>0, <2>3 DEF Waited
    <2>5. \A k \in Job : k # j => fpc'[k] = fpc[k]
      <3>1. CASE FetchStep(j)
        BY <1>0, <3>1 DEF FetchStep, Lookup, ClearPartial, UnlinkZip, CurlStarts, Flatten,
           FlattenEnds, FlattenThrows, CloneStarts, CloneRefused, Goto, Leave, fetching,
           CacheTypeOK
      <3>2. CASE CommandStep(j)
        BY <1>0, <3>2 DEF CommandStep, CloneWrites, CloneSucceeds, CloneFails, CurlSucceeds,
           CurlFails, UnzipSucceeds, UnzipFails, Goto, Leave, CacheTypeOK
      <3> QED BY <1>2, <3>1, <3>2
    <2> QED BY <1>0, <2>1, <2>2, <2>4, <2>5 DEF Waited
  <1>3. CASE Crash
    <2>1. CacheInv' /\ \A k \in Job : fpc'[k] = "idle"
      BY <1>0, <1>3, CrashStep DEF Crash, CacheCrash
    <2> QED BY <2>1 DEF Waited, Busy
  <1>4. CASE UNCHANGED vars
    <2>1. UNCHANGED cache /\ pc' = pc
      BY <1>4 DEF vars, running
    <2>2. CacheInv' /\ fpc' = fpc
      BY <1>0, <2>1, CacheSame DEF cache, fetching
    <2> QED BY <1>0, <2>1, <2>2 DEF Waited
  <1> QED BY <1>1, <1>2, <1>3, <1>4, RunnerCases

-----------------------------------------------------------------------------
(* The steps: facts that their proofs share *)

\* A sequence without its last element, with another one there, and with the
\* last two gone and another one there.
LEMMA FrontIs ==
  ASSUME NEW S, NEW q \in Seq(S), NEW n \in Nat, n = Len(q), n >= 1
  PROVE  /\ Front(q) \in Seq(S) /\ Len(Front(q)) = n - 1
         /\ \A k \in 1..(n - 1) : Front(q)[k] = q[k]
  <1>1. \A k \in 1..(n - 1) : q[k] \in S
    <2>1. \A k \in 1..(n - 1) : k \in 1..Len(q)
      OBVIOUS
    <2> QED BY <2>1, ElementOfSeq
  <1>2. 1 \in Int /\ n - 1 \in Int /\ (n - 1) - 1 + 1 = n - 1
    OBVIOUS
  <1>3. /\ SubSeq(q, 1, n - 1) \in Seq(S)
        /\ Len(SubSeq(q, 1, n - 1)) = IF 1 <= n - 1 THEN (n - 1) - 1 + 1 ELSE 0
        /\ \A k \in 1..((n - 1) - 1 + 1) : SubSeq(q, 1, n - 1)[k] = q[1 + k - 1]
    BY <1>1, <1>2, SubSeqProperties
  <1>4. \A k \in 1..(n - 1) : 1 + k - 1 = k
    OBVIOUS
  <1> QED BY <1>2, <1>3, <1>4 DEF Front

LEMMA AppendIs ==
  ASSUME NEW S, NEW q \in Seq(S), NEW n \in Nat, n = Len(q), NEW e \in S
  PROVE  /\ Append(q, e) \in Seq(S) /\ Len(Append(q, e)) = n + 1
         /\ \A k \in 1..n : Append(q, e)[k] = q[k]
         /\ Append(q, e)[n + 1] = e
  BY AppendProperties

LEMMA ReplacedIs ==
  ASSUME NEW S, NEW q \in Seq(S), NEW n \in Nat, n = Len(q), n >= 1, NEW e \in S
  PROVE  /\ Append(Front(q), e) \in Seq(S) /\ Len(Append(Front(q), e)) = n
         /\ \A k \in 1..n : k # n => Append(Front(q), e)[k] = q[k]
         /\ Append(Front(q), e)[n] = e
  <1>1. /\ Front(q) \in Seq(S) /\ Len(Front(q)) = n - 1 /\ n - 1 \in Nat
        /\ \A k \in 1..(n - 1) : Front(q)[k] = q[k]
    BY FrontIs
  <1>2. /\ Append(Front(q), e) \in Seq(S) /\ Len(Append(Front(q), e)) = (n - 1) + 1
        /\ \A k \in 1..(n - 1) : Append(Front(q), e)[k] = Front(q)[k]
        /\ Append(Front(q), e)[(n - 1) + 1] = e
    BY <1>1, AppendIs
  <1>3. (n - 1) + 1 = n /\ \A k \in 1..n : k # n => k \in 1..(n - 1)
    OBVIOUS
  <1> QED BY <1>1, <1>2, <1>3

LEMMA PoppedIs ==
  ASSUME NEW S, NEW q \in Seq(S), NEW n \in Nat, n = Len(q), n > 1, NEW e \in S
  PROVE  /\ Last(Front(q)) = q[n - 1] /\ q[n - 1] \in S
         /\ Append(Front(Front(q)), e) \in Seq(S) /\ Len(Append(Front(Front(q)), e)) = n - 1
         /\ \A k \in 1..(n - 1) : k # n - 1 => Append(Front(Front(q)), e)[k] = q[k]
         /\ Append(Front(Front(q)), e)[n - 1] = e
  <1>1. /\ Front(q) \in Seq(S) /\ Len(Front(q)) = n - 1 /\ n - 1 \in Nat /\ n - 1 >= 1
        /\ \A k \in 1..(n - 1) : Front(q)[k] = q[k]
    BY FrontIs
  <1>2. n - 1 \in 1..(n - 1) /\ n - 1 \in 1..Len(q)
    BY <1>1
  <1>3. Last(Front(q)) = q[n - 1] /\ q[n - 1] \in S
    BY <1>1, <1>2, ElementOfSeq DEF Last
  <1>4. /\ Append(Front(Front(q)), e) \in Seq(S) /\ Len(Append(Front(Front(q)), e)) = n - 1
        /\ \A k \in 1..(n - 1) : k # n - 1 => Append(Front(Front(q)), e)[k] = Front(q)[k]
        /\ Append(Front(Front(q)), e)[n - 1] = e
    <2> DEFINE f == Front(q)
               m == n - 1
    <2>1. f \in Seq(S) /\ m \in Nat /\ m = Len(f) /\ m >= 1
      BY <1>1
    <2> HIDE DEF f, m
    <2>2. /\ Append(Front(f), e) \in Seq(S) /\ Len(Append(Front(f), e)) = m
          /\ \A k \in 1..m : k # m => Append(Front(f), e)[k] = f[k]
          /\ Append(Front(f), e)[m] = e
      BY <2>1, ReplacedIs, SMTT(30)
    <2> QED BY <2>2, Zenon DEF f, m
  <1> QED BY <1>1, <1>3, <1>4

\* What is known of one job.
LEMMA JobFacts ==
  ASSUME IndInv, NEW j \in Job
  PROVE  /\ JobInv(j) /\ RunnerTypes
         /\ stack[j] \in Seq(FrameType) /\ Depth(j) \in Nat
         /\ \A k \in 1..Depth(j) : stack[j][k] \in FrameType
         /\ step[j] \in [uses : Ref, coe : BOOLEAN, path : {"workspace", "existing", "missing"}]
         /\ ret[j] \in [ok : BOOLEAN, outs : Nat]
         /\ procs[j] \in Nat /\ out_file[j] \in Nat /\ env_file[j] \in Nat
         /\ fatal[j] \in BOOLEAN /\ threw[j] \in BOOLEAN
         /\ first[j] \in Nat /\ recent[j] \in Nat
         /\ pc[j] \in Place
  <1>1. RunnerTypes /\ JobInv(j)
    BY DEF IndInv
  <1>2. stack[j] \in Seq(FrameType)
    BY <1>1 DEF RunnerTypes
  <1>3. Depth(j) \in Nat /\ \A k \in 1..Depth(j) : stack[j][k] \in FrameType
    BY <1>2, LenProperties, ElementOfSeq DEF Depth
  <1>4. step[j] \in [uses : Ref, coe : BOOLEAN, path : {"workspace", "existing", "missing"}]
    <2>1. [steps |-> step, host |-> host] \in
            [steps : [Job -> [uses : Ref, coe : BOOLEAN,
                              path : {"workspace", "existing", "missing"}]],
             host : SUBSET {"git", "node"}]
      BY <1>1, RunnerAssumption DEF RunnerTypes
    <2>2. step \in [Job -> [uses : Ref, coe : BOOLEAN,
                            path : {"workspace", "existing", "missing"}]]
      BY <2>1
    <2> QED BY <2>2
  <1>5. /\ ret[j] \in [ok : BOOLEAN, outs : Nat]
        /\ procs[j] \in Nat /\ out_file[j] \in Nat /\ env_file[j] \in Nat
        /\ fatal[j] \in BOOLEAN /\ threw[j] \in BOOLEAN
        /\ first[j] \in Nat /\ recent[j] \in Nat
        /\ pc[j] \in Place
    BY <1>1 DEF RunnerTypes
  <1> QED BY <1>1, <1>2, <1>3, <1>4, <1>5

\* The innermost call.
LEMMA TopFacts ==
  ASSUME IndInv, NEW j \in Job, Depth(j) # 0
  PROVE  /\ Depth(j) >= 1 /\ Depth(j) \in 1..Depth(j)
         /\ Top(j) = stack[j][Depth(j)] /\ Top(j) \in FrameType
         /\ Top(j).ref \in Ref /\ Top(j).def \in Ref /\ Top(j).coe \in BOOLEAN
         /\ Top(j).depth \in Nat /\ Top(j).depth = Depth(j) - 1
         /\ Top(j).ix \in Nat \ {0} /\ Top(j).outs \in Nat
         /\ ADef(j) \in Definition
         /\ (ADef(j).type = "composite" <=> IsComposite(stack[j][Depth(j)]))
  <1>1. Depth(j) \in Nat /\ \A k \in 1..Depth(j) : stack[j][k] \in FrameType
    BY JobFacts
  <1>2. Depth(j) >= 1 /\ Depth(j) \in 1..Depth(j)
    BY <1>1
  <1>3. Top(j) = stack[j][Depth(j)]
    BY DEF Top, Last, Depth
  <1>4. Top(j) \in FrameType
    BY <1>1, <1>2, <1>3
  <1>5. Top(j).depth = Depth(j) - 1
    BY <1>2, <1>3, JobFacts DEF JobInv, Shaped
  <1>6. ADef(j) \in Definition
    BY <1>4, RunnerAssumption DEF ADef, FrameType
  <1> QED BY <1>2, <1>3, <1>4, <1>5, <1>6 DEF FrameType, ADef, IsComposite

\* A job that a step leaves alone keeps its invariant.
Same(k) ==
  /\ pc'[k] = pc[k] /\ stack'[k] = stack[k] /\ ret'[k] = ret[k] /\ seen'[k] = seen[k]
  /\ out_file'[k] = out_file[k] /\ env_file'[k] = env_file[k]
  /\ env_overrides'[k] = env_overrides[k]
  /\ first'[k] = first[k] /\ recent'[k] = recent[k]
  /\ fatal'[k] = fatal[k] /\ threw'[k] = threw[k]

LEMMA SameInv == ASSUME NEW k \in Job, JobInv(k), Same(k) PROVE JobInv(k)'
  <1>1. Depth(k)' = Depth(k)
    BY DEF Same, Depth
  <1>2. Shaped(k)'
    BY <1>1 DEF JobInv, Same, Shaped, IsComposite
  <1>3. Kept(k)'
    BY <1>1 DEF JobInv, Same, Kept, Carried, IsComposite, NoResult
  <1>4. Judged(k)'
    BY <1>1 DEF JobInv, Same, Judged
  <1>5. Informed(k)'
    BY DEF JobInv, Same, Informed
  <1> QED BY <1>2, <1>3, <1>4, <1>5 DEF JobInv

\* A call returns.
LEMMA ReturnIs ==
  ASSUME IndInv, NEW j \in Job, NEW ok \in BOOLEAN, NEW outs \in Nat, Return(j, ok, outs),
         pc[j] \notin Returning
  PROVE  /\ pc' \in [Job -> Place] /\ ret' \in [Job -> [ok : BOOLEAN, outs : Nat]]
         /\ fatal' \in [Job -> BOOLEAN]
         /\ pc'[j] = "ret" /\ ret'[j].ok = ok /\ ret'[j].outs = outs
         /\ fatal'[j] <=> (~ok /\ \A k \in 2..Depth(j) : ~stack[j][k].coe)
         /\ \A k \in Job : k # j => pc'[k] = pc[k] /\ ret'[k] = ret[k] /\ fatal'[k] = fatal[k]
  <1>1. RunnerTypes /\ ~fatal[j]
    BY JobFacts DEF JobInv, Judged
  <1>2. PICK b \in BOOLEAN : b <=> (~ok /\ \A k \in 2..Depth(j) : ~stack[j][k].coe)
    OBVIOUS
  <1>3. fatal' = [fatal EXCEPT ![j] = b]
    <2>1. fatal' = [fatal EXCEPT ![j] =
                      fatal[j] \/ (~ok /\ \A k \in 2..Len(stack[j]) : ~stack[j][k].coe)]
      BY DEF Return
    <2>2. (fatal[j] \/ (~ok /\ \A k \in 2..Len(stack[j]) : ~stack[j][k].coe)) = b
      BY <1>1, <1>2, Zenon DEF Depth
    <2> QED BY <2>1, <2>2, Zenon
  <1>4. pc' = [pc EXCEPT ![j] = "ret"] /\ ret' = [ret EXCEPT ![j] = [ok |-> ok, outs |-> outs]]
    BY DEF Return, PcTo
  <1>5. pc' \in [Job -> Place] /\ pc'[j] = "ret" /\ \A k \in Job : k # j => pc'[k] = pc[k]
    BY <1>1, <1>4 DEF RunnerTypes, Place
  <1>6. /\ ret' \in [Job -> [ok : BOOLEAN, outs : Nat]]
        /\ ret'[j].ok = ok /\ ret'[j].outs = outs /\ \A k \in Job : k # j => ret'[k] = ret[k]
    BY <1>1, <1>4 DEF RunnerTypes
  <1>7. /\ fatal' \in [Job -> BOOLEAN] /\ fatal'[j] = b
        /\ \A k \in Job : k # j => fatal'[k] = fatal[k]
    BY <1>1, <1>3 DEF RunnerTypes
  <1> QED BY <1>2, <1>5, <1>6, <1>7

\* The stack and the verdict after a return that leaves the calls as they are.
LEMMA ReturnKeeps ==
  ASSUME IndInv, NEW j \in Job, NEW ok \in BOOLEAN, NEW outs \in Nat, Return(j, ok, outs),
         pc[j] \notin Returning, threw' = threw, Depth(j) # 0, Depth(j)' = Depth(j),
         \A k \in 1..Depth(j) : /\ stack'[j][k].coe = stack[j][k].coe
                                /\ stack'[j][k].depth = stack[j][k].depth
                                /\ k < Depth(j) => stack'[j][k] = stack[j][k]
  PROVE  Shaped(j)' /\ Judged(j)'
  <1>1. Shaped(j) /\ Judged(j) /\ Depth(j) \in Nat
    BY JobFacts DEF JobInv
  <1>2. /\ pc'[j] = "ret" /\ ret'[j].ok = ok
        /\ fatal'[j] <=> (~ok /\ \A k \in 2..Depth(j) : ~stack[j][k].coe)
    BY ReturnIs
  <1>3. ~threw[j]
    BY <1>1 DEF Judged, Returning
  <1>4. \A k \in 2..Depth(j) : k \in 1..Depth(j)
    BY <1>1
  <1>5. Judged(j)'
    BY <1>2, <1>3, <1>4 DEF Judged, Returning
  <1>6. Shaped(j)'
    BY <1>1, <1>2 DEF Shaped, IsComposite
  <1> QED BY <1>5, <1>6

-----------------------------------------------------------------------------
(* The steps, one by one *)

Done(j) == RunnerTypes' /\ JobInv(j)' /\ \A k \in Job : k # j => Same(k)

Early == {"checkGit", "checkout", "resolve", "fetch", "load", "dispatch"}

\* Before an action's process or loop nothing is written: it returns without
\* outputs, or goes on.
LEMMA EarlyReturn ==
  ASSUME IndInv, NEW j \in Job, pc[j] \in Early, NEW ok \in BOOLEAN, Return(j, ok, 0),
         UNCHANGED <<step, host, stack, procs, seen, files, first, recent, threw, crashes>>,
         post_queue' \in [Job -> Seq(Ref)]
  PROVE  Done(j)
  <1>0. RunnerTypes /\ JobInv(j) /\ Depth(j) \in Nat
    BY JobFacts
  <1>1. pc[j] \notin Returning \cup {"start"} /\ 0 \in Nat /\ Depth(j) # 0
    BY <1>0 DEF Early, Returning, JobInv, Shaped
  <1>2. /\ pc' \in [Job -> Place] /\ ret' \in [Job -> [ok : BOOLEAN, outs : Nat]]
        /\ fatal' \in [Job -> BOOLEAN]
        /\ pc'[j] = "ret" /\ ret'[j].ok = ok /\ ret'[j].outs = 0
        /\ \A k \in Job : k # j => pc'[k] = pc[k] /\ ret'[k] = ret[k] /\ fatal'[k] = fatal[k]
    BY <1>1, ReturnIs
  <1>3. RunnerTypes'
    BY <1>0, <1>2 DEF RunnerTypes, files
  <1>4. Depth(j)' = Depth(j)
    BY DEF Depth
  <1>5. Shaped(j)' /\ Judged(j)'
    BY <1>1, <1>4, ReturnKeeps
  <1>6. stack[j][Depth(j)].outs = 0
    BY <1>0, <1>1 DEF JobInv, Kept, Early
  <1>7. Carried(j)' <=> Carried(j)
    BY <1>1, <1>2, <1>4 DEF Carried, Returning
  <1>8. Kept(j)'
    BY <1>0, <1>1, <1>2, <1>4, <1>6, <1>7 DEF JobInv, Kept, files, Returning
  <1>9. Informed(j)'
    BY <1>0, <1>2 DEF JobInv, Informed, files
  <1>10. \A k \in Job : k # j => Same(k)
    BY <1>2 DEF Same, files
  <1> QED BY <1>3, <1>5, <1>8, <1>9, <1>10 DEF Done, JobInv

LEMMA EarlyGoesOn ==
  ASSUME IndInv, NEW j \in Job, pc[j] \in Early, NEW p \in {"checkout", "fetch", "load"},
         PcTo(j, p), p = "checkout" => pc[j] = "checkGit",
         UNCHANGED <<step, host, stack, ret, procs, seen, files, post_queue, history, crashes>>
  PROVE  Done(j)
  <1>0. RunnerTypes /\ JobInv(j)
    BY JobFacts
  <1>1. /\ pc' \in [Job -> Place] /\ pc'[j] = p /\ \A k \in Job : k # j => pc'[k] = pc[k]
    BY <1>0 DEF PcTo, RunnerTypes, Place
  <1>2. RunnerTypes'
    BY <1>0, <1>1 DEF RunnerTypes, files, history
  <1>3. Depth(j)' = Depth(j)
    BY DEF Depth
  <1>4. Shaped(j)'
    BY <1>0, <1>1, <1>3 DEF JobInv, Shaped, Early, IsComposite
  <1>5. Carried(j)' <=> Carried(j)
    BY <1>1, <1>3 DEF Carried, history, Returning, Early
  <1>6. Kept(j)'
    BY <1>0, <1>1, <1>3, <1>5 DEF JobInv, Kept, Early, files, history
  <1>7. Judged(j)'
    BY <1>0, <1>1, <1>3 DEF JobInv, Judged, Early, Returning, history
  <1>8. Informed(j)'
    BY <1>0, <1>1 DEF JobInv, Informed, files
  <1>9. \A k \in Job : k # j => Same(k)
    BY <1>1 DEF Same, files, history
  <1> QED BY <1>2, <1>4, <1>6, <1>7, <1>8, <1>9 DEF Done, JobInv

\* An action that runs is called by the workflow.
LEMMA StartDone == ASSUME IndInv, NEW j \in Job, Start(j) PROVE Done(j)
  <1>0. /\ RunnerTypes /\ JobInv(j) /\ step[j].uses \in Ref /\ step[j].coe \in BOOLEAN
        /\ stack[j] \in Seq(FrameType) /\ Depth(j) \in Nat
    BY JobFacts
  <1> DEFINE f == Frame(step[j].uses, step[j].coe, 0)
  <1>1. f \in FrameType /\ f.depth = 0 /\ f.outs = 0
    BY <1>0 DEF Frame, FrameType
  <1>2. /\ pc[j] = "start" /\ stack' = [stack EXCEPT ![j] = <<f>>]
        /\ \E p \in {"checkGit", "ret", "resolve"} : pc' = [pc EXCEPT ![j] = p]
        /\ UNCHANGED <<step, host, ret, procs, seen, files, post_queue, history, crashes>>
    <2>1. CASE Def[step[j].uses].builtin = "checkout"
      BY <2>1 DEF Start, PcTo
    <2>2. CASE Def[step[j].uses].builtin = "node" /\ "node" \notin host
      BY <2>2 DEF Start, PcTo
    <2>3. CASE ~(Def[step[j].uses].builtin = "checkout")
               /\ ~(Def[step[j].uses].builtin = "node" /\ "node" \notin host)
      BY <2>3 DEF Start, PcTo
    <2> QED BY <2>1, <2>2, <2>3
  <1> HIDE DEF f
  <1>3. <<f>> \in Seq(FrameType) /\ Len(<<f>>) = 1 /\ <<f>>[1] = f
    BY <1>1
  <1>4. PICK p \in {"checkGit", "ret", "resolve"} : pc' = [pc EXCEPT ![j] = p]
    BY <1>2
  <1>5. /\ pc' \in [Job -> Place] /\ pc'[j] = p /\ \A k \in Job : k # j => pc'[k] = pc[k]
    BY <1>0, <1>4 DEF RunnerTypes, Place
  <1>6. /\ stack' \in [Job -> Seq(FrameType)] /\ stack'[j] = <<f>>
        /\ \A k \in Job : k # j => stack'[k] = stack[k]
    BY <1>0, <1>2, <1>3 DEF RunnerTypes
  <1>7. RunnerTypes'
    BY <1>0, <1>2, <1>5, <1>6 DEF RunnerTypes, files, history
  <1>8. Depth(j)' = 1 /\ Depth(j) = 0 /\ MaxDepth \in Nat
    BY <1>0, <1>2, <1>3, <1>6, RunnerAssumption DEF Depth, JobInv, Shaped
  <1>9. \A k \in 1..1 : k = 1 /\ stack'[j][k] = f /\ stack'[j][k].depth = k - 1
    BY <1>1, <1>3, <1>6
  <1>10. Shaped(j)'
    BY <1>5, <1>8, <1>9 DEF Shaped
  <1>11. ret'[j] = NoResult /\ ~fatal'[j] /\ ~threw'[j] /\ out_file'[j] = out_file[j]
    BY <1>0, <1>2 DEF JobInv, Kept, Judged, Returning, history, files
  <1>12. ret'[j].ok /\ ret'[j].outs = 0
    BY <1>11 DEF NoResult
  <1>13. Carried(j)' <=> Carried(j)
    <2>1. Carried(j)' <=> first[j] = 0
      BY <1>1, <1>2, <1>8, <1>9, <1>12 DEF Carried, history
    <2>2. \A k \in 1..Depth(j) : FALSE
      BY <1>8
    <2>3. Carried(j) <=> first[j] = 0
      BY <1>2, <2>2 DEF Carried, Returning
    <2> QED BY <2>1, <2>3
  <1>14. Kept(j)'
    <2>1. stack'[j][1].outs = 0
      BY <1>1, <1>9
    <2> QED BY <1>0, <1>2, <1>5, <1>8, <1>11, <1>13, <2>1 DEF JobInv, Kept, files, history
  <1>15. Judged(j)'
    BY <1>5, <1>11, <1>12 DEF Judged
  <1>16. Informed(j)'
    BY <1>0, <1>2, <1>5 DEF JobInv, Informed, files
  <1>17. \A k \in Job : k # j => Same(k)
    BY <1>2, <1>5, <1>6 DEF Same, files, history
  <1> QED BY <1>7, <1>10, <1>14, <1>15, <1>16, <1>17 DEF Done, JobInv

\* The built-in checkout.
LEMMA CheckDone == ASSUME IndInv, NEW j \in Job, CheckGit(j) \/ CheckoutEnds(j) PROVE Done(j)
  <1>0. RunnerTypes /\ step[j].coe \in BOOLEAN
    BY JobFacts
  <1>1. post_queue' \in [Job -> Seq(Ref)]
    BY <1>0 DEF CheckGit, CheckoutEnds, RunnerTypes
  <1>2. CASE CheckGit(j)
    <2>1. CASE PcTo(j, "checkout") /\ UNCHANGED <<ret, fatal>>
      BY <1>2, <2>1, EarlyGoesOn DEF CheckGit, Early, history
    <2>2. CASE Return(j, TRUE, 0)
      BY <1>1, <1>2, <2>2, EarlyReturn DEF CheckGit, Early
    <2> QED BY <1>2, <2>1, <2>2 DEF CheckGit
  <1>3. CASE CheckoutEnds(j)
    <2>1. \E ok \in BOOLEAN : Return(j, ok, 0)
      BY <1>0, <1>3 DEF CheckoutEnds
    <2> QED BY <1>1, <1>3, <2>1, EarlyReturn DEF CheckoutEnds, Early
  <1> QED BY <1>2, <1>3

\* Finding the action.
LEMMA ResolveDone == ASSUME IndInv, NEW j \in Job, Resolve(j) \/ FetchEnds(j) PROVE Done(j)
  <1>0. RunnerTypes
    BY JobFacts
  <1>1. post_queue' \in [Job -> Seq(Ref)]
    BY <1>0 DEF Resolve, FetchEnds, RunnerTypes
  <1>2. CASE Resolve(j)
    <2>1. CASE (PcTo(j, "fetch") \/ PcTo(j, "load")) /\ UNCHANGED <<ret, fatal>>
      BY <1>2, <2>1, EarlyGoesOn DEF Resolve, Early, history
    <2>2. CASE Return(j, FALSE, 0)
      BY <1>1, <1>2, <2>2, EarlyReturn DEF Resolve, Early
    <2> QED BY <1>2, <2>1, <2>2 DEF Resolve
  <1>3. CASE FetchEnds(j)
    <2>1. CASE PcTo(j, "load") /\ UNCHANGED <<ret, fatal>>
      BY <1>3, <2>1, EarlyGoesOn DEF FetchEnds, Early, history
    <2>2. CASE Return(j, FALSE, 0)
      BY <1>1, <1>3, <2>2, EarlyReturn DEF FetchEnds, Early
    <2> QED BY <1>3, <2>1, <2>2 DEF FetchEnds
  <1> QED BY <1>2, <1>3

\* Registering a post script, or not.
LEMMA WithPostIs ==
  ASSUME IndInv, NEW j \in Job, Depth(j) # 0 PROVE WithPost(j) \in [Job -> Seq(Ref)]
  <1>1. Top(j).def \in Ref
    BY TopFacts
  <1>2. post_queue \in [Job -> Seq(Ref)]
    BY JobFacts DEF RunnerTypes
  <1>3. Append(post_queue[j], Top(j).def) \in Seq(Ref)
    BY <1>1, <1>2, AppendProperties
  <1> QED BY <1>2, <1>3 DEF WithPost

\* Refusing an action.
LEMMA RefuseDone ==
  ASSUME IndInv, NEW j \in Job, Refuse(j) \/ JavaScriptMissing(j) PROVE Done(j)
  <1>0. RunnerTypes /\ pc[j] = "dispatch" /\ Depth(j) # 0
    BY JobFacts DEF Refuse, JavaScriptMissing, JobInv, Shaped
  <1>1. Top(j).coe \in BOOLEAN
    BY <1>0, TopFacts
  <1>2. CASE Refuse(j)
    <2>1. post_queue' \in [Job -> Seq(Ref)]
      BY <1>0, <1>2 DEF Refuse, RunnerTypes
    <2>2. (ADef(j).type = "docker" /\ Top(j).coe) \in BOOLEAN
      BY Zenon
    <2>3. \E ok \in BOOLEAN : Return(j, ok, 0)
      BY <1>2, <2>2 DEF Refuse
    <2> QED BY <1>0, <1>2, <2>1, <2>3, EarlyReturn DEF Refuse, Early
  <1>3. CASE JavaScriptMissing(j)
    <2>1. post_queue' \in [Job -> Seq(Ref)]
      BY <1>0, <1>3, WithPostIs DEF JavaScriptMissing, RunnerTypes
    <2>2. \E ok \in BOOLEAN : Return(j, ok, 0)
      BY <1>1, <1>3 DEF JavaScriptMissing
    <2> QED BY <1>0, <1>3, <2>1, <2>2, EarlyReturn DEF JavaScriptMissing, Early
  <1> QED BY <1>2, <1>3

\* The innermost frame is replaced.
LEMMA TopSet ==
  ASSUME IndInv, NEW j \in Job, Depth(j) # 0, NEW f \in FrameType, SetTop(j, f)
  PROVE  /\ stack' \in [Job -> Seq(FrameType)] /\ Depth(j)' = Depth(j)
         /\ \A k \in 1..Depth(j) : k # Depth(j) => stack'[j][k] = stack[j][k]
         /\ stack'[j][Depth(j)] = f
         /\ \A k \in Job : k # j => stack'[k] = stack[k]
  <1>0. RunnerTypes /\ stack[j] \in Seq(FrameType) /\ Depth(j) \in Nat
    BY JobFacts
  <1>1. /\ Append(Front(stack[j]), f) \in Seq(FrameType)
        /\ Len(Append(Front(stack[j]), f)) = Depth(j)
        /\ \A k \in 1..Depth(j) : k # Depth(j) => Append(Front(stack[j]), f)[k] = stack[j][k]
        /\ Append(Front(stack[j]), f)[Depth(j)] = f
    BY <1>0, ReplacedIs DEF Depth
  <1>2. /\ stack' \in [Job -> Seq(FrameType)] /\ stack'[j] = Append(Front(stack[j]), f)
        /\ \A k \in Job : k # j => stack'[k] = stack[k]
    BY <1>0, <1>1 DEF SetTop, RunnerTypes
  <1> QED BY <1>1, <1>2 DEF Depth

\* The definition is read.
LEMMA LoadDone == ASSUME IndInv, NEW j \in Job, Load(j) PROVE Done(j)
  <1>0. RunnerTypes /\ JobInv(j) /\ pc[j] = "load" /\ Depth(j) # 0 /\ Depth(j) \in Nat
    BY JobFacts DEF Load, JobInv, Shaped
  <1>1. CASE Return(j, FALSE, 0) /\ UNCHANGED stack
    <2>1. post_queue' \in [Job -> Seq(Ref)]
      BY <1>0 DEF Load, RunnerTypes
    <2> QED BY <1>0, <1>1, <2>1, EarlyReturn DEF Load, Early
  <1>2. ASSUME NEW d \in IF Top(j).ref \in Action THEN {e.of : e \in Manifests(Top(j).ref)}
                         ELSE {Top(j).ref},
               SetTop(j, [Top(j) EXCEPT !.def = d]), PcTo(j, "dispatch"),
               UNCHANGED <<cache, ret, fatal>>
        PROVE  Done(j)
    <2>1. /\ Top(j) \in FrameType /\ Top(j).ref \in Ref /\ Top(j) = stack[j][Depth(j)]
          /\ Depth(j) \in 1..Depth(j)
      BY <1>0, TopFacts
    <2>2. d \in Ref
      <3>1. CASE Top(j).ref \in Action
        <4>1. dest[Top(j).ref].files \subseteq Entry
          BY <3>1 DEF IndInv, CacheInv, CacheTypeOK
        <4> QED BY <1>2, <3>1, <4>1, EntriesAre, RunnerAssumption DEF Manifests
      <3>2. CASE Top(j).ref \notin Action
        BY <1>2, <2>1, <3>2
      <3> QED BY <3>1, <3>2
    <2> DEFINE f == [Top(j) EXCEPT !.def = d]
    <2>3. /\ f \in FrameType /\ f.depth = Top(j).depth /\ f.coe = Top(j).coe
          /\ f.outs = Top(j).outs
      BY <2>1, <2>2 DEF FrameType
    <2>4. SetTop(j, f)
      BY <1>2
    <2> HIDE DEF f
    <2>5. /\ stack' \in [Job -> Seq(FrameType)] /\ Depth(j)' = Depth(j)
          /\ \A k \in 1..Depth(j) : k # Depth(j) => stack'[j][k] = stack[j][k]
          /\ stack'[j][Depth(j)] = f
          /\ \A k \in Job : k # j => stack'[k] = stack[k]
      BY <1>0, <2>3, <2>4, TopSet
    <2>6. /\ pc' \in [Job -> Place] /\ pc'[j] = "dispatch"
          /\ \A k \in Job : k # j => pc'[k] = pc[k]
      BY <1>0, <1>2 DEF PcTo, RunnerTypes, Place
    <2>7. UNCHANGED <<step, host, ret, procs, seen, files, post_queue, history, crashes>>
      BY <1>2 DEF Load, history
    <2>8. RunnerTypes'
      BY <1>0, <2>5, <2>6, <2>7 DEF RunnerTypes, files, history
    <2>9. Shaped(j)'
      <3>1. /\ Depth(j) <= MaxDepth + 2
            /\ \A k \in 1..Depth(j) : stack[j][k].depth = k - 1
            /\ \A k \in 1..Depth(j) : k < Depth(j) => IsComposite(stack[j][k])
        BY <1>0 DEF JobInv, Shaped
      <3>2. \A k \in 1..Depth(j) : stack'[j][k].depth = stack[j][k].depth
        BY <2>1, <2>3, <2>5
      <3>3. \A k \in 1..Depth(j) : k < Depth(j) => stack'[j][k] = stack[j][k]
        BY <1>0, <2>5
      <3> QED BY <1>0, <2>5, <2>6, <3>1, <3>2, <3>3 DEF Shaped, IsComposite
    <2>10. \A k \in 1..Depth(j) : stack'[j][k].outs = stack[j][k].outs
      BY <2>1, <2>3, <2>5
    <2>11. Carried(j)' <=> Carried(j)
      BY <1>0, <2>5, <2>6, <2>7, <2>10 DEF Carried, history, Returning
    <2>12. Kept(j)'
      BY <1>0, <2>1, <2>5, <2>6, <2>7, <2>10, <2>11 DEF JobInv, Kept, files, history
    <2>13. Judged(j)'
      BY <1>0, <2>6, <2>7 DEF JobInv, Judged, Returning, history
    <2>14. Informed(j)'
      BY <1>0, <2>6, <2>7 DEF JobInv, Informed, files
    <2>15. \A k \in Job : k # j => Same(k)
      BY <2>5, <2>6, <2>7 DEF Same, files, history
    <2> QED BY <2>8, <2>9, <2>12, <2>13, <2>14, <2>15 DEF Done, JobInv
  <1> QED BY <1>1, <1>2 DEF Load

\* A composite action starts, unless it is too deep.
LEMMA CompositeDone == ASSUME IndInv, NEW j \in Job, StartComposite(j) PROVE Done(j)
  <1>0. /\ RunnerTypes /\ JobInv(j) /\ pc[j] = "dispatch" /\ Depth(j) # 0 /\ Depth(j) \in Nat
        /\ ADef(j).type = "composite"
    BY JobFacts DEF StartComposite, JobInv, Shaped
  <1>1. CASE Return(j, FALSE, 0)
    <2>1. post_queue' \in [Job -> Seq(Ref)]
      BY <1>0 DEF StartComposite, RunnerTypes
    <2> QED BY <1>0, <1>1, <2>1, EarlyReturn DEF StartComposite, Early
  <1>2. CASE ~(Top(j).depth > MaxDepth) /\ PcTo(j, "loop") /\ UNCHANGED <<ret, fatal>>
    <2>1. /\ Top(j).depth = Depth(j) - 1 /\ IsComposite(stack[j][Depth(j)])
          /\ Top(j).depth \in Nat /\ MaxDepth \in Nat
      BY <1>0, TopFacts, RunnerAssumption
    <2>2. Depth(j) <= MaxDepth + 1
      BY <1>0, <1>2, <2>1
    <2>3. /\ pc' \in [Job -> Place] /\ pc'[j] = "loop" /\ \A k \in Job : k # j => pc'[k] = pc[k]
      BY <1>0, <1>2 DEF PcTo, RunnerTypes, Place
    <2>4. UNCHANGED <<step, host, stack, ret, procs, seen, files, post_queue, history, crashes>>
      BY <1>2 DEF StartComposite, history
    <2>5. Depth(j)' = Depth(j)
      BY <2>4 DEF Depth
    <2>6. RunnerTypes'
      BY <1>0, <2>3, <2>4 DEF RunnerTypes, files, history
    <2>7. Shaped(j)'
      BY <1>0, <2>1, <2>2, <2>3, <2>4, <2>5 DEF JobInv, Shaped, IsComposite
    <2>8. Carried(j)' <=> Carried(j)
      BY <1>0, <2>3, <2>4, <2>5 DEF Carried, history, Returning
    <2>9. Kept(j)'
      BY <1>0, <2>3, <2>4, <2>8 DEF JobInv, Kept, files, history
    <2>10. Judged(j)'
      BY <1>0, <2>3, <2>4 DEF JobInv, Judged, Returning, history
    <2>11. Informed(j)'
      BY <1>0, <2>3, <2>4 DEF JobInv, Informed, files
    <2>12. \A k \in Job : k # j => Same(k)
      BY <2>3, <2>4 DEF Same, files, history
    <2> QED BY <2>6, <2>7, <2>9, <2>10, <2>11, <2>12 DEF Done, JobInv
  <1> QED BY <1>1, <1>2 DEF StartComposite

\* A process starts, with the variables of the ones before it.
LEMMA ProcessDone == ASSUME IndInv, NEW j \in Job, StartJavaScript(j) \/ RunSub(j) PROVE Done(j)
  <1>0. RunnerTypes /\ JobInv(j) /\ Depth(j) # 0 /\ Depth(j) \in Nat /\ env_overrides[j] \in Nat
    BY JobFacts DEF StartJavaScript, RunSub, AtSub, JobInv, Shaped, RunnerTypes
  <1>1. /\ StartProcess(j)
        /\ UNCHANGED <<step, host, stack, ret, procs, files, post_queue, history, crashes>>
    BY DEF StartJavaScript, RunSub
  <1>2. \/ pc[j] = "dispatch" /\ ~IsComposite(stack[j][Depth(j)])
        \/ pc[j] = "loop"
    <2>1. ADef(j).type = "composite" <=> IsComposite(stack[j][Depth(j)])
      BY <1>0, TopFacts
    <2> QED BY <2>1 DEF StartJavaScript, RunSub, AtSub
  <1>3. /\ pc' \in [Job -> Place] /\ pc'[j] = "proc" /\ \A k \in Job : k # j => pc'[k] = pc[k]
    BY <1>0, <1>1 DEF StartProcess, PcTo, RunnerTypes, Place
  <1>4. /\ seen' \in [Job -> Nat] /\ seen'[j] = env_overrides[j]
        /\ \A k \in Job : k # j => seen'[k] = seen[k]
    BY <1>0, <1>1 DEF StartProcess, RunnerTypes
  <1>5. RunnerTypes'
    BY <1>0, <1>1, <1>3, <1>4 DEF RunnerTypes, files, history
  <1>6. Depth(j)' = Depth(j)
    BY <1>1 DEF Depth
  <1>7. Shaped(j)'
    BY <1>0, <1>1, <1>2, <1>3, <1>6 DEF JobInv, Shaped, IsComposite
  <1>8. Carried(j)' <=> Carried(j)
    BY <1>1, <1>2, <1>3, <1>6 DEF Carried, history, Returning
  <1>9. Kept(j)'
    BY <1>0, <1>1, <1>2, <1>3, <1>6, <1>8 DEF JobInv, Shaped, Kept, files, history, IsComposite
  <1>10. Judged(j)'
    BY <1>0, <1>1, <1>2, <1>3 DEF JobInv, Judged, Returning, history
  <1>11. Informed(j)'
    BY <1>0, <1>1, <1>3, <1>4 DEF JobInv, Informed, files
  <1>12. \A k \in Job : k # j => Same(k)
    BY <1>1, <1>3, <1>4 DEF Same, files, history
  <1> QED BY <1>5, <1>7, <1>9, <1>10, <1>11, <1>12 DEF Done, JobInv

\* A sub-step is passed over.
LEMMA SkipDone == ASSUME IndInv, NEW j \in Job, SkipSub(j) PROVE Done(j)
  <1>0. RunnerTypes /\ JobInv(j) /\ pc[j] = "loop" /\ Depth(j) # 0 /\ Depth(j) \in Nat
    BY JobFacts DEF SkipSub, AtSub, JobInv, Shaped
  <1>1. /\ Top(j) \in FrameType /\ Top(j) = stack[j][Depth(j)] /\ Depth(j) \in 1..Depth(j)
    BY <1>0, TopFacts
  <1> DEFINE f == [Top(j) EXCEPT !.ix = @ + 1]
  <1>2. /\ f \in FrameType /\ f.depth = Top(j).depth /\ f.coe = Top(j).coe
        /\ f.outs = Top(j).outs /\ f.def = Top(j).def
    BY <1>1 DEF FrameType
  <1>3. /\ SetTop(j, f)
        /\ UNCHANGED <<step, host, pc, ret, procs, seen, files, post_queue, history, crashes>>
    BY DEF SkipSub
  <1> HIDE DEF f
  <1>4. /\ stack' \in [Job -> Seq(FrameType)] /\ Depth(j)' = Depth(j)
        /\ \A k \in 1..Depth(j) : k # Depth(j) => stack'[j][k] = stack[j][k]
        /\ stack'[j][Depth(j)] = f
        /\ \A k \in Job : k # j => stack'[k] = stack[k]
    BY <1>0, <1>2, <1>3, TopSet
  <1>5. RunnerTypes'
    BY <1>0, <1>3, <1>4 DEF RunnerTypes, files, history
  <1>6. Shaped(j)'
    BY <1>0, <1>1, <1>2, <1>3, <1>4 DEF JobInv, Shaped, IsComposite
  <1>7. \A k \in 1..Depth(j) : stack'[j][k].outs = stack[j][k].outs
    BY <1>1, <1>2, <1>4
  <1>8. Carried(j)' <=> Carried(j)
    BY <1>0, <1>3, <1>4, <1>7 DEF Carried, history
  <1>9. Kept(j)'
    BY <1>0, <1>3, <1>8 DEF JobInv, Kept, files, history
  <1>10. Judged(j)'
    BY <1>0, <1>3 DEF JobInv, Judged, Returning, history
  <1>11. Informed(j)'
    BY <1>0, <1>3 DEF JobInv, Informed, files
  <1>12. \A k \in Job : k # j => Same(k)
    BY <1>3, <1>4 DEF Same, files, history
  <1> QED BY <1>5, <1>6, <1>9, <1>10, <1>11, <1>12 DEF Done, JobInv

\* A composite action calls another action.
LEMMA CallDone == ASSUME IndInv, NEW j \in Job, CallSub(j) PROVE Done(j)
  <1>0. /\ RunnerTypes /\ JobInv(j) /\ pc[j] = "loop" /\ Depth(j) # 0 /\ Depth(j) \in Nat
        /\ stack[j] \in Seq(FrameType)
    BY JobFacts DEF CallSub, AtSub, JobInv, Shaped
  <1>1. /\ Top(j).depth = Depth(j) - 1 /\ Top(j).depth \in Nat /\ Top(j).ix \in Nat \ {0}
        /\ ADef(j) \in Definition
    BY <1>0, TopFacts
  <1>2. Sub(j) \in SubStep
    <2>1. ADef(j).steps \in Seq(SubStep)
      BY <1>1 DEF Definition
    <2>2. Len(ADef(j).steps) \in Nat /\ Top(j).ix <= Len(ADef(j).steps)
      BY <2>1, LenProperties DEF CallSub, AtSub
    <2>3. Top(j).ix \in 1..Len(ADef(j).steps)
      BY <1>1, <2>2
    <2> QED BY <2>1, <2>3, ElementOfSeq DEF Sub
  <1>3. Sub(j).uses \in Ref /\ Sub(j).coe \in BOOLEAN
    BY <1>2 DEF CallSub, SubStep
  <1> DEFINE f == Frame(Sub(j).uses, Sub(j).coe, Top(j).depth + 1)
  <1>4. f \in FrameType /\ f.outs = 0 /\ f.depth = Depth(j)
    BY <1>0, <1>1, <1>3 DEF Frame, FrameType
  <1>5. /\ stack' = [stack EXCEPT ![j] = Append(@, f)] /\ PcTo(j, "resolve")
        /\ UNCHANGED <<step, host, ret, procs, seen, files, post_queue, history, crashes>>
    BY DEF CallSub
  <1> HIDE DEF f
  <1>6. /\ Append(stack[j], f) \in Seq(FrameType) /\ Len(Append(stack[j], f)) = Depth(j) + 1
        /\ \A k \in 1..Depth(j) : Append(stack[j], f)[k] = stack[j][k]
        /\ Append(stack[j], f)[Depth(j) + 1] = f
    BY <1>0, <1>4, AppendIs DEF Depth
  <1>7. /\ stack' \in [Job -> Seq(FrameType)] /\ stack'[j] = Append(stack[j], f)
        /\ \A k \in Job : k # j => stack'[k] = stack[k]
    BY <1>0, <1>5, <1>6 DEF RunnerTypes
  <1>8. /\ pc' \in [Job -> Place] /\ pc'[j] = "resolve" /\ \A k \in Job : k # j => pc'[k] = pc[k]
    BY <1>0, <1>5 DEF PcTo, RunnerTypes, Place
  <1>9. RunnerTypes'
    BY <1>0, <1>5, <1>7, <1>8 DEF RunnerTypes, files, history
  <1>10. /\ Depth(j)' = Depth(j) + 1 /\ stack'[j][Depth(j) + 1] = f
         /\ \A k \in 1..Depth(j) : stack'[j][k] = stack[j][k]
    BY <1>6, <1>7 DEF Depth
  <1>11. \A k \in 1..(Depth(j) + 1) : k \in 1..Depth(j) \/ k = Depth(j) + 1
    BY <1>0
  <1>12. Shaped(j)'
    <2>1. /\ IsComposite(stack[j][Depth(j)]) /\ Depth(j) <= MaxDepth + 1 /\ MaxDepth \in Nat
          /\ \A k \in 1..Depth(j) : stack[j][k].depth = k - 1
          /\ \A k \in 1..Depth(j) : k < Depth(j) => IsComposite(stack[j][k])
      BY <1>0, RunnerAssumption DEF JobInv, Shaped
    <2>2. Depth(j) + 1 # 0 /\ Depth(j) + 1 <= MaxDepth + 2
      BY <1>0, <2>1
    <2>3. \A k \in 1..(Depth(j) + 1) : stack'[j][k].depth = k - 1
      <3>1. (Depth(j) + 1) - 1 = Depth(j)
        BY <1>0
      <3> QED BY <1>4, <1>10, <1>11, <2>1, <3>1
    <2>4. \A k \in 1..(Depth(j) + 1) : k < Depth(j) + 1 => IsComposite(stack[j][k])'
      <3>1. \A k \in 1..(Depth(j) + 1) : k < Depth(j) + 1 => k \in 1..Depth(j)
        BY <1>0
      <3>2. \A k \in 1..Depth(j) : IsComposite(stack[j][k])
        <4>1. \A k \in 1..Depth(j) : k < Depth(j) \/ k = Depth(j)
          BY <1>0
        <4> QED BY <2>1, <4>1
      <3> QED BY <1>10, <3>1, <3>2 DEF IsComposite
    <2> QED BY <1>8, <1>10, <2>2, <2>3, <2>4 DEF Shaped
  <1>13. Carried(j)'
    <2>1. CASE Carried(j)
      <3>1. CASE first[j] = 0
        <4>1. \A k \in 1..(Depth(j) + 1) : stack'[j][k].outs = 0
          BY <1>4, <1>10, <1>11, <2>1, <3>1 DEF Carried
        <4> QED BY <1>0, <1>5, <1>8, <1>10, <3>1, <4>1 DEF Carried, history, Returning
      <3>2. CASE first[j] # 0
        <4>1. PICK k \in 1..Depth(j) :
                /\ stack[j][k].outs = first[j]
                /\ \A l \in 1..Depth(j) : l < k => stack[j][l].outs = 0
          BY <1>0, <2>1, <3>2 DEF Carried, Returning
        <4>2. k \in 1..(Depth(j) + 1) /\ ~(Depth(j) + 1 < k)
          BY <1>0
        <4>3. \A l \in 1..(Depth(j) + 1) : l < k => stack'[j][l].outs = 0
          BY <1>10, <1>11, <4>1, <4>2
        <4> QED BY <1>5, <1>10, <3>2, <4>1, <4>2, <4>3 DEF Carried, history
      <3> QED BY <3>1, <3>2
    <2> QED BY <1>0, <1>5, <2>1 DEF JobInv, Kept, Judged
  <1>14. Kept(j)'
    BY <1>0, <1>4, <1>5, <1>8, <1>10, <1>13 DEF JobInv, Kept, files, history
  <1>15. Judged(j)'
    BY <1>0, <1>5, <1>8 DEF JobInv, Judged, Returning, history
  <1>16. Informed(j)'
    BY <1>0, <1>5, <1>8 DEF JobInv, Informed, files
  <1>17. \A k \in Job : k # j => Same(k)
    BY <1>5, <1>7, <1>8 DEF Same, files, history
  <1> QED BY <1>9, <1>12, <1>14, <1>15, <1>16, <1>17 DEF Done, JobInv

\* The loop of a composite action is through.
LEMMA LoopEndsDone == ASSUME IndInv, NEW j \in Job, LoopEnds(j) PROVE Done(j)
  <1>0. RunnerTypes /\ JobInv(j) /\ pc[j] = "loop" /\ Depth(j) # 0 /\ Depth(j) \in Nat
    BY JobFacts DEF LoopEnds, JobInv, Shaped
  <1>1. /\ Top(j) = stack[j][Depth(j)] /\ Top(j).outs \in Nat /\ Depth(j) \in 1..Depth(j)
    BY <1>0, TopFacts
  <1>2. /\ Return(j, TRUE, Top(j).outs)
        /\ UNCHANGED <<step, host, stack, procs, seen, files, post_queue, first,
                       recent, threw, crashes>>
        /\ pc[j] \notin Returning \cup {"start"}
    BY <1>0 DEF LoopEnds, Returning
  <1>3. /\ pc' \in [Job -> Place] /\ ret' \in [Job -> [ok : BOOLEAN, outs : Nat]]
        /\ fatal' \in [Job -> BOOLEAN]
        /\ pc'[j] = "ret" /\ ret'[j].outs = Top(j).outs
        /\ \A k \in Job : k # j => pc'[k] = pc[k] /\ ret'[k] = ret[k] /\ fatal'[k] = fatal[k]
    BY <1>1, <1>2, ReturnIs
  <1>4. RunnerTypes'
    BY <1>0, <1>2, <1>3 DEF RunnerTypes, files
  <1>5. Depth(j)' = Depth(j)
    BY <1>2 DEF Depth
  <1>6. Shaped(j)' /\ Judged(j)'
    BY <1>0, <1>1, <1>2, <1>5, ReturnKeeps
  <1>7. Carried(j) => Carried(j)'
    <2>1. CASE \A k \in 1..Depth(j) : stack[j][k].outs = 0
      BY <1>0, <1>1, <1>2, <1>3, <1>5, <2>1 DEF Carried, Returning
    <2>2. CASE ~\A k \in 1..Depth(j) : stack[j][k].outs = 0
      BY <1>2, <1>5, <2>2 DEF Carried
    <2> QED BY <2>1, <2>2
  <1>8. Kept(j)'
    BY <1>0, <1>1, <1>2, <1>3, <1>5, <1>7 DEF JobInv, Kept, files
  <1>9. Informed(j)'
    BY <1>0, <1>2, <1>3 DEF JobInv, Informed, files
  <1>10. \A k \in Job : k # j => Same(k)
    BY <1>2, <1>3 DEF Same, files
  <1> QED BY <1>4, <1>6, <1>8, <1>9, <1>10 DEF Done, JobInv

\* What a process has written.
LEMMA WroteIs ==
  ASSUME IndInv, NEW j \in Job, NEW out \in BOOLEAN, NEW env \in BOOLEAN, Wrote(j, out, env)
  PROVE  /\ procs' \in [Job -> Nat] /\ seen' \in [Job -> Nat] /\ env_file' \in [Job -> Nat]
         /\ first' \in [Job -> Nat] /\ procs'[j] \in Nat \ {0}
         /\ first'[j] = IF out /\ first[j] = 0 THEN procs'[j] ELSE first[j]
         /\ \A k \in Job : k # j => /\ seen'[k] = seen[k] /\ env_file'[k] = env_file[k]
                                    /\ first'[k] = first[k]
         /\ Out(j, out) \in Nat
         /\ Out(j, out) = IF out THEN procs'[j] ELSE out_file[j]
  <1>0. RunnerTypes /\ procs[j] \in Nat /\ env_file[j] \in Nat /\ out_file[j] \in Nat
        /\ first[j] \in Nat
    BY JobFacts
  <1>1. procs' \in [Job -> Nat] /\ procs'[j] \in Nat /\ procs'[j] # 0
    BY <1>0 DEF Wrote, RunnerTypes
  <1>2. seen' \in [Job -> Nat] /\ \A k \in Job : k # j => seen'[k] = seen[k]
    BY <1>0 DEF Wrote, RunnerTypes
  <1>3. env_file' \in [Job -> Nat] /\ \A k \in Job : k # j => env_file'[k] = env_file[k]
    <2>1. (IF env THEN procs'[j] ELSE env_file[j]) \in Nat
      BY <1>0, <1>1
    <2> QED BY <1>0, <2>1 DEF Wrote, RunnerTypes
  <1>4. /\ first' \in [Job -> Nat]
        /\ first'[j] = IF out /\ first[j] = 0 THEN procs'[j] ELSE first[j]
        /\ \A k \in Job : k # j => first'[k] = first[k]
    <2>1. (IF out /\ first[j] = 0 THEN procs'[j] ELSE first[j]) \in Nat
      BY <1>0, <1>1
    <2> QED BY <1>0, <2>1 DEF Wrote, RunnerTypes
  <1>5. Out(j, out) \in Nat /\ Out(j, out) = IF out THEN procs'[j] ELSE out_file[j]
    BY <1>0, <1>1 DEF Out
  <1> QED BY <1>1, <1>2, <1>3, <1>4, <1>5

\* The variables are applied: for the other jobs nothing changes.
LEMMA Applied ==
  ASSUME IndInv, NEW j \in Job, env_overrides' = env_file', env_file' \in [Job -> Nat],
         \A k \in Job : k # j => env_file'[k] = env_file[k]
  PROVE  \A k \in Job : k # j => env_overrides'[k] = env_overrides[k]
  BY JobFacts DEF JobInv, Informed

\* The frame of an action that is through with a sub-step.
Moved(t, o) == [t EXCEPT !.ix = @ + 1, !.outs = o]

LEMMA FrameMoves ==
  ASSUME NEW t \in FrameType, NEW o \in Nat
  PROVE  /\ Moved(t, o) \in FrameType
         /\ Moved(t, o).depth = t.depth /\ Moved(t, o).coe = t.coe
         /\ Moved(t, o).outs = o /\ Moved(t, o).def = t.def
  <1> DEFINE g == [t EXCEPT !.ix = @ + 1]
  <1>1. Moved(t, o) = [g EXCEPT !.outs = o]
    BY Zenon DEF Moved
  <1>2. g \in FrameType /\ g.depth = t.depth /\ g.coe = t.coe /\ g.def = t.def
    BY DEF FrameType
  <1> HIDE DEF g
  <1> QED BY <1>1, <1>2 DEF FrameType

\* A run: sub-step ends.
LEMMA SubEndsDone == ASSUME IndInv, NEW j \in Job, SubEnds(j) PROVE Done(j)
  <1>0. /\ RunnerTypes /\ JobInv(j) /\ pc[j] = "proc" /\ Depth(j) # 0 /\ Depth(j) \in Nat
        /\ pc[j] \notin Returning \cup {"start"}
    BY JobFacts DEF SubEnds, JobInv, Shaped, Returning
  <1>1. /\ Top(j) \in FrameType /\ Top(j) = stack[j][Depth(j)] /\ Top(j).outs \in Nat
        /\ Depth(j) \in 1..Depth(j) /\ IsComposite(stack[j][Depth(j)])
    BY <1>0, TopFacts DEF SubEnds
  <1>2. PICK out \in BOOLEAN, env \in BOOLEAN, ok \in BOOLEAN :
          /\ Wrote(j, out, env)
          /\ out_file' = [out_file EXCEPT ![j] = Out(j, out)]
          /\ recent' = [recent EXCEPT ![j] = IF out THEN procs'[j] ELSE @]
          /\ SetTop(j, [Top(j) EXCEPT !.ix = @ + 1, !.outs = Merge(Top(j).outs, out_file'[j])])
          /\ IF ok \/ Sub(j).coe THEN PcTo(j, "loop") /\ UNCHANGED <<ret, fatal>>
                                 ELSE Return(j, FALSE, Merge(Top(j).outs, out_file'[j]))
    BY DEF SubEnds
  <1>3. /\ env_overrides' = env_file'
        /\ UNCHANGED <<step, host, post_queue, threw, crashes>>
    BY DEF SubEnds
  <1>4. /\ procs' \in [Job -> Nat] /\ seen' \in [Job -> Nat] /\ env_file' \in [Job -> Nat]
        /\ first' \in [Job -> Nat] /\ procs'[j] \in Nat \ {0}
        /\ first'[j] = IF out /\ first[j] = 0 THEN procs'[j] ELSE first[j]
        /\ \A k \in Job : k # j => /\ seen'[k] = seen[k] /\ env_file'[k] = env_file[k]
                                   /\ first'[k] = first[k]
        /\ Out(j, out) \in Nat
        /\ Out(j, out) = IF out THEN procs'[j] ELSE out_file[j]
    BY <1>2, WroteIs
  <1>5. /\ out_file' \in [Job -> Nat] /\ out_file'[j] = Out(j, out)
        /\ recent' \in [Job -> Nat]
        /\ recent'[j] = IF out THEN procs'[j] ELSE recent[j]
        /\ \A k \in Job : k # j => out_file'[k] = out_file[k] /\ recent'[k] = recent[k]
    BY <1>0, <1>2, <1>4 DEF RunnerTypes
  <1> DEFINE outs == Merge(Top(j).outs, out_file'[j])
             f == Moved(Top(j), outs)
  <1>6. outs \in Nat /\ outs = IF Top(j).outs # 0 THEN Top(j).outs ELSE out_file'[j]
    BY <1>1, <1>4, <1>5 DEF Merge
  <1>7. SetTop(j, f)
    BY <1>2, Zenon DEF Moved
  <1>8. \/ PcTo(j, "loop") /\ UNCHANGED <<ret, fatal>>
        \/ Return(j, FALSE, outs)
    BY <1>2
  <1> HIDE DEF outs
  <1>9. /\ f \in FrameType /\ f.depth = Top(j).depth /\ f.coe = Top(j).coe
        /\ f.outs = outs /\ f.def = Top(j).def
    BY <1>1, <1>6, FrameMoves
  <1> HIDE DEF f
  <1>10. /\ stack' \in [Job -> Seq(FrameType)] /\ Depth(j)' = Depth(j)
         /\ \A k \in 1..Depth(j) : k # Depth(j) => stack'[j][k] = stack[j][k]
         /\ stack'[j][Depth(j)] = f
         /\ \A k \in Job : k # j => stack'[k] = stack[k]
    BY <1>0, <1>7, <1>9, TopSet
  <1>11. \A k \in 1..Depth(j) : /\ stack'[j][k].coe = stack[j][k].coe
                                /\ stack'[j][k].depth = stack[j][k].depth
                                /\ stack'[j][k].def = stack[j][k].def
                                /\ k < Depth(j) => stack'[j][k] = stack[j][k]
    BY <1>0, <1>1, <1>9, <1>10
  <1>12. /\ pc' \in [Job -> Place] /\ pc'[j] \in {"loop", "ret"}
         /\ ret' \in [Job -> [ok : BOOLEAN, outs : Nat]] /\ fatal' \in [Job -> BOOLEAN]
         /\ pc'[j] = "ret" => ret'[j].outs = outs
         /\ \A k \in Job : k # j => pc'[k] = pc[k] /\ ret'[k] = ret[k] /\ fatal'[k] = fatal[k]
    <2>1. CASE PcTo(j, "loop") /\ UNCHANGED <<ret, fatal>>
      BY <1>0, <2>1 DEF PcTo, RunnerTypes, Place
    <2>2. CASE Return(j, FALSE, outs)
      BY <1>0, <1>6, <2>2, ReturnIs
    <2> QED BY <1>8, <2>1, <2>2
  <1>13. env_overrides' \in [Job -> Nat]
    BY <1>3, <1>4
  <1>14. RunnerTypes'
    BY <1>0, <1>3, <1>4, <1>5, <1>10, <1>12, <1>13 DEF RunnerTypes
  <1>15. Shaped(j)' /\ Judged(j)'
    <2>1. CASE PcTo(j, "loop") /\ UNCHANGED <<ret, fatal>>
      <3>1. pc'[j] = "loop"
        BY <1>0, <2>1 DEF PcTo, RunnerTypes
      <3>2. Shaped(j)'
        BY <1>0, <1>1, <1>10, <1>11, <3>1 DEF JobInv, Shaped, IsComposite
      <3>3. Judged(j)'
        BY <1>0, <1>3, <2>1, <3>1 DEF JobInv, Judged, Returning
      <3> QED BY <3>2, <3>3
    <2>2. CASE Return(j, FALSE, outs)
      BY <1>0, <1>3, <1>6, <1>10, <1>11, <2>2, ReturnKeeps
    <2> QED BY <1>8, <2>1, <2>2
  <1>16. ~threw[j] => Carried(j)'
    <2> SUFFICES ASSUME ~threw[j] PROVE Carried(j)'
      OBVIOUS
    <2>0. /\ Carried(j) /\ out_file[j] = recent[j] /\ (recent[j] # 0 => first[j] # 0)
          /\ first[j] \in Nat
      BY <1>0, JobFacts DEF JobInv, Kept
    <2>1. CASE first[j] = 0
      <3>1. \A k \in 1..Depth(j) : stack[j][k].outs = 0
        BY <2>0, <2>1 DEF Carried
      <3>2. out_file[j] = 0 /\ Top(j).outs = 0 /\ outs = first'[j]
        BY <1>1, <1>4, <1>5, <1>6, <2>0, <2>1, <3>1
      <3>3. \A k \in 1..Depth(j) : k # Depth(j) => stack'[j][k].outs = 0
        BY <1>10, <3>1
      <3>4. \A l \in 1..Depth(j) : l < Depth(j) => l # Depth(j)
        BY <1>0
      <3>5. CASE first'[j] = 0
        <4>1. \A k \in 1..Depth(j) : stack'[j][k].outs = 0
          BY <1>9, <1>10, <3>2, <3>3, <3>5
        <4>2. pc'[j] \in Returning => ret'[j].outs = 0
          BY <1>12, <3>2, <3>5 DEF Returning
        <4> QED BY <1>10, <3>5, <4>1, <4>2 DEF Carried
      <3>6. CASE first'[j] # 0
        BY <1>1, <1>9, <1>10, <3>2, <3>3, <3>4, <3>6 DEF Carried
      <3> QED BY <3>5, <3>6
    <2>2. CASE first[j] # 0
      <3>1. PICK k \in 1..Depth(j) :
              /\ stack[j][k].outs = first[j]
              /\ \A l \in 1..Depth(j) : l < k => stack[j][l].outs = 0
        BY <1>0, <2>0, <2>2 DEF Carried
      <3>2. stack'[j][k].outs = first[j]
        BY <1>1, <1>6, <1>9, <1>10, <2>2, <3>1
      <3>3. \A l \in 1..Depth(j) : l < k => stack'[j][l].outs = 0
        <4>1. \A l \in 1..Depth(j) : l < k => l # Depth(j)
          BY <1>0
        <4> QED BY <1>10, <3>1, <4>1
      <3> QED BY <1>4, <1>10, <2>2, <3>2, <3>3 DEF Carried
    <2> QED BY <2>1, <2>2
  <1>17. Kept(j)'
    <2>1. /\ out_file[j] = recent[j] /\ (recent[j] # 0 => first[j] # 0)
          /\ first[j] \in Nat
      BY <1>0, JobFacts DEF JobInv, Kept
    <2>2. out_file'[j] = recent'[j] /\ (recent'[j] # 0 => first'[j] # 0)
      BY <1>4, <1>5, <2>1
    <2> QED BY <1>3, <1>9, <1>10, <1>12, <1>16, <2>2 DEF Kept
  <1>18. Informed(j)'
    BY <1>3, <1>12 DEF Informed
  <1>19. \A k \in Job : k # j => env_overrides'[k] = env_overrides[k]
    BY <1>3, <1>4, Applied
  <1>20. \A k \in Job : k # j => Same(k)
    BY <1>3, <1>4, <1>5, <1>10, <1>12, <1>19 DEF Same
  <1> QED BY <1>14, <1>15, <1>17, <1>18, <1>20 DEF Done, JobInv

\* The main script of a JavaScript action ends.
LEMMA JavaScriptDone == ASSUME IndInv, NEW j \in Job, JavaScriptEnds(j) PROVE Done(j)
  <1>0. /\ RunnerTypes /\ JobInv(j) /\ pc[j] = "proc" /\ Depth(j) # 0 /\ Depth(j) \in Nat
        /\ pc[j] \notin Returning \cup {"start"}
    BY JobFacts DEF JavaScriptEnds, JobInv, Shaped, Returning
  <1>1. /\ Top(j) = stack[j][Depth(j)] /\ Depth(j) \in 1..Depth(j)
        /\ ~IsComposite(stack[j][Depth(j)])
    <2>1. ADef(j).type # "composite"
      BY DEF JavaScriptEnds
    <2> QED BY <1>0, <2>1, TopFacts
  <1>2. stack[j][Depth(j)].outs = 0
    BY <1>0, <1>1 DEF JobInv, Kept
  <1>3. PICK out \in BOOLEAN, env \in BOOLEAN, ok \in BOOLEAN :
          Wrote(j, out, env) /\ Return(j, ok, Out(j, out))
    BY DEF JavaScriptEnds
  <1>4. /\ out_file' = [out_file EXCEPT ![j] = 0] /\ recent' = [recent EXCEPT ![j] = 0]
        /\ env_overrides' = env_file' /\ post_queue' = WithPost(j)
        /\ UNCHANGED <<step, host, stack, threw, crashes>>
    BY DEF JavaScriptEnds
  <1>5. /\ procs' \in [Job -> Nat] /\ seen' \in [Job -> Nat] /\ env_file' \in [Job -> Nat]
        /\ first' \in [Job -> Nat] /\ procs'[j] \in Nat \ {0}
        /\ first'[j] = IF out /\ first[j] = 0 THEN procs'[j] ELSE first[j]
        /\ \A k \in Job : k # j => /\ seen'[k] = seen[k] /\ env_file'[k] = env_file[k]
                                   /\ first'[k] = first[k]
        /\ Out(j, out) \in Nat
        /\ Out(j, out) = IF out THEN procs'[j] ELSE out_file[j]
    BY <1>3, WroteIs
  <1>6. /\ pc' \in [Job -> Place] /\ ret' \in [Job -> [ok : BOOLEAN, outs : Nat]]
        /\ fatal' \in [Job -> BOOLEAN]
        /\ pc'[j] = "ret" /\ ret'[j].outs = Out(j, out)
        /\ \A k \in Job : k # j => pc'[k] = pc[k] /\ ret'[k] = ret[k] /\ fatal'[k] = fatal[k]
    BY <1>0, <1>3, <1>5, ReturnIs
  <1>7. /\ out_file' \in [Job -> Nat] /\ out_file'[j] = 0
        /\ recent' \in [Job -> Nat] /\ recent'[j] = 0
        /\ \A k \in Job : k # j => out_file'[k] = out_file[k] /\ recent'[k] = recent[k]
    BY <1>0, <1>4 DEF RunnerTypes
  <1>8. post_queue' \in [Job -> Seq(Ref)] /\ env_overrides' \in [Job -> Nat]
    BY <1>0, <1>4, <1>5, WithPostIs
  <1>9. RunnerTypes'
    BY <1>0, <1>4, <1>5, <1>6, <1>7, <1>8 DEF RunnerTypes
  <1>10. Depth(j)' = Depth(j)
    BY <1>4 DEF Depth
  <1>11. Shaped(j)' /\ Judged(j)'
    BY <1>0, <1>3, <1>4, <1>5, <1>10, ReturnKeeps
  <1>12. ~threw[j] => Carried(j)'
    <2> SUFFICES ASSUME ~threw[j] PROVE Carried(j)'
      OBVIOUS
    <2>0. Carried(j) /\ out_file[j] = recent[j] /\ (recent[j] # 0 => first[j] # 0)
      BY <1>0 DEF JobInv, Kept
    <2>1. CASE first[j] = 0
      <3>1. \A k \in 1..Depth(j) : stack[j][k].outs = 0
        BY <2>0, <2>1 DEF Carried
      <3>2. Out(j, out) = first'[j]
        BY <1>5, <2>0, <2>1
      <3> QED BY <1>4, <1>6, <1>10, <3>1, <3>2 DEF Carried, Returning
    <2>2. CASE first[j] # 0
      BY <1>0, <1>4, <1>5, <1>10, <2>0, <2>2 DEF Carried
    <2> QED BY <2>1, <2>2
  <1>13. Kept(j)'
    BY <1>0, <1>2, <1>4, <1>5, <1>6, <1>7, <1>10, <1>12 DEF JobInv, Kept
  <1>14. Informed(j)'
    BY <1>4, <1>6 DEF Informed
  <1>15. \A k \in Job : k # j => env_overrides'[k] = env_overrides[k]
    BY <1>4, <1>5, Applied
  <1>16. \A k \in Job : k # j => Same(k)
    BY <1>4, <1>5, <1>6, <1>7, <1>15 DEF Same
  <1> QED BY <1>9, <1>11, <1>13, <1>14, <1>16 DEF Done, JobInv

\* A process cannot be started: the calls are left.
LEMMA SpawnThrowsDone == ASSUME IndInv, NEW j \in Job, SpawnThrows(j) PROVE Done(j)
  <1>0. RunnerTypes /\ JobInv(j) /\ step[j].coe \in BOOLEAN /\ pc[j] \notin Returning /\ ~fatal[j]
    <2>1. RunnerTypes /\ JobInv(j) /\ step[j].coe \in BOOLEAN
      BY JobFacts
    <2>2. pc[j] \notin Returning
      BY DEF SpawnThrows, Returning
    <2> QED BY <2>1, <2>2 DEF JobInv, Judged
  <1>1. /\ UNCHANGED <<step, host, procs, files, post_queue, first, recent, fatal,
                       crashes>>
        /\ ret' = [ret EXCEPT ![j] = [ok |-> step[j].coe, outs |-> 0]]
        /\ threw' = [threw EXCEPT ![j] = TRUE] /\ seen' = [seen EXCEPT ![j] = 0]
        /\ stack' = [stack EXCEPT ![j] = <<>>] /\ pc' = [pc EXCEPT ![j] = "collect"]
    BY DEF SpawnThrows, PcTo
  <1>2. /\ pc' \in [Job -> Place] /\ pc'[j] = "collect" /\ \A k \in Job : k # j => pc'[k] = pc[k]
    BY <1>0, <1>1 DEF RunnerTypes, Place
  <1>3. /\ stack' \in [Job -> Seq(FrameType)] /\ stack'[j] = <<>>
        /\ \A k \in Job : k # j => stack'[k] = stack[k]
    <2>1. <<>> \in Seq(FrameType)
      OBVIOUS
    <2> QED BY <1>0, <1>1, <2>1 DEF RunnerTypes
  <1>4. /\ ret' \in [Job -> [ok : BOOLEAN, outs : Nat]] /\ threw' \in [Job -> BOOLEAN]
        /\ threw'[j] /\ seen' \in [Job -> Nat]
        /\ \A k \in Job : k # j => ret'[k] = ret[k] /\ threw'[k] = threw[k] /\ seen'[k] = seen[k]
    BY <1>0, <1>1 DEF RunnerTypes
  <1>5. RunnerTypes'
    BY <1>0, <1>1, <1>2, <1>3, <1>4 DEF RunnerTypes, files
  <1>6. Depth(j)' = 0 /\ MaxDepth \in Nat
    BY <1>3, RunnerAssumption DEF Depth
  <1>7. Shaped(j)'
    BY <1>2, <1>6 DEF Shaped
  <1>8. Kept(j)'
    <2>1. pc[j] # "done"
      BY <1>0 DEF Returning
    <2> QED BY <1>0, <1>1, <1>2, <1>4, <1>6, <2>1 DEF JobInv, Kept, files
  <1>9. Judged(j)'
    BY <1>0, <1>1, <1>2, <1>4 DEF Judged
  <1>10. Informed(j)'
    BY <1>0, <1>1, <1>2 DEF JobInv, Informed, files
  <1>11. \A k \in Job : k # j => Same(k)
    BY <1>1, <1>2, <1>3, <1>4 DEF Same, files
  <1> QED BY <1>5, <1>7, <1>8, <1>9, <1>10, <1>11 DEF Done, JobInv

\* The outermost call has returned.
LEMMA StepReturnedDone == ASSUME IndInv, NEW j \in Job, StepReturned(j) PROVE Done(j)
  <1>0. RunnerTypes /\ JobInv(j) /\ pc[j] = "ret" /\ Depth(j) = 1
    BY JobFacts DEF StepReturned, Depth
  <1>1. /\ UNCHANGED <<step, host, ret, procs, seen, files, post_queue, history, crashes>>
        /\ stack' = [stack EXCEPT ![j] = <<>>] /\ pc' = [pc EXCEPT ![j] = "collect"]
    BY DEF StepReturned, PcTo
  <1>2. /\ pc' \in [Job -> Place] /\ pc'[j] = "collect" /\ \A k \in Job : k # j => pc'[k] = pc[k]
    BY <1>0, <1>1 DEF RunnerTypes, Place
  <1>3. /\ stack' \in [Job -> Seq(FrameType)] /\ stack'[j] = <<>>
        /\ \A k \in Job : k # j => stack'[k] = stack[k]
    <2>1. <<>> \in Seq(FrameType)
      OBVIOUS
    <2> QED BY <1>0, <1>1, <2>1 DEF RunnerTypes
  <1>4. RunnerTypes'
    BY <1>0, <1>1, <1>2, <1>3 DEF RunnerTypes, files, history
  <1>5. Depth(j)' = 0 /\ MaxDepth \in Nat
    BY <1>3, RunnerAssumption DEF Depth
  <1>6. Shaped(j)'
    BY <1>2, <1>5 DEF Shaped
  <1>7. Carried(j) => Carried(j)'
    <2>1. \A k \in 1..0 : FALSE
      OBVIOUS
    <2>2. Carried(j)' <=> first[j] = ret[j].outs
      BY <1>1, <1>2, <1>5, <2>1 DEF Carried, Returning, history
    <2>3. \A k \in 1..1 : k = 1
      OBVIOUS
    <2>4. Carried(j) => first[j] = ret[j].outs
      BY <1>0, <2>3 DEF Carried, Returning, JobInv, Kept
    <2> QED BY <2>2, <2>4
  <1>8. Kept(j)'
    BY <1>0, <1>1, <1>2, <1>5, <1>7 DEF JobInv, Kept, files, history
  <1>9. Judged(j)'
    <2>1. \A k \in 2..1 : FALSE
      OBVIOUS
    <2>2. ~threw[j] /\ (fatal[j] <=> ~ret[j].ok)
      BY <1>0, <2>1 DEF JobInv, Judged
    <2> QED BY <1>1, <1>2, <2>2 DEF Judged, Returning, history
  <1>10. Informed(j)'
    BY <1>0, <1>1, <1>2 DEF JobInv, Informed, files
  <1>11. \A k \in Job : k # j => Same(k)
    BY <1>1, <1>2, <1>3 DEF Same, files, history
  <1> QED BY <1>4, <1>6, <1>8, <1>9, <1>10, <1>11 DEF Done, JobInv

\* The outputs of a result are replaced.
LEMMA OutsSet ==
  ASSUME RunnerTypes, NEW j \in Job, NEW o \in Nat, ret' = [ret EXCEPT ![j].outs = o]
  PROVE  /\ ret' \in [Job -> [ok : BOOLEAN, outs : Nat]]
         /\ ret'[j].outs = o /\ ret'[j].ok = ret[j].ok
         /\ \A k \in Job : k # j => ret'[k] = ret[k]
  <1>1. ret \in [Job -> [ok : BOOLEAN, outs : Nat]]
    BY DEF RunnerTypes
  <1> QED BY <1>1

\* The end of the step.
LEMMA CollectDone == ASSUME IndInv, NEW j \in Job, CollectStep(j) PROVE Done(j)
  <1>0. /\ RunnerTypes /\ JobInv(j) /\ pc[j] = "collect" /\ Depth(j) = 0
        /\ out_file[j] \in Nat /\ env_file[j] \in Nat /\ ret[j] \in [ok : BOOLEAN, outs : Nat]
    BY JobFacts DEF CollectStep, JobInv, Shaped
  <1> DEFINE outs == Merge(out_file[j], ret[j].outs)
  <1>1. outs \in Nat /\ outs = IF out_file[j] # 0 THEN out_file[j] ELSE ret[j].outs
    BY <1>0 DEF Merge
  <1>2. /\ UNCHANGED <<step, host, stack, procs, seen, env_file, post_queue, history, crashes>>
        /\ ret' = [ret EXCEPT ![j].outs = outs]
        /\ env_overrides' = [env_overrides EXCEPT ![j] = env_file[j]]
        /\ out_file' = [out_file EXCEPT ![j] = 0] /\ pc' = [pc EXCEPT ![j] = "done"]
    BY DEF CollectStep, PcTo
  <1> HIDE DEF outs
  <1>3. /\ ret' \in [Job -> [ok : BOOLEAN, outs : Nat]]
        /\ ret'[j].outs = outs /\ ret'[j].ok = ret[j].ok
        /\ \A k \in Job : k # j => ret'[k] = ret[k]
    BY <1>0, <1>1, <1>2, OutsSet
  <1>4. /\ pc' \in [Job -> Place] /\ pc'[j] = "done" /\ \A k \in Job : k # j => pc'[k] = pc[k]
    BY <1>0, <1>2 DEF RunnerTypes, Place
  <1>5. /\ out_file' \in [Job -> Nat] /\ env_overrides' \in [Job -> Nat]
        /\ out_file'[j] = 0 /\ env_overrides'[j] = env_file[j]
        /\ \A k \in Job : k # j => /\ out_file'[k] = out_file[k]
                                   /\ env_overrides'[k] = env_overrides[k]
    BY <1>0, <1>2 DEF RunnerTypes
  <1>6. RunnerTypes'
    BY <1>0, <1>2, <1>3, <1>4, <1>5 DEF RunnerTypes, history
  <1>7. Depth(j)' = 0
    BY <1>0, <1>2 DEF Depth
  <1>8. Shaped(j)'
    BY <1>0, <1>4, <1>7 DEF JobInv, Shaped
  <1>9. ~threw[j] => ret[j].outs = first[j]
    <2>1. \A k \in 1..0 : FALSE
      OBVIOUS
    <2> QED BY <1>0, <2>1 DEF JobInv, Kept, Carried, Returning
  <1>10. Kept(j)'
    BY <1>0, <1>1, <1>2, <1>3, <1>4, <1>7, <1>9 DEF JobInv, Kept, history
  <1>11. Judged(j)'
    BY <1>0, <1>2, <1>3, <1>4 DEF JobInv, Judged, Returning, history
  <1>12. Informed(j)'
    BY <1>2, <1>4, <1>5 DEF Informed
  <1>13. \A k \in Job : k # j => Same(k)
    BY <1>2, <1>3, <1>4, <1>5 DEF Same, history
  <1> QED BY <1>6, <1>8, <1>10, <1>11, <1>12, <1>13 DEF Done, JobInv

\* A nested action has returned to the action that called it.
LEMMA ReturnedDone == ASSUME IndInv, NEW j \in Job, Returned(j) PROVE Done(j)
  <1> DEFINE n == Depth(j)
  <1>0. /\ RunnerTypes /\ JobInv(j) /\ pc[j] = "ret" /\ n \in Nat /\ n > 1
        /\ stack[j] \in Seq(FrameType) /\ n = Len(stack[j])
        /\ ret[j] \in [ok : BOOLEAN, outs : Nat]
    BY JobFacts DEF Returned, Depth
  <1>1. /\ n - 1 \in Nat /\ n - 1 >= 1 /\ n - 1 \in 1..n /\ n \in 1..n /\ n - 1 \in 1..(n - 1)
        /\ \A k \in 1..(n - 1) : k \in 1..n
        /\ \A k \in 1..n : k \in 1..(n - 1) \/ k = n
    BY <1>0
  <1> DEFINE parent == stack[j][n - 1]
             merged == Merge(parent.outs, ret[j].outs)
             e == Moved(parent, merged)
             fails == ~ret[j].ok /\ ~stack[j][n].coe
  <1>2. Last(Front(stack[j])) = parent /\ parent \in FrameType /\ Top(j) = stack[j][n]
    <2>1. Last(Front(stack[j])) = stack[j][n - 1] /\ stack[j][n - 1] \in FrameType
      <3>1. stack[j][n] \in FrameType
        BY <1>0, <1>1, ElementOfSeq
      <3> QED BY <1>0, <3>1, PoppedIs
    <2>2. Top(j) = stack[j][n]
      BY DEF Top, Last, Depth
    <2> QED BY <2>1, <2>2
  <1>3. merged \in Nat /\ merged = IF parent.outs # 0 THEN parent.outs ELSE ret[j].outs
    <2>1. parent.outs \in Nat /\ ret[j].outs \in Nat
      BY <1>0, <1>2 DEF FrameType
    <2> QED BY <2>1 DEF Merge
  <1>4. /\ stack' = [stack EXCEPT ![j] = Append(Front(Front(stack[j])), e)]
        /\ pc' = [pc EXCEPT ![j] = IF fails THEN "ret" ELSE "loop"]
        /\ ret' = [ret EXCEPT ![j].outs = merged]
        /\ UNCHANGED <<step, host, procs, seen, files, post_queue, history, crashes>>
    BY <1>2, Zenon DEF Returned, PcTo, Moved
  <1>5. /\ e \in FrameType /\ e.depth = parent.depth /\ e.coe = parent.coe
        /\ e.outs = merged /\ e.def = parent.def
    <2> HIDE DEF parent, merged
    <2> QED BY <1>2, <1>3, FrameMoves
  <1> HIDE DEF e, merged, parent, n
  <1>6. /\ Append(Front(Front(stack[j])), e) \in Seq(FrameType)
        /\ Len(Append(Front(Front(stack[j])), e)) = n - 1
        /\ \A k \in 1..(n - 1) : k # n - 1 => Append(Front(Front(stack[j])), e)[k] = stack[j][k]
        /\ Append(Front(Front(stack[j])), e)[n - 1] = e
    BY <1>0, <1>5, PoppedIs
  <1>7. /\ stack' \in [Job -> Seq(FrameType)] /\ Depth(j)' = n - 1
        /\ \A k \in 1..(n - 1) : k # n - 1 => stack'[j][k] = stack[j][k]
        /\ stack'[j][n - 1] = e
        /\ \A k \in Job : k # j => stack'[k] = stack[k]
    <2>1. /\ stack' \in [Job -> Seq(FrameType)]
          /\ stack'[j] = Append(Front(Front(stack[j])), e)
          /\ \A k \in Job : k # j => stack'[k] = stack[k]
      BY <1>0, <1>4, <1>6 DEF RunnerTypes
    <2> QED BY <1>6, <2>1 DEF Depth
  <1>8. /\ pc' \in [Job -> Place] /\ pc'[j] = (IF fails THEN "ret" ELSE "loop")
        /\ \A k \in Job : k # j => pc'[k] = pc[k]
    <2>1. (IF fails THEN "ret" ELSE "loop") \in Place
      BY DEF Place
    <2> HIDE DEF fails
    <2> QED BY <1>0, <1>4, <2>1 DEF RunnerTypes
  <1>9. /\ ret' \in [Job -> [ok : BOOLEAN, outs : Nat]]
        /\ ret'[j].outs = merged /\ ret'[j].ok = ret[j].ok
        /\ \A k \in Job : k # j => ret'[k] = ret[k]
    BY <1>0, <1>3, <1>4, OutsSet
  <1>10. RunnerTypes'
    BY <1>0, <1>4, <1>7, <1>8, <1>9 DEF RunnerTypes, files, history
  <1>11. pc'[j] \in {"ret", "loop"}
    BY <1>8
  <1>12. /\ \A k \in 1..(n - 1) : stack'[j][k].depth = stack[j][k].depth
         /\ \A k \in 1..(n - 1) : stack'[j][k].coe = stack[j][k].coe
         /\ \A k \in 1..(n - 1) : stack'[j][k].def = stack[j][k].def
    BY <1>5, <1>7 DEF parent
  <1>13. /\ n <= MaxDepth + 2 /\ MaxDepth \in Nat
         /\ \A k \in 1..n : stack[j][k].depth = k - 1
         /\ \A k \in 1..n : k < n => IsComposite(stack[j][k])
    BY <1>0, RunnerAssumption DEF JobInv, Shaped, n
  <1>14. Shaped(j)'
    <2>1. \A k \in 1..(n - 1) : k < n
      BY <1>0
    <2>2. \A k \in 1..(n - 1) : IsComposite(stack[j][k])'
      BY <1>1, <1>12, <1>13, <2>1 DEF IsComposite
    <2>3. n - 1 # 0 /\ n - 1 <= MaxDepth + 2 /\ n - 1 <= MaxDepth + 1
      BY <1>0, <1>13
    <2>4. \A k \in 1..(n - 1) : stack'[j][k].depth = k - 1
      BY <1>1, <1>12, <1>13
    <2> QED BY <1>1, <1>7, <1>11, <2>2, <2>3, <2>4 DEF Shaped
  <1>15. Carried(j)'
    <2>0. /\ Carried(j) /\ first' = first
          /\ stack[j][n].outs # 0 => ret[j].outs = stack[j][n].outs
      BY <1>0, <1>4 DEF JobInv, Kept, Judged, history, n
    <2>1. \A l \in 1..(n - 1) : l < n - 1 => l # n - 1 /\ l \in 1..n
      BY <1>0
    <2>2. CASE /\ first[j] = ret[j].outs /\ \A k \in 1..n : stack[j][k].outs = 0
      <3>1. merged = first[j]
        BY <1>1, <1>3, <2>2 DEF parent
      <3>2. \A l \in 1..(n - 1) : l # n - 1 => stack'[j][l].outs = 0
        BY <1>1, <1>7, <2>2
      <3>3. CASE first[j] = 0
        BY <1>5, <1>7, <1>9, <2>0, <3>1, <3>2, <3>3 DEF Carried
      <3>4. CASE first[j] # 0
        BY <1>1, <1>5, <1>7, <2>0, <2>1, <3>1, <3>2, <3>4 DEF Carried
      <3> QED BY <3>3, <3>4
    <2>3. ASSUME NEW k \in 1..n, first[j] # 0, stack[j][k].outs = first[j],
                 \A l \in 1..n : l < k => stack[j][l].outs = 0
          PROVE  Carried(j)'
      <3>1. CASE k = n
        <4>1. merged = first[j]
          BY <1>0, <1>1, <1>3, <2>0, <2>3, <3>1 DEF parent
        <4>2. \A l \in 1..(n - 1) : l < n - 1 => stack'[j][l].outs = 0
          <5>1. \A l \in 1..(n - 1) : l < n
            BY <1>0
          <5> QED BY <1>7, <2>1, <2>3, <3>1, <5>1
        <4> QED BY <1>1, <1>5, <1>7, <2>0, <2>3, <4>1, <4>2 DEF Carried
      <3>2. CASE k # n
        <4>1. k \in 1..(n - 1)
          BY <1>1, <3>2
        <4>2. stack'[j][k].outs = first[j]
          BY <1>3, <1>5, <1>7, <2>3, <4>1 DEF parent
        <4>3. \A l \in 1..(n - 1) : l < k => l # n - 1 /\ l \in 1..n
          BY <1>0, <4>1
        <4>4. \A l \in 1..(n - 1) : l < k => stack'[j][l].outs = 0
          BY <1>7, <2>3, <4>3
        <4> QED BY <1>7, <2>0, <2>3, <4>1, <4>2, <4>4 DEF Carried
      <3> QED BY <3>1, <3>2
    <2> QED BY <1>0, <2>0, <2>2, <2>3 DEF Carried, Returning, n
  <1>16. Kept(j)'
    BY <1>0, <1>4, <1>5, <1>7, <1>9, <1>11, <1>15 DEF JobInv, Kept, files, history
  <1>17. Judged(j)'
    <2>1. ~threw[j] /\ (fatal[j] <=> ~ret[j].ok /\ \A k \in 2..n : ~stack[j][k].coe)
      BY <1>0 DEF JobInv, Judged, n
    <2>2. /\ n \in 2..n /\ \A k \in 2..(n - 1) : k \in 2..n /\ k \in 1..(n - 1)
          /\ \A k \in 2..n : k \in 2..(n - 1) \/ k = n
      BY <1>0
    <2>3. CASE fails
      <3>1. fatal[j] <=> ~ret[j].ok /\ \A k \in 2..(n - 1) : ~stack'[j][k].coe
        BY <1>12, <2>1, <2>2, <2>3
      <3> QED BY <1>4, <1>7, <1>8, <1>9, <2>1, <2>3, <3>1 DEF Judged, Returning, history
    <2>4. CASE ~fails
      <3>1. ~fatal[j]
        BY <2>1, <2>2, <2>4
      <3> QED BY <1>4, <1>8, <2>1, <2>4, <3>1 DEF Judged, history
    <2> QED BY <2>3, <2>4
  <1>18. Informed(j)'
    BY <1>0, <1>4, <1>11 DEF JobInv, Informed, files
  <1>19. \A k \in Job : k # j => Same(k)
    BY <1>4, <1>7, <1>8, <1>9 DEF Same, files, history
  <1> QED BY <1>10, <1>14, <1>16, <1>17, <1>18, <1>19 DEF Done, JobInv

\* The evaluation of an expression does not come back.
LEMMA HangsDone == ASSUME IndInv, NEW j \in Job, EvaluationHangs(j) PROVE Done(j)
  <1>0. RunnerTypes /\ JobInv(j) /\ Depth(j) \in Nat
    BY JobFacts
  <1>1. /\ pc[j] \in {"start", "dispatch", "loop"} /\ pc' = [pc EXCEPT ![j] = "looping"]
        /\ UNCHANGED <<step, host, stack, ret, procs, seen, files, post_queue, history, crashes>>
    BY DEF EvaluationHangs, PcTo
  <1>2. /\ pc' \in [Job -> Place] /\ pc'[j] = "looping" /\ \A k \in Job : k # j => pc'[k] = pc[k]
    BY <1>0, <1>1 DEF RunnerTypes, Place
  <1>3. RunnerTypes'
    BY <1>0, <1>1, <1>2 DEF RunnerTypes, files, history
  <1>4. Depth(j)' = Depth(j)
    BY <1>1 DEF Depth
  <1>5. Shaped(j)'
    BY <1>0, <1>1, <1>2, <1>4 DEF JobInv, Shaped, IsComposite
  <1>6. Carried(j)' <=> Carried(j)
    BY <1>1, <1>2, <1>4 DEF Carried, history, Returning
  <1>7. Kept(j)'
    BY <1>0, <1>1, <1>2, <1>4, <1>6 DEF JobInv, Kept, files, history
  <1>8. Judged(j)'
    BY <1>0, <1>1, <1>2 DEF JobInv, Judged, Returning, history
  <1>9. Informed(j)'
    BY <1>0, <1>1, <1>2 DEF JobInv, Informed, files
  <1>10. \A k \in Job : k # j => Same(k)
    BY <1>1, <1>2 DEF Same, files, history
  <1> QED BY <1>3, <1>5, <1>7, <1>8, <1>9, <1>10 DEF Done, JobInv

\* What a job is like before its step: at the start and after a crash.
Fresh(j) ==
  /\ pc[j] = "start" /\ stack[j] = <<>> /\ ret[j] = NoResult /\ out_file[j] = 0
  /\ env_file[j] = 0 /\ env_overrides[j] = 0
  /\ first[j] = 0 /\ recent[j] = 0 /\ ~fatal[j] /\ ~threw[j]

LEMMA FreshInv == ASSUME NEW j \in Job, Fresh(j) PROVE JobInv(j)
  <1>1. Depth(j) = 0 /\ MaxDepth \in Nat /\ ret[j].outs = 0 /\ \A k \in 1..0 : FALSE
    BY RunnerAssumption DEF Fresh, Depth, NoResult
  <1>2. Shaped(j)
    BY <1>1 DEF Fresh, Shaped
  <1>3. Carried(j)
    BY <1>1 DEF Fresh, Carried, Returning
  <1>4. Kept(j)
    BY <1>1, <1>3 DEF Fresh, Kept
  <1>5. Judged(j)
    BY DEF Fresh, Judged
  <1>6. Informed(j)
    BY DEF Fresh, Informed
  <1> QED BY <1>2, <1>4, <1>5, <1>6 DEF JobInv

LEMMA FreshValues ==
  /\ Each("start") \in [Job -> Place] /\ \A j \in Job : Each("start")[j] = "start"
  /\ Each(<<>>) \in [Job -> Seq(FrameType)] /\ Each(<<>>) \in [Job -> Seq(Ref)]
  /\ \A j \in Job : Each(<<>>)[j] = <<>>
  /\ Each(NoResult) \in [Job -> [ok : BOOLEAN, outs : Nat]]
  /\ \A j \in Job : Each(NoResult)[j] = NoResult
  /\ Each(0) \in [Job -> Nat] /\ \A j \in Job : Each(0)[j] = 0
  /\ Each(FALSE) \in [Job -> BOOLEAN] /\ \A j \in Job : Each(FALSE)[j] = FALSE
  <1>1. Each("start") \in [Job -> Place] /\ \A j \in Job : Each("start")[j] = "start"
    BY DEF Each, Place
  <1>2. /\ Each(<<>>) \in [Job -> Seq(FrameType)] /\ Each(<<>>) \in [Job -> Seq(Ref)]
        /\ \A j \in Job : Each(<<>>)[j] = <<>>
    BY DEF Each
  <1>3. /\ Each(NoResult) \in [Job -> [ok : BOOLEAN, outs : Nat]]
        /\ \A j \in Job : Each(NoResult)[j] = NoResult
    BY DEF Each, NoResult
  <1>4. /\ Each(0) \in [Job -> Nat] /\ \A j \in Job : Each(0)[j] = 0
        /\ Each(FALSE) \in [Job -> BOOLEAN] /\ \A j \in Job : Each(FALSE)[j] = FALSE
    BY DEF Each
  <1> QED BY <1>1, <1>2, <1>3, <1>4

LEMMA FreshNext == (\A j \in Job : Fresh(j) => JobInv(j))'
  <1>1. \A j \in Job : Fresh(j) => JobInv(j)
    BY FreshInv
  <1> QED BY <1>1, PTL

\* The runner is started again.
LEMMA CrashDone == ASSUME IndInv, Crash PROVE RunnerTypes' /\ \A j \in Job : JobInv(j)'
  <1>1. /\ UNCHANGED <<step, host>> /\ crashes < MaxCrashes /\ crashes' = crashes + 1
        /\ pc' = Each("start") /\ stack' = Each(<<>>) /\ ret' = Each(NoResult)
        /\ procs' = Each(0) /\ seen' = Each(0)
        /\ out_file' = Each(0) /\ env_file' = Each(0) /\ env_overrides' = Each(0)
        /\ post_queue' = Each(<<>>)
        /\ first' = Each(0) /\ recent' = Each(0) /\ fatal' = Each(FALSE) /\ threw' = Each(FALSE)
    BY DEF Crash
  <1>2. crashes' \in 0..MaxCrashes
    <2>1. crashes \in 0..MaxCrashes /\ MaxCrashes \in Nat
      BY RunnerAssumption DEF IndInv, RunnerTypes
    <2> QED BY <1>1, <2>1
  <1>3. RunnerTypes'
    BY <1>1, <1>2, FreshValues DEF IndInv, RunnerTypes
  <1>4. \A j \in Job : Fresh(j)'
    BY <1>1, FreshValues DEF Fresh, NoResult
  <1> QED BY <1>3, <1>4, FreshNext

-----------------------------------------------------------------------------
(* Every step *)

LEMMA RunnerStepInv ==
  ASSUME IndInv, [Next]_vars PROVE RunnerTypes' /\ \A j \in Job : JobInv(j)'
  <1>0. RunnerTypes /\ \A k \in Job : JobInv(k)
    BY DEF IndInv
  <1>1. ASSUME NEW j \in Job, Done(j) PROVE RunnerTypes' /\ \A k \in Job : JobInv(k)'
    <2>1. ASSUME NEW k \in Job PROVE JobInv(k)'
      <3>1. CASE k = j
        BY <1>1, <3>1 DEF Done
      <3>2. CASE k # j
        BY <1>0, <1>1, <3>2, SameInv DEF Done
      <3> QED BY <3>1, <3>2
    <2> QED BY <1>1, <2>1 DEF Done
  <1>2. CASE \E j \in Job :
               \/ Start(j) \/ CheckGit(j) \/ CheckoutEnds(j)
               \/ Resolve(j) \/ FetchEnds(j) \/ Load(j) \/ StartComposite(j)
               \/ Refuse(j) \/ JavaScriptMissing(j) \/ StartJavaScript(j) \/ SkipSub(j)
               \/ RunSub(j) \/ CallSub(j) \/ LoopEnds(j) \/ SubEnds(j) \/ JavaScriptEnds(j)
               \/ SpawnThrows(j) \/ Returned(j) \/ StepReturned(j) \/ CollectStep(j)
               \/ EvaluationHangs(j)
    <2>1. PICK j \in Job :
               \/ Start(j) \/ CheckGit(j) \/ CheckoutEnds(j)
               \/ Resolve(j) \/ FetchEnds(j) \/ Load(j) \/ StartComposite(j)
               \/ Refuse(j) \/ JavaScriptMissing(j) \/ StartJavaScript(j) \/ SkipSub(j)
               \/ RunSub(j) \/ CallSub(j) \/ LoopEnds(j) \/ SubEnds(j) \/ JavaScriptEnds(j)
               \/ SpawnThrows(j) \/ Returned(j) \/ StepReturned(j) \/ CollectStep(j)
               \/ EvaluationHangs(j)
      BY <1>2
    <2>2. Done(j)
      BY <2>1, StartDone, CheckDone, ResolveDone, LoadDone, CompositeDone, RefuseDone,
         ProcessDone, SkipDone, CallDone, LoopEndsDone, SubEndsDone, JavaScriptDone,
         SpawnThrowsDone, ReturnedDone, StepReturnedDone, CollectDone, HangsDone
    <2> QED BY <1>1, <2>2
  <1>3. CASE UNCHANGED <<step, host, running, crashes>>
    <2>1. RunnerTypes'
      BY <1>0, <1>3 DEF RunnerTypes, running, files, history
    <2>2. \A k \in Job : Same(k)
      BY <1>3 DEF Same, running, files, history
    <2> QED BY <1>0, <2>1, <2>2, SameInv
  <1>4. CASE Crash
    BY <1>4, CrashDone
  <1>5. CASE UNCHANGED vars
    BY <1>3, <1>5 DEF vars
  <1> QED BY <1>2, <1>3, <1>4, <1>5, RunnerCases

LEMMA InitInv == Init => IndInv
  <1> SUFFICES ASSUME Init PROVE IndInv
    OBVIOUS
  <1>1. CacheTypeOK
    <2>1. target \in [Job -> Action \cup {None}]
      BY DEF Init, CacheInit
    <2>2. fpc \in [Job -> Busy \cup {"idle", "lookup", "fetched", "failed"}]
      BY DEF Init, CacheInit
    <2>3. base \in [Job -> 1..Bases] /\ try \in [Job -> {"git", "tags", "archive"}]
      BY CacheAssumption DEF Init, CacheInit
    <2>4. wrote \in [Job -> SUBSET File]
      BY DEF Init, CacheInit
    <2>5. dest \in [Action -> [there : BOOLEAN, files : SUBSET Entry]]
      BY DEF Init, CacheInit
    <2>6. /\ zip \in [there : BOOLEAN, of : Action \cup {Junk}, writers : SUBSET Job]
          /\ suspect \subseteq Action
      BY DEF Init, CacheInit
    <2> QED BY <2>1, <2>2, <2>3, <2>4, <2>5, <2>6 DEF CacheTypeOK
  <1>2. /\ \A j \in Job : fpc[j] = "idle" /\ wrote[j] = {}
        /\ \A a \in Action : dest[a].files = {}
        /\ zip.writers = {}
    BY DEF Init, CacheInit
  <1>3. CacheInv
    <2>1. Working
      BY <1>2 DEF Working
    <2>2. Alone
      BY <1>2 DEF Alone, Busy, Archive
    <2>3. Stages
      BY <1>2 DEF Stages, Stage
    <2>4. Left
      BY <1>2 DEF Left
    <2> QED BY <1>1, <2>1, <2>2, <2>3, <2>4 DEF CacheInv
  <1>4. /\ pc = Each("start") /\ stack = Each(<<>>) /\ ret = Each(NoResult)
        /\ procs = Each(0) /\ seen = Each(0)
        /\ out_file = Each(0) /\ env_file = Each(0) /\ env_overrides = Each(0)
        /\ post_queue = Each(<<>>) /\ crashes = 0
        /\ first = Each(0) /\ recent = Each(0) /\ fatal = Each(FALSE) /\ threw = Each(FALSE)
    BY DEF Init
  <1>5. [steps |-> step, host |-> host] \in Scenario
    <2>1. PICK s \in Scenario : step = s.steps /\ host = s.host
      BY DEF Init
    <2>2. s \in [steps : [Job -> [uses : Ref, coe : BOOLEAN,
                                  path : {"workspace", "existing", "missing"}]],
                 host : SUBSET {"git", "node"}]
      BY RunnerAssumption
    <2>3. s = [steps |-> s.steps, host |-> s.host]
      BY <2>2
    <2> QED BY <2>1, <2>3
  <1>6. crashes \in 0..MaxCrashes
    BY <1>4, RunnerAssumption
  <1>7. RunnerTypes
    BY <1>4, <1>5, <1>6, FreshValues DEF RunnerTypes
  <1>8. \A j \in Job : Fresh(j)
    BY <1>4, FreshValues DEF Fresh, NoResult
  <1>9. \A j \in Job : JobInv(j) /\ Waited(j)
    BY <1>2, <1>8, FreshInv DEF Waited, Busy
  <1> QED BY <1>3, <1>7, <1>9 DEF IndInv

LEMMA IndInvStep == IndInv /\ [Next]_vars => IndInv'
  <1> SUFFICES ASSUME IndInv, [Next]_vars PROVE IndInv'
    OBVIOUS
  <1> QED BY CacheStepInv, RunnerStepInv DEF IndInv

-----------------------------------------------------------------------------
(* The results *)

\* The inductive invariant holds in every state of every behaviour.
THEOREM RunnerInvariant == Spec => []IndInv
  BY InitInv, IndInvStep, PTL DEF Spec

LEMMA Typed == IndInv => TypeOK
  <1> SUFFICES ASSUME IndInv PROVE TypeOK
    OBVIOUS
  <1>1. CacheTypeOK /\ RunnerTypes
    BY DEF IndInv, CacheInv
  <1>2. ASSUME NEW j \in Job
        PROVE  /\ Len(stack[j]) <= MaxDepth + 2
               /\ \A k \in DOMAIN stack[j] : stack[j][k] \in FrameType
    <2>1. /\ JobInv(j) /\ stack[j] \in Seq(FrameType)
          /\ \A k \in 1..Depth(j) : stack[j][k] \in FrameType
      BY JobFacts
    <2>2. DOMAIN stack[j] = 1..Depth(j)
      BY <2>1, LenProperties DEF Depth
    <2> QED BY <2>1, <2>2 DEF JobInv, Shaped, Depth
  <1> QED BY <1>1, <1>2 DEF TypeOK, RunnerTypes, Place, FrameType

\* Every variable keeps its type, and the calls under way never exceed
\* kMaxRecursionDepth by more than the one that is refused, also where
\* composite actions use each other in a circle.
THEOREM TypeCorrect == Spec => []TypeOK
  BY RunnerInvariant, Typed, PTL

\* fetchAction hands out the whole of the action asked for, whichever clones
\* and downloads failed before, unless jobs got into each other's way, the
\* runner died during a fetch of it, a rename threw while its archive was
\* flattened or remove_all failed.
THEOREM FetchesWhole == Spec => []FetchedWhole
  <1>1. IndInv => FetchedWhole
    BY DEF IndInv, CacheInv, Stages, Stage, Whole, FetchedWhole
  <1> QED BY <1>1, RunnerInvariant, PTL

\* The value of an output that a step ends with, however the actions are
\* nested and whichever of them failed: the last one written, unless a
\* JavaScript action has ended since; then the first one.
THEOREM OutputsAreKept == Spec => []OutputsKept
  <1>1. IndInv => OutputsKept
    BY DEF IndInv, JobInv, Kept, OutputsKept
  <1> QED BY <1>1, RunnerInvariant, PTL

\* Every process is given the variables as the processes before it left them
\* in $GITHUB_ENV.
THEOREM EnvAlwaysVisible == Spec => []EnvVisible
  <1>1. IndInv => EnvVisible
    BY DEF IndInv, JobInv, Informed, EnvVisible
  <1> QED BY <1>1, RunnerInvariant, PTL

\* The result a step reports is a failure exactly if something failed in it
\* that no continue-on-error around it covers, and nothing is started after
\* such a failure.
THEOREM ActionResultsTrue == Spec => []ActionResultIsTrue
  <1>1. IndInv => ActionResultIsTrue
    BY DEF IndInv, JobInv, Judged, Returning, ActionResultIsTrue
  <1> QED BY <1>1, RunnerInvariant, PTL
=============================================================================
