--------------------------- MODULE ArtifactServer ---------------------------
(***************************************************************************)
(* The artifact half of CacheServer (src/src/cache/CacheServer.cpp) and    *)
(* the workflow runs that use it: a run creates an artifact, puts its      *)
(* blob, finalizes it, and later asks for its URL and downloads it. The    *)
(* server shares nothing with its cache half but the thread that runs all  *)
(* handlers, so a request is one step. The process may crash and is        *)
(* started again: artifact_index.json and the blobs stay.                  *)
(*                                                                         *)
(* An artifact is known by its name alone, also to a later run. A blob is  *)
(* the run that wrote it, or is torn; its size, which FinalizeArtifact     *)
(* measures and ListArtifacts shows, is told apart in the same way.        *)
(***************************************************************************)
EXTENDS Integers, FiniteSets, FiniteSetsExt

CONSTANTS Run, NoRun, Name,
          NameChoices,  \* the ways to give the runs the names they use
          MaxIds,       \* bound: artifact ids
          MaxCrashes    \* bound: crashes

ASSUME RunAssumption == /\ NoRun \notin Run \cup {"none", "torn"}
                        /\ Run \cap {"none", "torn"} = {}
                        /\ Name # {} /\ NameChoices \subseteq [Run -> Name]
ASSUME BoundAssumption == MaxIds \in Nat /\ MaxCrashes \in Nat

Data == Run \cup {"none", "torn"}
Entry == [run : Run \cup {NoRun}, id : 0..MaxIds, finalized : BOOLEAN, size : Data]
NoEntry == [run |-> NoRun, id |-> 0, finalized |-> FALSE, size |-> "none"]

VARIABLES
  artifact_index, blob,   \* disk: artifact_index.json, artifacts/<name>.bin
  up, artifacts, next,    \* the server runs; artifacts_, next_artifact_id_
  name, rpc,              \* runs: the name each uses, and its place
  given, download,        \* runs: the id it was given, what it downloaded
  crashes,
  clash,  \* history: a run created a name another run was still uploading
  full    \* history: a blob was not written in full, and 200 was answered

disk == <<artifact_index, blob>>
memory == <<up, artifacts, next>>
runs == <<name, rpc, given, download>>
history == <<clash, full>>
vars == <<disk, memory, runs, crashes, history>>

NoEntries == [n \in Name |-> NoEntry]

Init ==
  /\ artifact_index = NoEntries /\ blob = [n \in Name |-> "none"]
  /\ up = FALSE /\ artifacts = NoEntries /\ next = 1
  /\ name \in NameChoices /\ rpc = [r \in Run |-> "create"]
  /\ given = [r \in Run |-> 0] /\ download = [r \in Run |-> "none"]
  /\ crashes = 0 /\ clash = FALSE /\ full = FALSE

\* The whole index, as it now is in memory, replaces the file.
saveArtifactIndexLocked == artifact_index' = artifacts'

Goes(r, place) == rpc' = [rpc EXCEPT ![r] = place]

-----------------------------------------------------------------------------
(* Requests *)

Uploading(r) == rpc[r] \in {"put", "finalize"}

\* Faulty variant: an artifact that is created again stays finalized.
CreateKeepsFinalized(r) ==
  /\ up /\ rpc[r] = "create" /\ next <= MaxIds
  /\ artifacts' = [artifacts EXCEPT ![name[r]].run = r, ![name[r]].id = next]
  /\ artifact_index' = artifacts' /\ next' = next + 1 /\ Goes(r, "put")
  /\ clash' = (clash \/ \E q \in Run \ {r} : name[q] = name[r] /\ Uploading(q))
  /\ UNCHANGED <<blob, up, name, given, download, crashes, full>>

\* handleArtifactCreate: a new entry replaces any other of the name, and the
\* index is saved. The answer may be lost, and the run creates it again.
Create(r) ==
  /\ up /\ rpc[r] = "create" /\ next <= MaxIds
  /\ artifacts' = [artifacts EXCEPT ![name[r]] =
       [run |-> r, id |-> next, finalized |-> FALSE, size |-> "none"]]
  /\ saveArtifactIndexLocked /\ next' = next + 1
  /\ \E place \in {"put", "create"} : Goes(r, place)
  /\ clash' = (clash \/ \E q \in Run \ {r} : name[q] = name[r] /\ Uploading(q))
  /\ UNCHANGED <<blob, up, name, given, download, crashes, full>>

\* handleArtifactBlobPut: the blob is overwritten. A failed write is not
\* noticed; without an answer the run sends the blob again.
Put(r) ==
  /\ up /\ rpc[r] = "put"
  /\ \/ /\ artifacts[name[r]] # NoEntry
        /\ \E what \in {r, "torn"} :
             /\ blob' = [blob EXCEPT ![name[r]] = what]
             /\ full' = (full \/ what = "torn")
        /\ \E place \in {"put", "finalize"} : Goes(r, place)
     \/ /\ artifacts[name[r]] = NoEntry   \* 404
        /\ Goes(r, "end") /\ UNCHANGED <<blob, full>>
  /\ UNCHANGED <<artifact_index, memory, name, given, download, crashes, clash>>

\* handleArtifactFinalize: the blob is measured, the entry finalized, the
\* index saved, and the id given to the run; a lost answer is asked for again.
Finalize(r) ==
  /\ up /\ rpc[r] = "finalize"
  /\ \/ /\ artifacts[name[r]] # NoEntry
        /\ artifacts' = [artifacts EXCEPT ![name[r]].finalized = TRUE,
                                          ![name[r]].size = blob[name[r]]]
        /\ saveArtifactIndexLocked
        /\ \/ given' = [given EXCEPT ![r] = artifacts[name[r]].id] /\ Goes(r, "url")
           \/ UNCHANGED <<given, rpc>>
     \/ /\ artifacts[name[r]] = NoEntry   \* 404
        /\ Goes(r, "end") /\ UNCHANGED <<artifacts, artifact_index, given>>
  /\ UNCHANGED <<blob, up, next, name, download, crashes, history>>

\* handleArtifactList shows the finalized artifacts, and
\* handleArtifactGetSignedUrl gives the URL of one.
GetSignedUrl(r) ==
  /\ up /\ rpc[r] = "url"
  /\ Goes(r, IF artifacts[name[r]].finalized THEN "get" ELSE "end")
  /\ UNCHANGED <<disk, memory, name, given, download, crashes, history>>

\* handleArtifactBlobGet: only of a finalized artifact.
BlobGet(r) ==
  /\ up /\ rpc[r] = "get"
  /\ download' = [download EXCEPT ![r] =
       IF artifacts[name[r]].finalized THEN blob[name[r]] ELSE "none"]
  /\ Goes(r, "end")
  /\ UNCHANGED <<disk, memory, name, given, crashes, history>>

-----------------------------------------------------------------------------
(* Start and crash *)

\* Faulty variant: ids start again, as those of cache uploads do.
StartRenumbers ==
  /\ ~up /\ up' = TRUE
  /\ artifacts' = artifact_index /\ next' = 1
  /\ UNCHANGED <<disk, runs, crashes, history>>

\* loadArtifactIndex: the next id is above all ids of the index.
Start ==
  /\ ~up /\ up' = TRUE
  /\ artifacts' = artifact_index
  /\ next' = 1 + Max({artifact_index[n].id : n \in Name})
  /\ UNCHANGED <<disk, runs, crashes, history>>

\* The process dies, possibly while a blob is being written; the run whose
\* request was under way sees an error and may send it again.
Crash ==
  /\ up /\ crashes < MaxCrashes
  /\ up' = FALSE /\ crashes' = crashes + 1
  /\ artifacts' = NoEntries /\ next' = 1
  /\ \/ UNCHANGED blob
     \/ \E r \in Run : /\ rpc[r] = "put" /\ artifacts[name[r]] # NoEntry
                       /\ blob' = [blob EXCEPT ![name[r]] = "torn"]
  /\ UNCHANGED <<artifact_index, runs, history>>

-----------------------------------------------------------------------------

Request(r) == Create(r) \/ Put(r) \/ Finalize(r) \/ GetSignedUrl(r) \/ BlobGet(r)

Next == (\E r \in Run : Request(r)) \/ Start \/ Crash

Spec == Init /\ [][Next]_vars

-----------------------------------------------------------------------------
(* Properties *)

\* The types: no artifact has an id that is still to be given out.
TypeOK ==
  /\ artifact_index \in [Name -> Entry] /\ artifacts \in [Name -> Entry]
  /\ blob \in [Name -> Data]
  /\ up \in BOOLEAN /\ next \in 1..(MaxIds + 1)
  /\ \A n \in Name : artifacts[n].id < next
  /\ name \in [Run -> Name]
  /\ rpc \in [Run -> {"create", "put", "finalize", "url", "get", "end"}]
  /\ given \in [Run -> 0..MaxIds] /\ download \in [Run -> Data]
  /\ crashes \in 0..MaxCrashes /\ clash \in BOOLEAN /\ full \in BOOLEAN

\* A finalized artifact is the complete blob of the run it is recorded for,
\* with the size that is listed, nobody downloads anything torn, and an
\* artifact whose id was given to its run survives until another run creates
\* the name: neither a crash while a blob is written nor a later run that
\* reuses the name and gets stuck loses or halves one. (It may be halved after
\* a write that failed unnoticed, or when two runs upload one name at once.)
ArtifactWhole ==
  /\ ~clash /\ ~full =>
       /\ \A n \in Name : artifact_index[n].finalized =>
            blob[n] = artifact_index[n].run /\ artifact_index[n].size = blob[n]
       /\ \A r \in Run : download[r] # "torn"
  /\ \A r \in Run : given[r] # 0 =>
       LET e == artifact_index[name[r]]
       IN  (e.id = given[r] /\ e.finalized) \/ e.id > given[r]

\* A step keeps the artifact of a name, or replaces it by one with a later id.
KeepsFinalized(n) ==
  LET e == artifact_index[n]
      f == artifact_index'[n]
  IN  /\ f.id >= e.id
      /\ e.finalized /\ f.id = e.id /\ ~clash' /\ ~full' => f = e /\ blob'[n] = blob[n]

\* The id of a name never goes back, across restarts as well, and under one id
\* a finalized artifact is fixed: no request and no crash changes its entry or
\* its blob, not even FinalizeArtifact when it is asked again. (With the same
\* two exceptions.)
FinalizedIsFixed == [][\A n \in Name : KeepsFinalized(n)]_vars
=============================================================================
