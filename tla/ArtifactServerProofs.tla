------------------------ MODULE ArtifactServerProofs ------------------------
(* Proofs about ArtifactServer, for every set of runs, names and bounds.    *)
EXTENDS ArtifactServer, WellFoundedInduction, TLAPS

-----------------------------------------------------------------------------
(* The greatest id of an index *)

\* A nonempty set of natural numbers has a least member.
LEMMA LeastNatural ==
  ASSUME NEW T, T \subseteq Nat, T # {}
  PROVE  \E m \in T : \A k \in T : m <= k
  <1>1. PICK m \in T : \A k \in T : ~ (<<k, m>> \in OpToRel(<, Nat))
    BY NatLessThanWellFounded, WFMin
  <1>2. \A k \in T : ~ (k < m)
    BY <1>1 DEF OpToRel
  <1> QED BY <1>2

\* A nonempty set of natural numbers below a bound has a greatest member,
\* which Max chooses.
LEMMA MaxOfBounded ==
  ASSUME NEW b \in Nat, NEW T, T \subseteq 0..b, T # {}
  PROVE  Max(T) \in T /\ \A k \in T : k <= Max(T)
  <1> DEFINE above == {u \in 0..b : \A k \in T : k <= u}
  <1>1. b \in above
    OBVIOUS
  <1>2. PICK m \in above : \A u \in above : m <= u
    <2>1. above \subseteq Nat /\ above # {}
      BY <1>1
    <2> HIDE DEF above
    <2> QED BY <2>1, LeastNatural
  <1>3. m \in T
    <2> SUFFICES ASSUME m \notin T PROVE FALSE
      OBVIOUS
    <2>1. PICK k \in T : TRUE
      OBVIOUS
    <2>2. k \in 0..b /\ k <= m /\ k # m
      BY <1>2, <2>1
    <2>3. m - 1 \in 0..b
      BY <1>2, <2>2
    <2>4. \A j \in T : j <= m - 1
      <3> TAKE j \in T
      <3>1. j \in 0..b /\ m \in 0..b /\ j <= m /\ j # m
        BY <1>2
      <3> QED BY <3>1
    <2> QED BY <1>2, <2>3, <2>4
  <1>4. \A k \in T : m >= k
    BY <1>2, <1>3
  <1>5. Max(T) \in T /\ \A k \in T : Max(T) >= k
    BY <1>3, <1>4 DEF Max
  <1> QED BY <1>5

\* The next id that loadArtifactIndex computes is above every id of the index.
LEMMA NextIsAbove ==
  ASSUME artifact_index \in [Name -> Entry]
  PROVE  LET m == Max({artifact_index[n].id : n \in Name})
         IN  m \in 0..MaxIds /\ \A n \in Name : artifact_index[n].id < 1 + m
  <1> DEFINE ids == {artifact_index[n].id : n \in Name}
  <1>1. ids \subseteq 0..MaxIds /\ ids # {}
    BY RunAssumption DEF Entry
  <1>2. \A n \in Name : artifact_index[n].id \in ids
    OBVIOUS
  <1> HIDE DEF ids
  <1>3. Max(ids) \in ids /\ \A k \in ids : k <= Max(ids)
    BY <1>1, MaxOfBounded, BoundAssumption
  <1>4. ids \subseteq Int /\ Max(ids) \in 0..MaxIds
    <2>1. Max(ids) \in ids
      BY <1>3
    <2>2. 0..MaxIds \subseteq Int
      BY BoundAssumption
    <2>3. ids \subseteq 0..MaxIds
      BY <1>1
    <2> QED BY <2>1, <2>2, <2>3, Zenon
  <1>5. \A n \in Name : artifact_index[n].id < 1 + Max(ids)
    <2> TAKE n \in Name
    <2>1. artifact_index[n].id <= Max(ids) /\ artifact_index[n].id \in Int
      BY <1>2, <1>3, <1>4
    <2> QED BY <2>1, <1>4, BoundAssumption
  <1> QED BY <1>4, <1>5 DEF ids

-----------------------------------------------------------------------------
(* The inductive invariant *)

\* The running server's memory is what the index file says.
Synced == up => artifacts = artifact_index

\* An id a run was given is still its artifact's, or a later one has the name.
GivenKept ==
  \A r \in Run : given[r] # 0 =>
    LET e == artifact_index[name[r]]
    IN  (e.id = given[r] /\ e.finalized) \/ e.id > given[r]

\* As long as no two runs upload one name at once, a run that uploads owns the
\* entry of its name, which is not finalized before the run has sent its blob.
Owned ==
  ~clash => \A r \in Run :
    /\ Uploading(r) => artifact_index[name[r]].run = r
    /\ rpc[r] = "put" => ~artifact_index[name[r]].finalized

\* If moreover every write was complete, a run about to finalize finds its own
\* blob, and so does everyone who asks for a finalized artifact.
Whole ==
  ~clash /\ ~full =>
    /\ \A r \in Run : rpc[r] = "finalize" => blob[name[r]] = r
    /\ \A n \in Name : artifact_index[n].finalized =>
         blob[n] = artifact_index[n].run /\ artifact_index[n].size = blob[n]
    /\ \A r \in Run : download[r] # "torn"

IndInv == TypeOK /\ Synced /\ GivenKept /\ Owned /\ Whole

-----------------------------------------------------------------------------
(* Steps *)

\* A step is a request of one run, a start, a crash, or a stutter.
LEMMA NextCases ==
  ASSUME [Next]_vars
  PROVE  \/ \E r \in Run : Create(r) \/ Put(r) \/ Finalize(r) \/ GetSignedUrl(r)
                           \/ BlobGet(r)
         \/ Start \/ Crash \/ UNCHANGED vars
  BY DEF Next, Request

\* An entry's fields have their types.
LEMMA EntryFields ==
  ASSUME NEW f \in [Name -> Entry], NEW n \in Name
  PROVE  /\ f[n] \in Entry
         /\ f[n].run \in Run \cup {NoRun} /\ f[n].id \in 0..MaxIds
         /\ f[n].finalized \in BOOLEAN /\ f[n].size \in Data
  BY DEF Entry

\* The first start, with nothing on disk.
LEMMA InitInv == ASSUME Init PROVE IndInv
  <1> USE DEF Init, NoEntries
  <1>1. NoEntry \in Entry /\ NoEntries \in [Name -> Entry]
    BY BoundAssumption DEF NoEntry, Entry, Data
  <1>2. TypeOK
    <2>1. name \in [Run -> Name]
      BY RunAssumption
    <2>2. blob \in [Name -> Data] /\ download \in [Run -> Data]
      BY DEF Data
    <2>3. next \in 1..(MaxIds + 1) /\ given \in [Run -> 0..MaxIds]
      BY BoundAssumption
    <2>4. \A n \in Name : artifacts[n].id < next
      BY DEF NoEntry
    <2>5. crashes \in 0..MaxCrashes
      BY BoundAssumption
    <2> QED BY <1>1, <2>1, <2>2, <2>3, <2>4, <2>5 DEF TypeOK
  <1>3. Synced /\ GivenKept
    BY DEF Synced, GivenKept
  <1>4. name \in [Run -> Name]
    BY RunAssumption
  <1>5. Owned /\ Whole
    BY <1>4 DEF Owned, Whole, Uploading, NoEntry
  <1> QED BY <1>2, <1>3, <1>5 DEF IndInv

\* A run's name is a name, and its entry in either index is an entry.
LEMMA RunFacts ==
  ASSUME TypeOK, NEW r \in Run
  PROVE  /\ name[r] \in Name
         /\ artifacts[name[r]] \in Entry /\ artifact_index[name[r]] \in Entry
         /\ artifacts[name[r]].id \in 0..MaxIds /\ artifacts[name[r]].run \in Run \cup {NoRun}
         /\ blob[name[r]] \in Data
  BY EntryFields DEF TypeOK

\* The types are kept by every step.
LEMMA TypeStep ==
  ASSUME TypeOK, Synced, [Next]_vars
  PROVE  TypeOK'
  <1> USE DEF disk, memory, runs, history, vars, Goes
  <1>1. ASSUME NEW r \in Run, Create(r) PROVE TypeOK'
    <2> DEFINE e == [run |-> r, id |-> next, finalized |-> FALSE, size |-> "none"]
    <2>1. next \in 0..MaxIds /\ next' = next + 1 /\ next' \in 1..(MaxIds + 1)
      BY <1>1, BoundAssumption DEF TypeOK, Create
    <2>2. e \in Entry
      BY <2>1 DEF Entry, Data
    <2>3. artifacts' = [artifacts EXCEPT ![name[r]] = e] /\ artifact_index' = artifacts'
      BY <1>1 DEF Create, saveArtifactIndexLocked
    <2>4. artifacts' \in [Name -> Entry]
      BY <2>2, <2>3 DEF TypeOK
    <2>5. \A n \in Name : artifacts'[n].id < next'
      <3> TAKE n \in Name
      <3>1. CASE n = name[r]
        <4>1. artifacts'[n] = e
          BY <2>3, <3>1 DEF TypeOK
        <4> QED BY <2>1, <4>1, BoundAssumption
      <3>2. CASE n # name[r]
        <4>1. artifacts'[n] = artifacts[n] /\ artifacts[n].id < next
          BY <2>3, <3>2 DEF TypeOK
        <4>2. artifacts[n].id \in 0..MaxIds
          BY EntryFields DEF TypeOK
        <4> QED BY <2>1, <4>1, <4>2, BoundAssumption
      <3> QED BY <3>1, <3>2
    <2>6. rpc' \in [Run -> {"create", "put", "finalize", "url", "get", "end"}]
      BY <1>1 DEF TypeOK, Create
    <2>7. clash' \in BOOLEAN
      BY <1>1, Zenon DEF TypeOK, Create
    <2>8. UNCHANGED <<blob, up, name, given, download, crashes, full>>
      BY <1>1 DEF Create
    <2> QED BY <2>1, <2>3, <2>4, <2>5, <2>6, <2>7, <2>8 DEF TypeOK
  <1>2. ASSUME NEW r \in Run, Put(r) PROVE TypeOK'
    <2>1. rpc' \in [Run -> {"create", "put", "finalize", "url", "get", "end"}]
      BY <1>2 DEF TypeOK, Put
    <2>2. blob' \in [Name -> Data]
      BY <1>2 DEF TypeOK, Put, Data
    <2>3. full' \in BOOLEAN
      BY <1>2, Zenon DEF TypeOK, Put
    <2>4. UNCHANGED <<artifact_index, memory, name, given, download, crashes, clash>>
      BY <1>2 DEF Put
    <2> QED BY <2>1, <2>2, <2>3, <2>4 DEF TypeOK
  <1>3. ASSUME NEW r \in Run, Finalize(r) PROVE TypeOK'
    <2>1. rpc' \in [Run -> {"create", "put", "finalize", "url", "get", "end"}]
      BY <1>3 DEF TypeOK, Finalize
    <2>2. UNCHANGED <<blob, up, next, name, download, crashes, history>>
      BY <1>3 DEF Finalize
    <2>3. up /\ artifacts = artifact_index
      BY <1>3 DEF Finalize, Synced
    <2>4. artifacts' \in [Name -> Entry] /\ artifact_index' \in [Name -> Entry]
          /\ \A n \in Name : artifacts'[n].id = artifacts[n].id
      <3>1. CASE artifacts' = artifacts /\ artifact_index' = artifact_index
        BY <3>1 DEF TypeOK
      <3>2. CASE /\ artifacts' = [artifacts EXCEPT ![name[r]].finalized = TRUE,
                                                   ![name[r]].size = blob[name[r]]]
                 /\ artifact_index' = artifacts'
        <4> DEFINE e == [artifacts[name[r]] EXCEPT !.finalized = TRUE,
                                                   !.size = blob[name[r]]]
        <4>1. artifacts[name[r]] \in Entry /\ blob[name[r]] \in Data /\ name[r] \in Name
          BY RunFacts
        <4>2. e \in Entry /\ e.id = artifacts[name[r]].id
          BY <4>1 DEF Entry
        <4>3. artifacts' = [artifacts EXCEPT ![name[r]] = e]
          BY <3>2, <4>1 DEF TypeOK
        <4> HIDE DEF e
        <4>4. artifact_index' = artifacts' /\ artifacts \in [Name -> Entry]
          BY <3>2 DEF TypeOK
        <4>5. artifacts' \in [Name -> Entry]
          BY <4>2, <4>3, <4>4
        <4>6. \A n \in Name : artifacts'[n].id = artifacts[n].id
          BY <4>2, <4>3, <4>4
        <4> QED BY <4>4, <4>5, <4>6
      <3> QED BY <1>3, <3>1, <3>2 DEF Finalize, saveArtifactIndexLocked
    <2>5. given' \in [Run -> 0..MaxIds]
      BY <1>3, RunFacts DEF TypeOK, Finalize
    <2> QED BY <2>1, <2>2, <2>4, <2>5 DEF TypeOK
  <1>4. ASSUME NEW r \in Run, GetSignedUrl(r) \/ BlobGet(r) PROVE TypeOK'
    <2>1. rpc' \in [Run -> {"create", "put", "finalize", "url", "get", "end"}]
      BY <1>4 DEF TypeOK, GetSignedUrl, BlobGet
    <2>2. download' \in [Run -> Data]
      BY <1>4, RunFacts DEF TypeOK, GetSignedUrl, BlobGet, Data
    <2>3. UNCHANGED <<disk, memory, name, given, crashes, history>>
      BY <1>4 DEF GetSignedUrl, BlobGet
    <2> QED BY <2>1, <2>2, <2>3 DEF TypeOK
  <1>5. ASSUME Start PROVE TypeOK'
    <2> DEFINE m == Max({artifact_index[n].id : n \in Name})
    <2>1. m \in 0..MaxIds /\ \A n \in Name : artifact_index[n].id < 1 + m
      BY NextIsAbove DEF TypeOK
    <2>2. next' = 1 + m /\ artifacts' = artifact_index /\ up' = TRUE
      BY <1>5 DEF Start
    <2> HIDE DEF m
    <2>3. next' \in 1..(MaxIds + 1) /\ \A n \in Name : artifacts'[n].id < next'
      BY <2>1, <2>2, BoundAssumption
    <2>4. UNCHANGED <<disk, runs, crashes, history>>
      BY <1>5 DEF Start
    <2> QED BY <2>2, <2>3, <2>4 DEF TypeOK
  <1>6. ASSUME Crash PROVE TypeOK'
    <2>1. NoEntries \in [Name -> Entry] /\ \A n \in Name : NoEntries[n].id < 1
      BY BoundAssumption DEF NoEntries, NoEntry, Entry, Data
    <2>2. next' = 1 /\ artifacts' = NoEntries /\ up' = FALSE
      BY <1>6 DEF Crash
    <2>3. next' \in 1..(MaxIds + 1) /\ crashes' \in 0..MaxCrashes
      BY <1>6, <2>2, BoundAssumption DEF Crash, TypeOK
    <2>4. blob' \in [Name -> Data]
      BY <1>6 DEF TypeOK, Crash, Data
    <2>5. UNCHANGED <<artifact_index, runs, history>>
      BY <1>6 DEF Crash
    <2> QED BY <2>1, <2>2, <2>3, <2>4, <2>5 DEF TypeOK
  <1>7. CASE UNCHANGED vars
    BY <1>7 DEF TypeOK
  <1> QED BY <1>1, <1>2, <1>3, <1>4, <1>5, <1>6, <1>7, NextCases

\* Whoever uploads a name uploads it alone, unless two runs clashed.
LEMMA OneUploader ==
  ASSUME Owned, ~clash, NEW r \in Run, NEW q \in Run,
         Uploading(r), Uploading(q), name[r] = name[q]
  PROVE  r = q
  BY DEF Owned

\* CreateArtifact: the new entry is the run's own, with an id above all others.
LEMMA CreateStep ==
  ASSUME IndInv, NEW r \in Run, Create(r)
  PROVE  Synced' /\ GivenKept' /\ Owned' /\ Whole'
  <1> DEFINE e == [run |-> r, id |-> next, finalized |-> FALSE, size |-> "none"]
  <1> USE DEF IndInv
  <1>1. /\ up /\ up' = up /\ artifacts = artifact_index
        /\ artifact_index' = [artifact_index EXCEPT ![name[r]] = e]
        /\ artifacts' = artifact_index'
    BY DEF Create, saveArtifactIndexLocked, Synced
  <1>2. artifact_index \in [Name -> Entry] /\ name \in [Run -> Name]
    BY DEF TypeOK
  <1>3. \A n \in Name : artifact_index'[n] = IF n = name[r] THEN e ELSE artifact_index[n]
    BY <1>1, <1>2
  <1>4. UNCHANGED <<blob, up, name, given, download, crashes, full>>
    BY DEF Create
  <1>5. /\ rpc[r] = "create" /\ rpc'[r] \in {"put", "create"}
        /\ \A q \in Run : q # r => rpc'[q] = rpc[q]
    BY DEF Create, Goes, TypeOK
  <1>6. ~clash' => ~clash /\ \A q \in Run \ {r} : name[q] = name[r] => ~Uploading(q)
    BY Zenon DEF Create
  <1>7. e.run = r /\ e.id = next /\ e.finalized = FALSE
    OBVIOUS
  <1> HIDE DEF e
  <1>8. GivenKept'
    <2> SUFFICES ASSUME NEW q \in Run, given[q] # 0
                 PROVE  \/ /\ artifact_index'[name[q]].id = given[q]
                           /\ artifact_index'[name[q]].finalized
                        \/ artifact_index'[name[q]].id > given[q]
      BY <1>4 DEF GivenKept
    <2>1. CASE name[q] # name[r]
      BY <1>2, <1>3, <2>1 DEF GivenKept
    <2>2. CASE name[q] = name[r]
      <3>1. artifact_index'[name[q]].id = next
        BY <1>2, <1>3, <1>7, <2>2
      <3>2. artifact_index[name[q]].id < next /\ artifact_index[name[q]].id \in 0..MaxIds
        BY <1>1, <1>2, EntryFields DEF TypeOK
      <3>3. artifact_index[name[q]].id >= given[q] /\ given[q] \in 0..MaxIds
        BY <3>2, BoundAssumption DEF GivenKept, TypeOK
      <3>4. next \in Nat
        BY BoundAssumption DEF TypeOK
      <3> QED BY <3>1, <3>2, <3>3, <3>4, BoundAssumption
    <2> QED BY <2>1, <2>2
  <1>9. Owned'
    BY <1>2, <1>3, <1>4, <1>5, <1>6, <1>7 DEF Owned, Uploading
  <1>10. Whole'
    BY <1>2, <1>3, <1>4, <1>5, <1>6, <1>7 DEF Whole
  <1>11. Synced'
    BY <1>1 DEF Synced
  <1> QED BY <1>8, <1>9, <1>10, <1>11

\* The blob put: the run owns its name's entry, which is not yet finalized.
LEMMA PutStep ==
  ASSUME IndInv, NEW r \in Run, Put(r)
  PROVE  Synced' /\ GivenKept' /\ Owned' /\ Whole'
  <1> USE DEF IndInv
  <1>1. UNCHANGED <<artifact_index, up, artifacts, next, name, given, download, clash>>
    BY DEF Put, memory
  <1>2. name \in [Run -> Name] /\ blob \in [Name -> Data]
    BY DEF TypeOK
  <1>3. /\ rpc[r] = "put" /\ rpc'[r] \in {"put", "finalize", "end"}
        /\ \A q \in Run : q # r => rpc'[q] = rpc[q]
    BY DEF Put, Goes, TypeOK
  <1>4. Synced' /\ GivenKept'
    BY <1>1 DEF Synced, GivenKept
  <1>5. Owned'
    BY <1>1, <1>3 DEF Owned, Uploading
  <1>6. Whole'
    <2> SUFFICES ASSUME ~clash, ~full' PROVE Whole'
      BY <1>1 DEF Whole
    <2>1. \/ rpc'[r] = "end" /\ blob' = blob /\ full' = full
          \/ blob' = [blob EXCEPT ![name[r]] = r] /\ ~full
      BY <1>2, <1>3 DEF Put, Goes, TypeOK
    <2>2. CASE rpc'[r] = "end" /\ blob' = blob /\ full' = full
      BY <1>1, <1>3, <2>2 DEF Whole
    <2>3. CASE blob' = [blob EXCEPT ![name[r]] = r] /\ ~full
      <3>1. \A n \in Name : blob'[n] = IF n = name[r] THEN r ELSE blob[n]
        BY <1>2, <2>3
      <3>2. \A q \in Run : rpc[q] = "finalize" => name[q] # name[r]
        BY <1>3, OneUploader DEF Uploading
      <3>3. ~artifact_index[name[r]].finalized
        BY <1>3 DEF Owned
      <3>4. \A q \in Run : rpc'[q] = "finalize" => blob'[name[q]] = q
        BY <1>2, <1>3, <2>3, <3>1, <3>2 DEF Whole
      <3>5. \A n \in Name : artifact_index[n].finalized =>
              blob'[n] = artifact_index[n].run /\ artifact_index[n].size = blob'[n]
        BY <2>3, <3>1, <3>3 DEF Whole
      <3> QED BY <1>1, <2>3, <3>4, <3>5 DEF Whole
    <2> QED BY <2>1, <2>2, <2>3
  <1> QED BY <1>4, <1>5, <1>6

\* FinalizeArtifact: what is measured is the blob of the run that asks.
LEMMA FinalizeStep ==
  ASSUME IndInv, NEW r \in Run, Finalize(r)
  PROVE  Synced' /\ GivenKept' /\ Owned' /\ Whole'
  <1> USE DEF IndInv
  <1>1. UNCHANGED <<blob, up, next, name, download, clash, full>> /\ up
    BY DEF Finalize, history
  <1>2. name \in [Run -> Name] /\ artifacts = artifact_index
        /\ artifact_index \in [Name -> Entry]
    BY <1>1 DEF TypeOK, Synced
  <1>3. /\ rpc[r] = "finalize" /\ rpc'[r] \in {"finalize", "url", "end"}
        /\ \A q \in Run : q # r => rpc'[q] = rpc[q]
    BY DEF Finalize, Goes, TypeOK
  <1>4. CASE artifacts[name[r]] = NoEntry
    <2>1. artifacts' = artifacts /\ artifact_index' = artifact_index /\ given' = given
      BY <1>4 DEF Finalize
    <2> QED BY <1>1, <1>2, <1>3, <2>1 DEF Synced, GivenKept, Owned, Whole, Uploading
  <1>5. CASE artifacts[name[r]] # NoEntry
    <2> DEFINE e == [artifact_index[name[r]] EXCEPT !.finalized = TRUE,
                                                    !.size = blob[name[r]]]
    <2>1. artifact_index[name[r]] \in Entry /\ name[r] \in Name
      BY RunFacts
    <2>2. /\ e.id = artifact_index[name[r]].id /\ e.run = artifact_index[name[r]].run
          /\ e.finalized = TRUE /\ e.size = blob[name[r]]
      BY <2>1 DEF Entry
    <2>3. artifact_index' = [artifact_index EXCEPT ![name[r]] = e]
          /\ artifacts' = artifact_index'
      BY <1>2, <1>5, <2>1 DEF Finalize, saveArtifactIndexLocked
    <2>4. \A n \in Name : artifact_index'[n] = IF n = name[r] THEN e ELSE artifact_index[n]
      BY <1>2, <2>3
    <2>5. given' = given \/ given' = [given EXCEPT ![r] = artifact_index[name[r]].id]
      BY <1>2, <1>5 DEF Finalize
    <2> HIDE DEF e
    <2>6. Synced'
      BY <2>3 DEF Synced
    <2>7. GivenKept'
      <3> SUFFICES ASSUME NEW q \in Run, given'[q] # 0
                   PROVE  \/ /\ artifact_index'[name[q]].id = given'[q]
                             /\ artifact_index'[name[q]].finalized
                          \/ artifact_index'[name[q]].id > given'[q]
        BY <1>1 DEF GivenKept
      <3>1. artifact_index'[name[q]].id = artifact_index[name[q]].id
        BY <1>2, <2>2, <2>4
      <3>2. artifact_index[name[q]].finalized => artifact_index'[name[q]].finalized
        BY <1>2, <2>2, <2>4
      <3>3. CASE given'[q] = given[q]
        BY <3>1, <3>2, <3>3 DEF GivenKept
      <3>4. CASE q = r /\ given'[q] = artifact_index[name[r]].id
        BY <1>2, <2>1, <2>2, <2>4, <3>4
      <3> QED BY <2>5, <3>3, <3>4 DEF TypeOK
    <2>8. Owned'
      <3> SUFFICES ASSUME ~clash, NEW q \in Run
                   PROVE  /\ Uploading(q)' => artifact_index'[name[q]].run = q
                          /\ rpc'[q] = "put" => ~artifact_index'[name[q]].finalized
        BY <1>1 DEF Owned
      <3>1. Uploading(q)' => Uploading(q)
        BY <1>3 DEF Uploading
      <3>2. artifact_index'[name[q]].run = artifact_index[name[q]].run
        BY <1>2, <2>2, <2>4
      <3>3. ASSUME rpc'[q] = "put" PROVE ~artifact_index'[name[q]].finalized
        <4>1. q # r /\ rpc[q] = "put"
          BY <1>3, <3>3
        <4>2. name[q] # name[r]
          BY <1>3, <4>1, OneUploader DEF Uploading
        <4> QED BY <1>2, <2>4, <4>1, <4>2 DEF Owned
      <3> QED BY <3>1, <3>2, <3>3 DEF Owned
    <2>9. Whole'
      <3> SUFFICES ASSUME ~clash, ~full PROVE Whole'
        BY <1>1 DEF Whole
      <3>1. \A q \in Run : rpc'[q] = "finalize" => blob'[name[q]] = q
        BY <1>1, <1>3 DEF Whole
      <3>2. blob[name[r]] = r /\ artifact_index[name[r]].run = r
        BY <1>3 DEF Whole, Owned, Uploading
      <3>3. \A n \in Name : artifact_index'[n].finalized =>
              blob[n] = artifact_index'[n].run /\ artifact_index'[n].size = blob[n]
        BY <2>2, <2>4, <3>2 DEF Whole
      <3> QED BY <1>1, <3>1, <3>3 DEF Whole
    <2> QED BY <2>6, <2>7, <2>8, <2>9
  <1> QED BY <1>4, <1>5

\* Asking for the URL and the download change neither disk nor memory.
LEMMA ReadStep ==
  ASSUME IndInv, NEW r \in Run, GetSignedUrl(r) \/ BlobGet(r)
  PROVE  Synced' /\ GivenKept' /\ Owned' /\ Whole'
  <1> USE DEF IndInv
  <1>1. UNCHANGED <<artifact_index, blob, up, artifacts, next, name, given, clash, full>>
    BY DEF GetSignedUrl, BlobGet, disk, memory, history
  <1>2. /\ rpc'[r] \in {"get", "end"} /\ \A q \in Run : q # r => rpc'[q] = rpc[q]
    BY DEF GetSignedUrl, BlobGet, Goes, TypeOK
  <1>3. \A q \in Run : \/ download'[q] = download[q] \/ download'[q] = "none"
                       \/ /\ q = r /\ up /\ artifacts[name[r]].finalized
                          /\ download'[q] = blob[name[r]]
    BY DEF GetSignedUrl, BlobGet, TypeOK
  <1>4. Synced' /\ GivenKept'
    BY <1>1 DEF Synced, GivenKept
  <1>5. Owned'
    BY <1>1, <1>2 DEF Owned, Uploading
  <1>6. Whole'
    <2> SUFFICES ASSUME ~clash, ~full PROVE Whole'
      BY <1>1 DEF Whole
    <2>1. ASSUME NEW q \in Run, up, artifacts[name[r]].finalized, download'[q] = blob[name[r]]
          PROVE  download'[q] # "torn"
      <3>1. name[r] \in Name /\ artifacts = artifact_index
        BY <2>1, RunFacts DEF Synced
      <3>2. blob[name[r]] = artifacts[name[r]].run
        BY <2>1, <3>1 DEF Whole
      <3>3. artifacts[name[r]].run \in Run \cup {NoRun}
        BY RunFacts
      <3> QED BY <2>1, <3>2, <3>3, RunAssumption
    <2>2. \A q \in Run : download'[q] # "torn"
      BY <1>3, <2>1 DEF Whole
    <2>3. \A q \in Run : rpc'[q] = "finalize" => blob'[name'[q]] = q
      BY <1>1, <1>2 DEF Whole
    <2> QED BY <1>1, <2>2, <2>3 DEF Whole
  <1> QED BY <1>4, <1>5, <1>6

\* A crash tears at most a blob that no finalized artifact has, and the next
\* start finds in the index what the server knew before.
LEMMA RestartStep ==
  ASSUME IndInv, Start \/ Crash
  PROVE  Synced' /\ GivenKept' /\ Owned' /\ Whole'
  <1> USE DEF IndInv
  <1>1. UNCHANGED <<artifact_index, name, rpc, given, download, clash, full>>
    BY DEF Start, Crash, disk, runs, history
  <1>2. Synced'
    BY DEF Start, Crash, Synced, disk
  <1>3. GivenKept' /\ Owned'
    BY <1>1 DEF GivenKept, Owned, Uploading
  <1>4. Whole'
    <2>1. CASE blob' = blob
      BY <1>1, <2>1 DEF Whole
    <2>2. CASE \E r \in Run : rpc[r] = "put" /\ blob' = [blob EXCEPT ![name[r]] = "torn"]
      <3> SUFFICES ASSUME ~clash, ~full PROVE Whole'
        BY <1>1 DEF Whole
      <3>1. PICK r \in Run : rpc[r] = "put" /\ blob' = [blob EXCEPT ![name[r]] = "torn"]
        BY <2>2
      <3>2. \A n \in Name : n # name[r] => blob'[n] = blob[n]
        BY <3>1 DEF TypeOK
      <3>3. ~artifact_index[name[r]].finalized
        BY <3>1 DEF Owned
      <3>4. \A q \in Run : rpc[q] = "finalize" => name[q] # name[r]
        BY <3>1, OneUploader DEF Uploading
      <3>5. \A q \in Run : rpc[q] = "finalize" => blob'[name[q]] = q
        BY <3>2, <3>4 DEF Whole, TypeOK
      <3>6. \A n \in Name : artifact_index[n].finalized =>
              blob'[n] = artifact_index[n].run /\ artifact_index[n].size = blob'[n]
        BY <3>2, <3>3 DEF Whole
      <3> QED BY <1>1, <3>5, <3>6 DEF Whole
    <2> QED BY <2>1, <2>2 DEF Start, Crash, disk
  <1> QED BY <1>2, <1>3, <1>4

-----------------------------------------------------------------------------
(* Theorems *)

\* The inductive invariant holds in every reachable state, crashes and lost
\* answers included.
THEOREM ArtifactInvariant == Spec => []IndInv
  <1>1. Init => IndInv
    BY InitInv
  <1>2. IndInv /\ [Next]_vars => IndInv'
    <2> SUFFICES ASSUME IndInv, [Next]_vars PROVE IndInv'
      OBVIOUS
    <2>1. TypeOK'
      BY TypeStep DEF IndInv
    <2>2. CASE UNCHANGED vars
      BY <2>1, <2>2 DEF IndInv, Synced, GivenKept, Owned, Whole, Uploading, vars,
                        disk, memory, runs, history
    <2>3. (Synced' /\ GivenKept' /\ Owned' /\ Whole') \/ UNCHANGED vars
      BY NextCases, CreateStep, PutStep, FinalizeStep, ReadStep, RestartStep
    <2> QED BY <2>1, <2>2, <2>3 DEF IndInv
  <1> QED BY <1>1, <1>2, PTL DEF Spec

\* Every variable keeps its type, and no artifact ever has an id that the
\* server is still to give out, also after loadArtifactIndex.
THEOREM TypeCorrect == Spec => []TypeOK
  <1>1. IndInv => TypeOK
    BY DEF IndInv
  <1> QED BY <1>1, ArtifactInvariant, PTL

\* A finalized artifact is the complete blob of its run with the size that is
\* listed, nobody downloads anything torn, and an artifact whose id was given
\* out survives until its name is created again, whatever crashes between
\* (but for a failed write answered 200, and two uploads of one name at once).
THEOREM ArtifactsStayWhole == Spec => []ArtifactWhole
  <1>1. IndInv => ArtifactWhole
    BY DEF IndInv, ArtifactWhole, Whole, GivenKept
  <1> QED BY <1>1, ArtifactInvariant, PTL

-----------------------------------------------------------------------------
(* What a step may do to a finalized artifact *)

\* Where neither entry nor blob of a name change, it keeps its artifact.
LEMMA UnchangedKeeps ==
  ASSUME TypeOK, NEW n \in Name, artifact_index'[n] = artifact_index[n], blob'[n] = blob[n]
  PROVE  KeepsFinalized(n)
  <1>1. artifact_index[n].id \in Int
    BY EntryFields, BoundAssumption DEF TypeOK
  <1> QED BY <1>1 DEF KeepsFinalized

\* CreateArtifact gives the name a later id.
LEMMA CreateKeeps ==
  ASSUME IndInv, NEW r \in Run, Create(r), NEW n \in Name
  PROVE  KeepsFinalized(n)
  <1> DEFINE e == [run |-> r, id |-> next, finalized |-> FALSE, size |-> "none"]
  <1>1. /\ artifacts = artifact_index /\ blob' = blob
        /\ artifact_index' = [artifact_index EXCEPT ![name[r]] = e]
    BY DEF Create, saveArtifactIndexLocked, IndInv, Synced
  <1>2. artifact_index \in [Name -> Entry]
    BY DEF IndInv, TypeOK
  <1>3. CASE n = name[r]
    <2>1. artifact_index'[n] = e
      BY <1>1, <1>2, <1>3
    <2>2. e.id = next
      OBVIOUS
    <2>3. artifact_index[n].id < next /\ artifact_index[n].id \in 0..MaxIds /\ next \in Nat
      BY <1>1, <1>2, EntryFields, BoundAssumption DEF IndInv, TypeOK
    <2>4. artifact_index'[n].id > artifact_index[n].id
      BY <2>1, <2>2, <2>3, BoundAssumption
    <2>5. artifact_index[n].id \in Int /\ artifact_index'[n].id \in Int
      BY <2>1, <2>2, <2>3, BoundAssumption
    <2> QED BY <2>4, <2>5 DEF KeepsFinalized
  <1>4. CASE n # name[r]
    <2>1. artifact_index'[n] = artifact_index[n]
      BY <1>1, <1>2, <1>4
    <2> QED BY <1>1, <2>1, UnchangedKeeps DEF IndInv
  <1> QED BY <1>3, <1>4

\* A blob that is put, or torn by a crash, is not of a finalized artifact,
\* unless two runs upload one name.
LEMMA WriteKeeps ==
  ASSUME IndInv, NEW r \in Run, rpc[r] = "put", NEW n \in Name,
         artifact_index' = artifact_index, clash' = clash,
         \A m \in Name \ {name[r]} : blob'[m] = blob[m]
  PROVE  KeepsFinalized(n)
  <1>1. artifact_index[n].id \in Int
    BY EntryFields, BoundAssumption DEF IndInv, TypeOK
  <1>2. CASE n = name[r]
    <2>1. ~clash' => ~artifact_index[n].finalized
      BY <1>2 DEF IndInv, Owned
    <2> QED BY <1>1, <2>1 DEF KeepsFinalized
  <1>3. CASE n # name[r]
    BY <1>3, UnchangedKeeps DEF IndInv
  <1> QED BY <1>2, <1>3

\* FinalizeArtifact, asked again, measures the same blob.
LEMMA FinalizeKeeps ==
  ASSUME IndInv, NEW r \in Run, Finalize(r), NEW n \in Name
  PROVE  KeepsFinalized(n)
  <1>1. /\ artifacts = artifact_index /\ rpc[r] = "finalize"
        /\ UNCHANGED <<blob, clash, full>>
    BY DEF Finalize, IndInv, Synced, history
  <1>2. artifact_index \in [Name -> Entry] /\ name[r] \in Name
    BY DEF IndInv, TypeOK
  <1>3. CASE artifact_index'[n] = artifact_index[n]
    BY <1>1, <1>3, UnchangedKeeps DEF IndInv
  <1>4. CASE artifact_index'[n] # artifact_index[n]
    <2> DEFINE f == [artifact_index[name[r]] EXCEPT !.finalized = TRUE,
                                                    !.size = blob[name[r]]]
    <2>1. artifact_index' = [artifact_index EXCEPT ![name[r]] = f]
      BY <1>1, <1>4 DEF Finalize, saveArtifactIndexLocked
    <2>2. n = name[r] /\ artifact_index'[n] = f
      BY <1>2, <1>4, <2>1
    <2>3. f.id = artifact_index[n].id
      BY <1>2, <2>2 DEF Entry
    <2>4. artifact_index[n].id \in Int
      BY <1>2, EntryFields, BoundAssumption
    <2>5. ASSUME artifact_index[n].finalized, ~clash, ~full PROVE FALSE
      <3>1. artifact_index[n].size = blob[n]
        BY <2>5 DEF IndInv, Whole
      <3>2. artifact_index[n].finalized = TRUE
        BY <1>2, <2>5, EntryFields
      <3>3. f = artifact_index[n]
        BY <1>2, <2>2, <3>1, <3>2 DEF Entry
      <3> QED BY <1>4, <2>2, <3>3
    <2> HIDE DEF f
    <2> QED BY <1>1, <2>2, <2>3, <2>4, <2>5 DEF KeepsFinalized
  <1> QED BY <1>3, <1>4

\* Under one id a finalized artifact never changes, entry or blob, and ids of a
\* name only grow, whatever requests are repeated and wherever the server
\* crashes (but for a failed write answered 200, and two uploads of one name at
\* once).
THEOREM FinalizedStaysFixed == Spec => FinalizedIsFixed
  <1>1. IndInv /\ [Next]_vars => [\A n \in Name : KeepsFinalized(n)]_vars
    <2> SUFFICES ASSUME IndInv, [Next]_vars, ~ UNCHANGED vars, NEW n \in Name
                 PROVE  KeepsFinalized(n)
      OBVIOUS
    <2>1. ASSUME NEW r \in Run, Create(r) PROVE KeepsFinalized(n)
      BY <2>1, CreateKeeps
    <2>2. ASSUME NEW r \in Run, Put(r) PROVE KeepsFinalized(n)
      <3>1. rpc[r] = "put" /\ artifact_index' = artifact_index /\ clash' = clash
        BY <2>2 DEF Put
      <3>2. \A m \in Name \ {name[r]} : blob'[m] = blob[m]
        BY <2>2 DEF Put, IndInv, TypeOK
      <3> QED BY <3>1, <3>2, WriteKeeps
    <2>3. ASSUME NEW r \in Run, Finalize(r) PROVE KeepsFinalized(n)
      BY <2>3, FinalizeKeeps
    <2>4. ASSUME NEW r \in Run, GetSignedUrl(r) \/ BlobGet(r) PROVE KeepsFinalized(n)
      <3>1. artifact_index' = artifact_index /\ blob' = blob
        BY <2>4 DEF GetSignedUrl, BlobGet, disk
      <3> QED BY <3>1, UnchangedKeeps DEF IndInv
    <2>5. CASE Start
      <3>1. artifact_index' = artifact_index /\ blob' = blob
        BY <2>5 DEF Start, disk
      <3> QED BY <3>1, UnchangedKeeps DEF IndInv
    <2>6. CASE Crash
      <3>1. artifact_index' = artifact_index /\ clash' = clash
        BY <2>6 DEF Crash, history
      <3>2. CASE blob' = blob
        BY <3>1, <3>2, UnchangedKeeps DEF IndInv
      <3>3. ASSUME NEW r \in Run, rpc[r] = "put", blob' = [blob EXCEPT ![name[r]] = "torn"]
            PROVE  KeepsFinalized(n)
        <4>1. \A m \in Name \ {name[r]} : blob'[m] = blob[m]
          BY <3>3 DEF IndInv, TypeOK
        <4> QED BY <3>1, <3>3, <4>1, WriteKeeps
      <3> QED BY <2>6, <3>2, <3>3 DEF Crash
    <2> QED BY <2>1, <2>2, <2>3, <2>4, <2>5, <2>6, NextCases
  <1> QED BY <1>1, ArtifactInvariant, PTL DEF Spec, FinalizedIsFixed
=============================================================================
