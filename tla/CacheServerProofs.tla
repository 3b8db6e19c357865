-------------------------- MODULE CacheServerProofs --------------------------
(***************************************************************************)
(* Proofs about the cache: whatever crashes and lost answers there are, a  *)
(* cache whose commit was confirmed stays until it is purged, a hit leads  *)
(* to a blob that is there, and what a job restores is one whole upload;   *)
(* for any numbers of clients, keys, chunks, uploads and crashes.          *)
(*                                                                         *)
(* They are about one server with a directory of its own. The daemon and   *)
(* a local run that share a directory overwrite each other's index.        *)
(***************************************************************************)
EXTENDS CacheServer, WellFoundedInduction, TLAPS

\* One process uses the cache directory.
OneServer == \A s, t \in Server : s = t

-----------------------------------------------------------------------------
(* The inductive invariant *)

\* A server that is down handles nothing and has no uploads.
DownIsIdle ==
  \A s \in Server : ~up[s] =>
    hpc[s] = "idle" /\ ppc[s] = "none" /\ uploads[s] = NoUploads

\* What the index, the servers and the clients refer to was committed; a blob
\* is only ever missing because a purge has removed it, and then it is older
\* than the cutoff.
Numbered ==
  /\ \A k \in Key : index[k] <= nblobs
  /\ \A s \in Server : \A k \in Key : entries[s][k] <= nblobs
  /\ \A c \in Client : url[c] <= nblobs
  /\ \A b \in 1..nblobs : blobs[b] = NoFile => b \in purged
  /\ \A b \in purged : b < cutoff

\* Between the rename and the record of a commit, no entry leads to the blob:
\* a purge that runs meanwhile cannot remove it.
Fresh ==
  \A s \in Server : hpc[s] = "record" =>
    /\ hblob[s] \in 1..nblobs /\ blobs[hblob[s]] # NoFile
    /\ \A k \in Key : entries[s][k] # hblob[s]

\* What a client knows at each place of its job.
ClientAt ==
  \A c \in Client :
    /\ cpc[c] \in {"lookup", "exact", "prefix"} => restored[c] = Empty
    /\ cpc[c] \in {"exact", "prefix"} => url[c] # 0
    /\ cpc[c] \in {"lookup", "exact", "prefix", "reserve"} => sent[c] = {}
    /\ cpc[c] \in {"patch", "commit"} => cid[c] # 0
    /\ epoch[c] <= boot[Home[c]]

\* The commit being handled is one of a client that waits for it, has all its
\* chunks confirmed and, unless an old id was used, has reserved since the
\* server's start.
Handling ==
  \A s \in Server : hpc[s] # "idle" =>
    /\ cpc[hclient[s]] = "commit" /\ sent[hclient[s]] = Chunk
    /\ ~stale => epoch[hclient[s]] = boot[s]
    /\ hpc[s] = "cleanup" <=> uploads[s][cid[hclient[s]]] = NoKey

\* The client reserved its upload since its server was started.
Current(c) == cid[c] # 0 /\ epoch[c] = boot[Home[c]]

\* Such an upload is its own, for its key.
Owned ==
  \A c \in Client : Current(c) =>
    /\ cid[c] < next[Home[c]]
    /\ uploads[Home[c]][cid[c]] \in {key[c], NoKey}
    /\ \A d \in Client : Current(d) /\ cid[d] = cid[c] => d = c

\* A blob that is gone, or a whole upload for the key.
SavedFor(k) == {NoFile} \cup {Whole(d) : d \in {e \in Client : key[e] = k}}

\* Confirmed chunks are in the file,
ChunksKept ==
  \A c \in Client :
    cpc[c] = "patch" /\ Current(c) /\ uploads[Home[c]][cid[c]] # NoKey =>
      \A ch \in sent[c] : files[cid[c]][ch] = c

\* which is whole when it is renamed,
FileWhole ==
  \A s \in Server : hpc[s] = "rename" =>
    files[cid[hclient[s]]] = Whole(hclient[s])

\* and is then the blob that is recorded.
BlobWhole ==
  \A s \in Server : hpc[s] = "record" =>
    blobs[hblob[s]] = Whole(hclient[s])

Kept == ~stale => ChunksKept /\ FileWhole /\ BlobWhole

\* Every blob is whole, and so is what the index and the entries lead to.
AllWhole ==
  ~stale =>
    /\ \A b \in Blob : blobs[b] \in {NoFile} \cup {Whole(d) : d \in Client}
    /\ \A s \in Server : \A k \in Key :
         entries[s][k] # 0 => blobs[entries[s][k]] \in SavedFor(k)

\* What the index has the server has, and so it is not lost when the server
\* saves its entries; the commit that is about to be confirmed is in the index.
Durable ==
  /\ \A s \in Server : up[s] =>
       \A k \in Key : index[k] # 0 => entries[s][k] # 0 \/ k \in evicted
  /\ ~stale => \A s \in Server : hpc[s] = "cleanup" =>
       index[key[hclient[s]]] # 0 \/ key[hclient[s]] \in evicted

IndInv ==
  /\ TypeOK /\ DownIsIdle /\ Numbered /\ Fresh /\ ClientAt /\ Handling /\ Owned
  /\ Kept /\ AllWhole /\ Durable
  /\ RestoredWhole /\ HitIsServable /\ CommitIsDurable

-----------------------------------------------------------------------------
(* Lemmas *)

\* A nonempty set of natural numbers has a least member.
LEMMA LeastNatural ==
  ASSUME NEW T, T \subseteq Nat, T # {}
  PROVE  \E m \in T : \A k \in T : m <= k
  <1>1. PICK m \in T : \A k \in T : ~ (<<k, m>> \in OpToRel(<, Nat))
    BY NatLessThanWellFounded, WFMin
  <1>2. \A k \in T : ~ (k < m)
    BY <1>1 DEF OpToRel
  <1> QED BY <1>2

\* A nonempty set of natural numbers below a bound has a greatest member,
\* which Max chooses.
LEMMA MaxOfBounded ==
  ASSUME NEW b \in Nat, NEW T, T \subseteq 0..b, T # {}
  PROVE  Max(T) \in T /\ \A k \in T : k <= Max(T)
  <1> DEFINE above == {u \in 0..b : \A k \in T : k <= u}
  <1>1. b \in above
    OBVIOUS
  <1>2. PICK m \in above : \A u \in above : m <= u
    <2>1. above \subseteq Nat /\ above # {}
      BY <1>1
    <2> HIDE DEF above
    <2> QED BY <2>1, LeastNatural
  <1>3. m \in T
    <2> SUFFICES ASSUME m \notin T PROVE FALSE
      OBVIOUS
    <2>1. PICK k \in T : TRUE
      OBVIOUS
    <2>2. k \in 0..b /\ k <= m /\ k # m
      BY <1>2, <2>1
    <2>3. m - 1 \in 0..b
      BY <1>2, <2>2
    <2>4. \A j \in T : j <= m - 1
      <3> TAKE j \in T
      <3>1. j \in 0..b /\ m \in 0..b /\ j <= m /\ j # m
        BY <1>2
      <3> QED BY <3>1
    <2> QED BY <1>2, <2>3, <2>4
  <1>4. \A k \in T : m >= k
    BY <1>2, <1>3
  <1>5. Max(T) \in T /\ \A k \in T : Max(T) >= k
    BY <1>3, <1>4 DEF Max
  <1> QED BY <1>5

\* The contents of files.
LEMMA Contents ==
  /\ NoFile \in Content /\ Empty \in Content /\ Empty # NoFile
  /\ \A c \in Client : Whole(c) \in Content /\ Whole(c) # NoFile
  <1>1. PICK ch \in Chunk : TRUE
    BY ChunkAssumption
  <1>2. Empty[ch] # NoFile[ch]
    BY DEF Empty, NoFile
  <1>3. \A c \in Client : Whole(c)[ch] # NoFile[ch]
    BY ClientAssumption DEF Whole, NoFile
  <1>4. /\ NoFile \in Content /\ Empty \in Content
        /\ \A c \in Client : Whole(c) \in Content
    BY DEF NoFile, Empty, Whole, Content
  <1> QED BY <1>2, <1>3, <1>4

\* A chunk that is written changes nothing else of a file that is there.
LEMMA WrittenIs ==
  ASSUME files \in [Id -> Content], NEW i \in Id, NEW ch \in Chunk,
         NEW what \in Client \cup {"torn"}
  PROVE  /\ Written(i, ch, what) \in Content
         /\ Written(i, ch, what)[ch] = what
         /\ files[i] # NoFile => \A e \in Chunk \ {ch} :
              Written(i, ch, what)[e] = files[i][e]
  <1>1. PICK f \in Content : f = IF files[i] = NoFile THEN Empty ELSE files[i]
    BY Contents
  <1>2. Written(i, ch, what) = [f EXCEPT ![ch] = what]
    BY <1>1 DEF Written
  <1>3. f \in [Chunk -> Client \cup {"none", "torn", "nofile"}]
    BY DEF Content
  <1>4. /\ [f EXCEPT ![ch] = what] \in Content
        /\ [f EXCEPT ![ch] = what][ch] = what
        /\ \A e \in Chunk \ {ch} : [f EXCEPT ![ch] = what][e] = f[e]
    BY <1>3 DEF Content
  <1> QED BY <1>1, <1>2, <1>4

\* A step is a request of a client, a step of a server, or a stutter.
LEMMA NextCases ==
  ASSUME [Next]_vars
  PROVE  \/ \E c \in Client : Lookup(c) \/ BlobGet(c) \/ Reserve(c) \/ CommitFind(c)
         \/ \E c \in Client : \E ch \in Chunk : Patch(c, ch)
         \/ \E s \in Server : CommitRename(s) \/ CommitRecord(s) \/ CommitCleanup(s)
         \/ \E s \in Server : Start(s) \/ PurgeStart(s) \/ PurgeSave(s) \/ Crash(s)
         \/ \E s \in Server : \E k \in Key : PurgeOne(s, k)
         \/ UNCHANGED vars
  BY DEF Next, ClientStep, ServerStep

\* The blob a lookup finds.
LEMMA FoundIs ==
  ASSUME TypeOK, Numbered, NEW c \in Client, Lookup(c)
  PROVE  /\ url'[c] \in 0..nblobs
         /\ cpc'[c] \in {"exact", "prefix"} => url'[c] # 0
         /\ \A d \in Client \ {c} : url'[d] = url[d]
         /\ url' \in [Client -> 0..MaxBlobs]
  <1> DEFINE found == entries[Home[c]]
  <1> DEFINE ids == {found[k] : k \in Key}
  <1>1. /\ Home[c] \in Server /\ key[c] \in Key /\ nblobs \in Nat /\ nblobs <= MaxBlobs
        /\ found \in [Key -> 0..MaxBlobs] /\ \A k \in Key : found[k] <= nblobs
    BY ServerAssumption, BoundAssumption DEF TypeOK, Numbered
  <1>2. \A k \in Key : found[k] \in 0..nblobs
    BY <1>1, BoundAssumption
  <1>3. ids \subseteq 0..nblobs /\ ids # {} /\ \A k \in Key : found[k] \in ids
    BY <1>1, <1>2
  <1>4. Max(ids) \in ids /\ \A i \in ids : i <= Max(ids)
    <2> HIDE DEF ids
    <2> QED BY <1>1, <1>3, MaxOfBounded
  <1>5. Max(ids) \in 0..nblobs
    <2> HIDE DEF ids
    <2> QED BY <1>3, <1>4, Zenon
  <1>6. found # NoEntries => Max(ids) # 0
    <2> SUFFICES ASSUME Max(ids) = 0, NEW k \in Key PROVE found[k] = 0
      BY <1>1 DEF NoEntries
    <2>1. found[k] <= Max(ids) /\ found[k] \in 0..nblobs
      <3> HIDE DEF ids
      <3> QED BY <1>2, <1>3, <1>4
    <2> HIDE DEF ids
    <2> QED BY <2>1, <1>1
  <1>7. PICK m : m = Max(ids)
    OBVIOUS
  <1>8. m \in 0..nblobs /\ (found # NoEntries => m # 0)
    BY <1>5, <1>6, <1>7
  <1>9. \/ url' = [url EXCEPT ![c] = found[key[c]]] /\ found[key[c]] # 0
        \/ url' = [url EXCEPT ![c] = m] /\ found # NoEntries
        \/ url' = url /\ cpc' = [cpc EXCEPT ![c] = "reserve"]
    BY <1>7 DEF Lookup, Goes
  <1> HIDE DEF ids, found
  <1>10. url \in [Client -> 0..MaxBlobs] /\ cpc \in [Client -> {"lookup", "exact",
           "prefix", "reserve", "patch", "commit", "saved", "done"}] /\ url[c] <= nblobs
    BY DEF TypeOK, Numbered
  <1>11. 0..nblobs \subseteq 0..MaxBlobs /\ url[c] \in 0..nblobs
    BY <1>1, <1>10, BoundAssumption
  <1>12. found[key[c]] \in 0..nblobs
    BY <1>1, <1>2
  <1> QED BY <1>8, <1>9, <1>10, <1>11, <1>12

-----------------------------------------------------------------------------
(* Types *)

\* Requests of clients keep the types.
LEMMA ClientTypes ==
  ASSUME IndInv, NEW c \in Client
  PROVE  /\ Lookup(c) => TypeOK'
         /\ BlobGet(c) => TypeOK'
         /\ Reserve(c) => TypeOK'
         /\ CommitFind(c) => TypeOK'
         /\ \A ch \in Chunk : Patch(c, ch) => TypeOK'
  <1> USE DEF disk, memory, commit, purge, client, history, Goes
  <1>1. ASSUME Lookup(c) PROVE TypeOK'
    <2>1. url' \in [Client -> 0..MaxBlobs]
      BY <1>1, FoundIs DEF IndInv
    <2>2. cpc' \in [Client -> {"lookup", "exact", "prefix", "reserve", "patch",
                               "commit", "saved", "done"}]
      BY <1>1 DEF Lookup, IndInv, TypeOK
    <2> QED BY <1>1, <2>1, <2>2 DEF Lookup, IndInv, TypeOK
  <1>2. ASSUME BlobGet(c) PROVE TypeOK'
    <2>1. url[c] \in Blob
      BY <1>2, BoundAssumption DEF BlobGet, Served, IndInv, TypeOK, ClientAt, Blob
    <2>2. restored' \in [Client -> Content]
      BY <1>2, <2>1 DEF BlobGet, IndInv, TypeOK
    <2>3. cpc' \in [Client -> {"lookup", "exact", "prefix", "reserve", "patch",
                               "commit", "saved", "done"}]
      BY <1>2 DEF BlobGet, IndInv, TypeOK
    <2> QED BY <1>2, <2>2, <2>3 DEF BlobGet, IndInv, TypeOK
  <1>3. ASSUME Reserve(c) PROVE TypeOK'
    <2>1. PICK s \in Server : s = Home[c]
      BY ServerAssumption
    <2>2. CASE entries[s][key[c]] # 0
      <3>1. UNCHANGED <<uploads, dirs, files, next, cid, epoch>> /\ Goes(c, "done")
        BY <1>3, <2>1, <2>2 DEF Reserve
      <3>2. cpc' \in [Client -> {"lookup", "exact", "prefix", "reserve", "patch",
                                 "commit", "saved", "done"}]
        BY <3>1 DEF IndInv, TypeOK
      <3> QED BY <1>3, <3>1, <3>2 DEF Reserve, IndInv, TypeOK
    <2>3. CASE entries[s][key[c]] = 0
      <3>1. /\ next[s] \in Id
            /\ uploads' = [uploads EXCEPT ![s][next[s]] = key[c]]
            /\ next' = [next EXCEPT ![s] = @ + 1]
            /\ dirs' = dirs \cup {next[s]}
            /\ files' = [files EXCEPT ![next[s]] = Empty]
            /\ \/ /\ cid' = [cid EXCEPT ![c] = next[s]]
                  /\ epoch' = [epoch EXCEPT ![c] = boot[s]]
                  /\ Goes(c, "patch")
               \/ UNCHANGED <<cid, epoch, cpc>>
        BY <1>3, <2>1, <2>3 DEF Reserve
      <3>t. /\ uploads \in [Server -> [Id -> Key \cup {NoKey}]]
            /\ next \in [Server -> 1..(MaxUploads + 1)] /\ boot \in [Server -> Nat]
            /\ cid \in [Client -> 0..MaxUploads] /\ epoch \in [Client -> Nat]
            /\ \A t \in Server : \A i \in Id : uploads[t][i] # NoKey => i < next[t]
            /\ key[c] \in Key
        BY DEF IndInv, TypeOK
      <3>2. uploads' \in [Server -> [Id -> Key \cup {NoKey}]]
        BY <3>1, <3>t
      <3>6. next[s] + 1 \in 1..(MaxUploads + 1) /\ next[s] \in 0..MaxUploads
        BY <3>1, BoundAssumption DEF Id
      <3>9. /\ next' \in [Server -> 1..(MaxUploads + 1)]
            /\ cid' \in [Client -> 0..MaxUploads]
        <4>1. next' = [next EXCEPT ![s] = next[s] + 1]
          BY <3>1, <3>t
        <4> QED BY <3>1, <3>t, <3>6, <4>1
      <3>3. \A t \in Server : \A i \in Id : uploads'[t][i] # NoKey => i < next'[t]
        BY <3>1, <3>t, BoundAssumption DEF Id
      <3>4. dirs' \subseteq Id /\ files' \in [Id -> Content]
        BY <3>1, Contents DEF IndInv, TypeOK
      <3>5. \A i \in Id \ dirs' : files'[i] = NoFile
        BY <3>1 DEF IndInv, TypeOK
      <3>7. epoch' \in [Client -> Nat]
        BY <3>1, <3>t
      <3>8. cpc' \in [Client -> {"lookup", "exact", "prefix", "reserve", "patch",
                                 "commit", "saved", "done"}]
        BY <3>1 DEF IndInv, TypeOK
      <3> QED BY <1>3, <3>2, <3>3, <3>4, <3>5, <3>7, <3>8, <3>9 DEF Reserve, IndInv, TypeOK
    <2> QED BY <2>2, <2>3
  <1>4. ASSUME CommitFind(c) PROVE TypeOK'
    <2>1. hpc' \in [Server -> {"idle", "rename", "record", "cleanup"}]
      BY <1>4 DEF CommitFind, IndInv, TypeOK
    <2>2. hclient' \in [Server -> Client]
      BY <1>4 DEF CommitFind, IndInv, TypeOK
    <2>3. cpc' \in [Client -> {"lookup", "exact", "prefix", "reserve", "patch",
                               "commit", "saved", "done"}]
      BY <1>4 DEF CommitFind, IndInv, TypeOK
    <2>4. stale' \in BOOLEAN
      BY <1>4, Zenon DEF CommitFind, UsesStale, IndInv, TypeOK
    <2> QED BY <1>4, <2>1, <2>2, <2>3, <2>4 DEF CommitFind, IndInv, TypeOK
  <1>5. ASSUME NEW ch \in Chunk, Patch(c, ch) PROVE TypeOK'
    <2>1. /\ files' \in [Id -> Content]
          /\ \A i \in Id \ dirs : files'[i] = NoFile
      <3>1. CASE UNCHANGED files
        BY <3>1 DEF IndInv, TypeOK
      <3>2. ASSUME cid[c] \in dirs, NEW w \in Client \cup {"torn"},
                   files' = [files EXCEPT ![cid[c]] = Written(cid[c], ch, w)]
            PROVE  /\ files' \in [Id -> Content]
                   /\ \A i \in Id \ dirs : files'[i] = NoFile
        <4>1. cid[c] \in Id
          BY <3>2 DEF IndInv, TypeOK
        <4>2. Written(cid[c], ch, w) \in Content
          BY <4>1, WrittenIs DEF IndInv, TypeOK
        <4> QED BY <3>2, <4>1, <4>2 DEF IndInv, TypeOK
      <3> QED BY <1>5, <3>1, <3>2 DEF Patch
    <2>2. sent' \in [Client -> SUBSET Chunk]
      BY <1>5 DEF Patch, IndInv, TypeOK
    <2>3. cpc' \in [Client -> {"lookup", "exact", "prefix", "reserve", "patch",
                               "commit", "saved", "done"}]
      BY <1>5 DEF Patch, IndInv, TypeOK
    <2>4. stale' \in BOOLEAN
      BY <1>5, Zenon DEF Patch, UsesStale, IndInv, TypeOK
    <2> QED BY <1>5, <2>1, <2>2, <2>3, <2>4 DEF Patch, IndInv, TypeOK
  <1> QED BY <1>1, <1>2, <1>3, <1>4, <1>5

\* Steps of a server keep the types.
LEMMA ServerTypes ==
  ASSUME IndInv, NEW s \in Server
  PROVE  /\ CommitRename(s) => TypeOK'
         /\ CommitRecord(s) => TypeOK'
         /\ CommitCleanup(s) => TypeOK'
         /\ Start(s) => TypeOK'
         /\ PurgeStart(s) => TypeOK'
         /\ PurgeSave(s) => TypeOK'
         /\ Crash(s) => TypeOK'
         /\ \A k \in Key : PurgeOne(s, k) => TypeOK'
  <1> USE DEF disk, memory, commit, purge, client, history, Goes, saveIndexLocked
  <1>1. ASSUME CommitRename(s) PROVE TypeOK'
    <2> DEFINE c == hclient[s]
    <2> DEFINE id == cid[c]
    <2>1. c \in Client /\ id \in Id
      BY <1>1, BoundAssumption DEF CommitRename, IndInv, TypeOK, Handling, ClientAt, Id
    <2>2. CASE nblobs' = nblobs + 1
      <3>1. /\ nblobs < MaxBlobs
            /\ blobs' = [blobs EXCEPT ![nblobs + 1] = files[id]]
            /\ files' = [files EXCEPT ![id] = NoFile]
            /\ hblob' = [hblob EXCEPT ![s] = nblobs + 1]
            /\ hpc' = [hpc EXCEPT ![s] = "record"] /\ UNCHANGED cpc
        BY <1>1, <2>2 DEF CommitRename, IndInv, TypeOK
      <3> HIDE DEF id, c
      <3>2. nblobs' \in 0..MaxBlobs
        BY <2>2, <3>1, BoundAssumption DEF IndInv, TypeOK
      <3>3. blobs' \in [Blob -> Content]
        BY <2>1, <3>1 DEF IndInv, TypeOK
      <3>4. files' \in [Id -> Content] /\ \A i \in Id \ dirs : files'[i] = NoFile
        BY <2>1, <3>1, Contents DEF IndInv, TypeOK
      <3>5. hblob' \in [Server -> 0..MaxBlobs]
        BY <2>2, <3>1, <3>2 DEF IndInv, TypeOK
      <3>6. hpc' \in [Server -> {"idle", "rename", "record", "cleanup"}]
        BY <3>1 DEF IndInv, TypeOK
      <3> QED BY <1>1, <3>1, <3>2, <3>3, <3>4, <3>5, <3>6 DEF CommitRename, IndInv, TypeOK
    <2>3. CASE UNCHANGED nblobs
      <3>1. /\ hpc' = [hpc EXCEPT ![s] = "idle"] /\ Goes(c, "done")
            /\ UNCHANGED <<nblobs, blobs, files, hblob>>
        BY <1>1, <2>3, BoundAssumption DEF CommitRename, IndInv, TypeOK
      <3>2. hpc' \in [Server -> {"idle", "rename", "record", "cleanup"}]
        BY <3>1 DEF IndInv, TypeOK
      <3>3. cpc' \in [Client -> {"lookup", "exact", "prefix", "reserve", "patch",
                                 "commit", "saved", "done"}]
        BY <3>1 DEF IndInv, TypeOK
      <3> QED BY <1>1, <3>1, <3>2, <3>3 DEF CommitRename, IndInv, TypeOK
    <2> QED BY <1>1, <2>2, <2>3 DEF CommitRename
  <1>2. ASSUME CommitRecord(s) PROVE TypeOK'
    <2> DEFINE id == cid[hclient[s]]
    <2>1. /\ entries' = [entries EXCEPT ![s][uploads[s][id]] = hblob[s]]
          /\ uploads' = [uploads EXCEPT ![s][id] = NoKey] /\ index' = entries'[s]
          /\ hpc' = [hpc EXCEPT ![s] = "cleanup"]
      BY <1>2 DEF CommitRecord
    <2> HIDE DEF id
    <2>2. entries' \in [Server -> [Key -> 0..MaxBlobs]]
      BY <2>1 DEF IndInv, TypeOK
    <2>3. index' \in [Key -> 0..MaxBlobs]
      BY <2>1, <2>2
    <2>4. uploads' \in [Server -> [Id -> Key \cup {NoKey}]]
      BY <2>1 DEF IndInv, TypeOK
    <2>5. \A t \in Server : \A i \in Id : uploads'[t][i] # NoKey => uploads[t][i] # NoKey
      BY <2>1 DEF IndInv, TypeOK
    <2>6. hpc' \in [Server -> {"idle", "rename", "record", "cleanup"}]
      BY <2>1 DEF IndInv, TypeOK
    <2> QED BY <1>2, <2>2, <2>3, <2>4, <2>5, <2>6 DEF CommitRecord, IndInv, TypeOK
  <1>3. ASSUME CommitCleanup(s) PROVE TypeOK'
    <2>1. dirs' \subseteq Id /\ files' \in [Id -> Content]
      BY <1>3, Contents DEF CommitCleanup, IndInv, TypeOK
    <2>2. \A i \in Id \ dirs' : files'[i] = NoFile
      BY <1>3 DEF CommitCleanup, IndInv, TypeOK
    <2>3. hpc' \in [Server -> {"idle", "rename", "record", "cleanup"}]
      BY <1>3 DEF CommitCleanup, IndInv, TypeOK
    <2>4. cpc' \in [Client -> {"lookup", "exact", "prefix", "reserve", "patch",
                               "commit", "saved", "done"}]
      BY <1>3 DEF CommitCleanup, IndInv, TypeOK
    <2> QED BY <1>3, <2>1, <2>2, <2>3, <2>4 DEF CommitCleanup, IndInv, TypeOK
  <1>4. ASSUME Start(s) PROVE TypeOK'
    <2>1. up' \in [Server -> BOOLEAN] /\ removed' \in [Server -> BOOLEAN]
      BY <1>4 DEF Start, IndInv, TypeOK
    <2>2. boot' \in [Server -> Nat] /\ next' \in [Server -> 1..(MaxUploads + 1)]
      BY <1>4, BoundAssumption DEF Start, IndInv, TypeOK
    <2>3. /\ entries' \in [Server -> [Key -> 0..MaxBlobs]]
          /\ uploads' \in [Server -> [Id -> Key \cup {NoKey}]]
      BY <1>4 DEF Start, IndInv, TypeOK, NoUploads
    <2>4. \A t \in Server : \A i \in Id : uploads'[t][i] # NoKey => i < next'[t]
      BY <1>4 DEF Start, IndInv, TypeOK, NoUploads
    <2>5. ppc' \in [Server -> {"none", "due", "purging", "done"}]
      BY <1>4 DEF Start, IndInv, TypeOK
    <2> QED BY <1>4, <2>1, <2>2, <2>3, <2>4, <2>5 DEF Start, IndInv, TypeOK
  <1>5. ASSUME PurgeStart(s) PROVE TypeOK'
    <2>1. cutoff' \in 0..(MaxBlobs + 1)
      BY <1>5, BoundAssumption DEF PurgeStart, IndInv, TypeOK
    <2>2. ppc' \in [Server -> {"none", "due", "purging", "done"}]
      BY <1>5 DEF PurgeStart, IndInv, TypeOK
    <2> QED BY <1>5, <2>1, <2>2 DEF PurgeStart, IndInv, TypeOK
  <1>6. ASSUME PurgeSave(s) PROVE TypeOK'
    <2>1. index' \in [Key -> 0..MaxBlobs]
      BY <1>6 DEF PurgeSave, IndInv, TypeOK
    <2>2. ppc' \in [Server -> {"none", "due", "purging", "done"}]
      BY <1>6 DEF PurgeSave, IndInv, TypeOK
    <2> QED BY <1>6, <2>1, <2>2 DEF PurgeSave, IndInv, TypeOK
  <1>7. ASSUME Crash(s) PROVE TypeOK'
    <2>1. up' \in [Server -> BOOLEAN] /\ crashes' \in 0..MaxCrashes
      BY <1>7, BoundAssumption DEF Crash, IndInv, TypeOK
    <2>2. /\ entries' \in [Server -> [Key -> 0..MaxBlobs]]
          /\ uploads' \in [Server -> [Id -> Key \cup {NoKey}]]
      BY <1>7, BoundAssumption DEF Crash, IndInv, TypeOK, NoUploads, NoEntries
    <2>3. \A t \in Server : \A i \in Id : uploads'[t][i] # NoKey => uploads[t][i] # NoKey
      BY <1>7 DEF Crash, IndInv, TypeOK, NoUploads
    <2>4. /\ hpc' \in [Server -> {"idle", "rename", "record", "cleanup"}]
          /\ ppc' \in [Server -> {"none", "due", "purging", "done"}]
      BY <1>7 DEF Crash, IndInv, TypeOK
    <2>5. cpc' \in [Client -> {"lookup", "exact", "prefix", "reserve", "patch",
                               "commit", "saved", "done"}]
      BY <1>7 DEF Crash, IndInv, TypeOK
    <2> QED BY <1>7, <2>1, <2>2, <2>3, <2>4, <2>5 DEF Crash, IndInv, TypeOK
  <1>8. ASSUME NEW k \in Key, PurgeOne(s, k) PROVE TypeOK'
    <2>1. entries[s][k] \in Blob
      BY <1>8, BoundAssumption DEF PurgeOne, Old, IndInv, TypeOK, Blob
    <2>2. blobs' \in [Blob -> Content]
      BY <1>8, Contents DEF PurgeOne, IndInv, TypeOK
    <2>3. entries' \in [Server -> [Key -> 0..MaxBlobs]]
      BY <1>8, BoundAssumption DEF PurgeOne, IndInv, TypeOK
    <2>4. removed' \in [Server -> BOOLEAN] /\ purged' \subseteq Blob /\ evicted' \subseteq Key
      BY <1>8, <2>1 DEF PurgeOne, IndInv, TypeOK
    <2> QED BY <1>8, <2>2, <2>3, <2>4 DEF PurgeOne, IndInv, TypeOK
  <1> QED BY <1>1, <1>2, <1>3, <1>4, <1>5, <1>6, <1>7, <1>8

\* Every step keeps the types.
LEMMA TypeStep == ASSUME IndInv, [Next]_vars PROVE TypeOK'
  <1>1. CASE UNCHANGED vars
    BY <1>1 DEF vars, disk, memory, commit, purge, client, history, IndInv, TypeOK
  <1> QED BY <1>1, NextCases, ClientTypes, ServerTypes

-----------------------------------------------------------------------------
(* Servers and blobs *)

\* A server that is down stays idle until it is started.
LEMMA DownStep == ASSUME IndInv, [Next]_vars PROVE DownIsIdle'
  <1> USE DEF disk, memory, commit, purge, client, history, IndInv, TypeOK, DownIsIdle
  <1>1. ASSUME NEW c \in Client, Lookup(c) \/ BlobGet(c) PROVE DownIsIdle'
    BY <1>1 DEF Lookup, BlobGet
  <1>2. ASSUME NEW c \in Client, Reserve(c) PROVE DownIsIdle'
    BY <1>2 DEF Reserve, Served
  <1>3. ASSUME NEW c \in Client, CommitFind(c) PROVE DownIsIdle'
    BY <1>3 DEF CommitFind, Served
  <1>4. ASSUME NEW c \in Client, NEW ch \in Chunk, Patch(c, ch) PROVE DownIsIdle'
    BY <1>4 DEF Patch
  <1>5. ASSUME NEW s \in Server, CommitRename(s) PROVE DownIsIdle'
    BY <1>5 DEF CommitRename
  <1>6. ASSUME NEW s \in Server, CommitRecord(s) PROVE DownIsIdle'
    BY <1>6 DEF CommitRecord
  <1>7. ASSUME NEW s \in Server, CommitCleanup(s) PROVE DownIsIdle'
    BY <1>7 DEF CommitCleanup
  <1>8. ASSUME NEW s \in Server, Start(s) PROVE DownIsIdle'
    BY <1>8 DEF Start
  <1>9. ASSUME NEW s \in Server, PurgeStart(s) \/ PurgeSave(s) PROVE DownIsIdle'
    BY <1>9 DEF PurgeStart, PurgeSave
  <1>10. ASSUME NEW s \in Server, Crash(s) PROVE DownIsIdle'
    BY <1>10 DEF Crash
  <1>11. ASSUME NEW s \in Server, NEW k \in Key, PurgeOne(s, k) PROVE DownIsIdle'
    BY <1>11 DEF PurgeOne
  <1>12. CASE UNCHANGED vars
    BY <1>12 DEF vars
  <1> QED
    BY <1>1, <1>2, <1>3, <1>4, <1>5, <1>6, <1>7, <1>8, <1>9, <1>10, <1>11, <1>12, NextCases

\* A commit takes the next number; a purge only removes what is below the
\* cutoff, which only grows.
LEMMA NumberedStep == ASSUME IndInv, [Next]_vars PROVE Numbered'
  <1> USE DEF disk, memory, commit, purge, client, history, IndInv, Numbered
  <1> DEFINE Same == UNCHANGED <<index, entries, url, nblobs, blobs, purged, cutoff>>
  <1>1. ASSUME Same PROVE Numbered'
    BY <1>1
  <1>2. ASSUME NEW c \in Client, Lookup(c) PROVE Numbered'
    <2>1. \A d \in Client : url'[d] <= nblobs
      <3>1. url'[c] \in 0..nblobs /\ \A d \in Client \ {c} : url'[d] = url[d]
        BY <1>2, FoundIs
      <3>2. nblobs \in Nat
        BY BoundAssumption DEF TypeOK
      <3>3. url'[c] <= nblobs
        BY <3>1, <3>2
      <3> QED BY <3>1, <3>3
    <2> QED BY <1>2, <2>1 DEF Lookup
  <1>3. ASSUME NEW s \in Server, CommitRename(s) PROVE Numbered'
    <2>1. CASE UNCHANGED nblobs
      <3>1. UNCHANGED blobs
        BY <1>3, <2>1, BoundAssumption DEF CommitRename, TypeOK
      <3> QED BY <1>3, <2>1, <3>1 DEF CommitRename
    <2>2. CASE nblobs' = nblobs + 1
      <3>1. /\ blobs' = [blobs EXCEPT ![nblobs + 1] = files[cid[hclient[s]]]]
            /\ files[cid[hclient[s]]] # NoFile /\ nblobs < MaxBlobs
        BY <1>3, <2>2, BoundAssumption DEF CommitRename, TypeOK
      <3>2. /\ nblobs \in Nat /\ url \in [Client -> 0..MaxBlobs]
            /\ index \in [Key -> 0..MaxBlobs] /\ blobs \in [Blob -> Content]
            /\ entries \in [Server -> [Key -> 0..MaxBlobs]]
        BY BoundAssumption DEF TypeOK
      <3>3. UNCHANGED <<index, entries, url, purged, cutoff>>
        BY <1>3 DEF CommitRename
      <3>4. \A k \in Key : index[k] <= nblobs + 1
        BY <3>2, BoundAssumption
      <3>5. \A t \in Server : \A k \in Key : entries[t][k] <= nblobs + 1
        BY <3>2, BoundAssumption
      <3>6. \A c \in Client : url[c] <= nblobs + 1
        BY <3>2, BoundAssumption
      <3>7. \A b \in 1..(nblobs + 1) : blobs'[b] = NoFile => b \in purged
        BY <3>1, <3>2, BoundAssumption DEF Blob
      <3> QED BY <2>2, <3>3, <3>4, <3>5, <3>6, <3>7
    <2> QED BY <1>3, <2>1, <2>2 DEF CommitRename
  <1>4. ASSUME NEW s \in Server, CommitRecord(s) PROVE Numbered'
    <2>1. hblob[s] <= nblobs
      BY <1>4, BoundAssumption DEF CommitRecord, Fresh, TypeOK
    <2>2. \A t \in Server : \A k \in Key : entries'[t][k] \in {entries[t][k], hblob[t]}
          /\ (t # s => entries'[t][k] = entries[t][k])
      BY <1>4 DEF CommitRecord, TypeOK
    <2>3. \A t \in Server : \A k \in Key : entries'[t][k] <= nblobs
      BY <2>1, <2>2
    <2> QED BY <1>4, <2>3 DEF CommitRecord, saveIndexLocked
  <1>5. ASSUME NEW s \in Server, Start(s) PROVE Numbered'
    BY <1>5 DEF Start, TypeOK
  <1>6. ASSUME NEW s \in Server, PurgeStart(s) PROVE Numbered'
    <2>1. \A b \in purged : b < cutoff'
      BY <1>6, BoundAssumption DEF PurgeStart, TypeOK, Blob
    <2> QED BY <1>6, <2>1 DEF PurgeStart
  <1>7. ASSUME NEW s \in Server, PurgeSave(s) PROVE Numbered'
    BY <1>7 DEF PurgeSave, saveIndexLocked
  <1>8. ASSUME NEW s \in Server, Crash(s) PROVE Numbered'
    <2>1. \A t \in Server : \A k \in Key : entries'[t][k] <= nblobs
      BY <1>8, BoundAssumption DEF Crash, TypeOK, NoEntries
    <2> QED BY <1>8, <2>1 DEF Crash
  <1>9. ASSUME NEW s \in Server, NEW k \in Key, PurgeOne(s, k) PROVE Numbered'
    <2>1. \A t \in Server : \A l \in Key : entries'[t][l] <= nblobs
      BY <1>9, BoundAssumption DEF PurgeOne, TypeOK
    <2>2. entries[s][k] < cutoff
      BY <1>9, BoundAssumption DEF PurgeOne, Old, TypeOK
    <2>3. \A b \in 1..nblobs : blobs'[b] = NoFile => b \in purged'
      BY <1>9, BoundAssumption DEF PurgeOne, TypeOK, Blob
    <2>4. \A b \in purged' : b < cutoff
      BY <1>9, <2>2 DEF PurgeOne
    <2> QED BY <1>9, <2>1, <2>3, <2>4 DEF PurgeOne
  <1>10. ASSUME NEW c \in Client, BlobGet(c) \/ Reserve(c) \/ CommitFind(c) PROVE Same
    BY <1>10 DEF BlobGet, Reserve, CommitFind
  <1>11. ASSUME NEW c \in Client, NEW ch \in Chunk, Patch(c, ch) PROVE Same
    BY <1>11 DEF Patch
  <1>12. ASSUME NEW s \in Server, CommitCleanup(s) PROVE Same
    BY <1>12 DEF CommitCleanup
  <1>13. ASSUME UNCHANGED vars PROVE Same
    BY <1>13 DEF vars
  <1> HIDE DEF Same
  <1> QED
    BY <1>1, <1>2, <1>3, <1>4, <1>5, <1>6, <1>7, <1>8, <1>9, <1>10, <1>11, <1>12,
       <1>13, NextCases

\* The blob of a commit is new when it is renamed, and only a purge on behalf
\* of an entry removes blobs.
LEMMA FreshStep == ASSUME OneServer, IndInv, [Next]_vars PROVE Fresh'
  <1> USE DEF disk, memory, commit, purge, client, history, IndInv, OneServer
  <1> DEFINE Same == UNCHANGED <<hpc, hblob, nblobs, blobs, entries>>
  <1> SUFFICES ASSUME NEW t \in Server, hpc'[t] = "record"
               PROVE  /\ hblob'[t] \in 1..nblobs' /\ blobs'[hblob'[t]] # NoFile
                      /\ \A k \in Key : entries'[t][k] # hblob'[t]
    BY DEF Fresh
  <1> DEFINE Goal == /\ hblob'[t] \in 1..nblobs' /\ blobs'[hblob'[t]] # NoFile
                     /\ \A k \in Key : entries'[t][k] # hblob'[t]
  <1>1. ASSUME Same PROVE Goal
    BY <1>1 DEF Fresh
  <1>2. ASSUME NEW s \in Server, CommitRename(s) PROVE Goal
    <2>1. s = t
      OBVIOUS
    <2>2. /\ blobs' = [blobs EXCEPT ![nblobs + 1] = files[cid[hclient[s]]]]
          /\ files[cid[hclient[s]]] # NoFile /\ nblobs < MaxBlobs
          /\ nblobs' = nblobs + 1 /\ hblob' = [hblob EXCEPT ![s] = nblobs + 1]
          /\ UNCHANGED entries
      BY <1>2, <2>1 DEF CommitRename, TypeOK
    <2>3. /\ nblobs \in Nat /\ blobs \in [Blob -> Content]
          /\ hblob \in [Server -> 0..MaxBlobs]
          /\ entries \in [Server -> [Key -> 0..MaxBlobs]]
      BY BoundAssumption DEF TypeOK
    <2>4. hblob'[t] = nblobs + 1 /\ nblobs + 1 \in 1..nblobs' /\ nblobs + 1 \in Blob
      BY <2>1, <2>2, <2>3, BoundAssumption DEF Blob
    <2>5. blobs'[nblobs + 1] # NoFile
      BY <2>2, <2>3, <2>4
    <2>6. \A k \in Key : entries[t][k] # nblobs + 1
      BY <2>3, BoundAssumption DEF Numbered
    <2> QED BY <2>2, <2>4, <2>5, <2>6
  <1>3. ASSUME NEW s \in Server, NEW k \in Key, PurgeOne(s, k) PROVE Goal
    <2>1. s = t /\ hpc[t] = "record"
      BY <1>3 DEF PurgeOne
    <2>2. /\ hblob[t] \in 1..nblobs /\ blobs[hblob[t]] # NoFile
          /\ \A l \in Key : entries[t][l] # hblob[t]
      BY <2>1 DEF Fresh
    <2>3. blobs'[hblob[t]] = blobs[hblob[t]]
      BY <1>3, <2>1, <2>2 DEF PurgeOne, TypeOK
    <2>4. \A l \in Key : entries'[t][l] \in {entries[t][l], 0}
      BY <1>3, <2>1 DEF PurgeOne, TypeOK
    <2>5. \A l \in Key : entries'[t][l] # hblob[t]
      BY <2>2, <2>4
    <2> QED BY <1>3, <2>2, <2>3, <2>5 DEF PurgeOne
  <1>4. ASSUME NEW c \in Client, CommitFind(c) PROVE Goal
    <2>1. Home[c] = t
      BY ServerAssumption
    <2> QED BY <1>4, <2>1 DEF CommitFind, Served, TypeOK
  <1>5. ASSUME NEW s \in Server, CommitRecord(s) \/ CommitCleanup(s) \/ Crash(s) PROVE FALSE
    <2>1. s = t
      OBVIOUS
    <2> QED BY <1>5, <2>1 DEF CommitRecord, CommitCleanup, Crash, TypeOK
  <1>6. ASSUME NEW s \in Server, Start(s) PROVE FALSE
    <2>1. s = t
      OBVIOUS
    <2> QED BY <1>6, <2>1 DEF Start, DownIsIdle
  <1>7. ASSUME NEW c \in Client, Lookup(c) \/ BlobGet(c) \/ Reserve(c) PROVE Same
    BY <1>7 DEF Lookup, BlobGet, Reserve
  <1>8. ASSUME NEW c \in Client, NEW ch \in Chunk, Patch(c, ch) PROVE Same
    BY <1>8 DEF Patch
  <1>9. ASSUME NEW s \in Server, PurgeStart(s) \/ PurgeSave(s) PROVE Same
    BY <1>9 DEF PurgeStart, PurgeSave
  <1>10. ASSUME UNCHANGED vars PROVE Same
    BY <1>10 DEF vars
  <1> HIDE DEF Same, Goal
  <1>11. Goal
    BY <1>1, <1>2, <1>3, <1>4, <1>5, <1>6, <1>7, <1>8, <1>9, <1>10, NextCases
  <1> QED BY <1>11 DEF Goal

\* Purged or not: a hit of a server that has purged is there, and a client
\* that downloads nothing was overtaken by the purge.
LEMMA HitStep == ASSUME OneServer, IndInv, [Next]_vars PROVE HitIsServable'
  <1> USE DEF disk, memory, commit, purge, client, history, IndInv, OneServer
  <1> DEFINE Honoured == \A s \in Purger : up[s] /\ ppc[s] = "done" =>
                       \A k \in Key : entries[s][k] # 0 => blobs[entries[s][k]] # NoFile
  <1> DEFINE Gone == \A c \in Client : restored[c] = NoFile => url[c] \in purged
  <1> DEFINE SameHits == UNCHANGED <<up, ppc, entries, blobs>>
  <1> DEFINE SameGone == UNCHANGED <<restored, url, purged>>
  <1>1. Honoured /\ Gone
    BY DEF HitIsServable
  <1>2. ASSUME SameHits PROVE Honoured'
    BY <1>1, <1>2
  <1>3. ASSUME SameGone PROVE Gone'
    BY <1>1, <1>3
  <1>4. ASSUME NEW s \in Server, CommitRename(s) PROVE Honoured' /\ SameGone
    <2>1. UNCHANGED <<up, ppc, entries, restored, url, purged>>
      BY <1>4 DEF CommitRename
    <2>2. ASSUME NEW t \in Server, NEW k \in Key, entries[t][k] # 0
          PROVE  blobs'[entries[t][k]] = blobs[entries[t][k]]
      <3>1. UNCHANGED blobs \/ blobs' = [blobs EXCEPT ![nblobs + 1] = files[cid[hclient[s]]]]
        BY <1>4 DEF CommitRename
      <3>2. entries[t][k] # nblobs + 1 /\ entries[t][k] \in Blob
        BY <2>2, BoundAssumption DEF Numbered, TypeOK, Blob
      <3> QED BY <3>1, <3>2 DEF TypeOK
    <2>3. Honoured'
      BY <1>1, <2>1, <2>2, ServerAssumption
    <2> QED BY <2>1, <2>3
  <1>5. ASSUME NEW s \in Server, CommitRecord(s) PROVE Honoured' /\ SameGone
    <2>1. UNCHANGED <<up, ppc, blobs, restored, url, purged>>
      BY <1>5 DEF CommitRecord
    <2>2. blobs[hblob[s]] # NoFile
      BY <1>5 DEF CommitRecord, Fresh
    <2>3. \A t \in Server : t = s /\ \A k \in Key : entries'[t][k] \in {entries[t][k], hblob[t]}
      BY <1>5 DEF CommitRecord, TypeOK
    <2>4. Honoured'
      BY <1>1, <2>1, <2>2, <2>3, ServerAssumption
    <2> QED BY <2>1, <2>4
  <1>6. ASSUME NEW s \in Server, Start(s) PROVE Honoured' /\ SameGone
    <2>1. \A t \in Purger : t = s /\ ppc'[t] = "due"
      BY <1>6, ServerAssumption DEF Start, TypeOK
    <2> QED BY <1>6, <2>1 DEF Start
  <1>7. ASSUME NEW s \in Server, PurgeStart(s) PROVE Honoured' /\ SameGone
    <2>1. \A t \in Purger : t = s /\ ppc'[t] = "purging"
      BY <1>7, ServerAssumption DEF PurgeStart, TypeOK
    <2> QED BY <1>7, <2>1 DEF PurgeStart
  <1>8. ASSUME NEW s \in Server, NEW k \in Key, PurgeOne(s, k) PROVE Honoured' /\ Gone'
    <2>1. \A t \in Purger : t = s /\ ppc'[t] = "purging"
      BY <1>8, ServerAssumption DEF PurgeOne
    <2>2. Gone'
      BY <1>1, <1>8 DEF PurgeOne
    <2> QED BY <2>1, <2>2
  <1>9. ASSUME NEW s \in Server, PurgeSave(s) PROVE Honoured' /\ SameGone
    <2>1. ASSUME NEW k \in Key, entries[s][k] # 0 PROVE blobs[entries[s][k]] # NoFile
      <3>1. entries[s][k] \in 1..nblobs
        BY <2>1, BoundAssumption DEF Numbered, TypeOK
      <3>2. ~ (entries[s][k] \in 1..(cutoff - 1))
        BY <1>9 DEF PurgeSave, Old
      <3>3. ~ (entries[s][k] < cutoff)
        BY <3>1, <3>2, BoundAssumption DEF TypeOK
      <3> QED BY <3>1, <3>3 DEF Numbered
    <2>2. UNCHANGED <<up, entries, blobs, restored, url, purged>>
      BY <1>9 DEF PurgeSave
    <2> QED BY <2>1, <2>2, ServerAssumption
  <1>10. ASSUME NEW s \in Server, Crash(s) PROVE Honoured' /\ SameGone
    <2>1. \A t \in Purger : t = s /\ ~up'[t]
      BY <1>10, ServerAssumption DEF Crash, TypeOK
    <2> QED BY <1>10, <2>1 DEF Crash
  <1>11. ASSUME NEW c \in Client, Lookup(c) PROVE SameHits /\ Gone'
    <2>1. UNCHANGED <<up, ppc, entries, blobs, restored, purged>> /\ restored[c] # NoFile
      BY <1>11, Contents DEF Lookup, Served, ClientAt
    <2>2. \A d \in Client \ {c} : url'[d] = url[d]
      BY <1>11, FoundIs
    <2> QED BY <1>1, <2>1, <2>2
  <1>12. ASSUME NEW c \in Client, BlobGet(c) PROVE SameHits /\ Gone'
    <2>1. UNCHANGED <<up, ppc, entries, blobs, url, purged>>
      BY <1>12 DEF BlobGet
    <2>2. url[c] \in 1..nblobs
      BY <1>12, BoundAssumption DEF BlobGet, Served, ClientAt, Numbered, TypeOK
    <2>3. blobs[url[c]] = NoFile => url[c] \in purged
      BY <2>2 DEF Numbered
    <2>4. restored' = [restored EXCEPT ![c] = blobs[url[c]]] /\ restored \in [Client -> Content]
      BY <1>12 DEF BlobGet, TypeOK
    <2>5. \A d \in Client : restored'[d] = IF d = c THEN blobs[url[c]] ELSE restored[d]
      BY <2>4
    <2> QED BY <1>1, <2>1, <2>3, <2>5
  <1>13. ASSUME NEW c \in Client, Reserve(c) \/ CommitFind(c) PROVE SameHits /\ SameGone
    BY <1>13 DEF Reserve, CommitFind
  <1>14. ASSUME NEW c \in Client, NEW ch \in Chunk, Patch(c, ch) PROVE SameHits /\ SameGone
    BY <1>14 DEF Patch
  <1>15. ASSUME NEW s \in Server, CommitCleanup(s) PROVE SameHits /\ SameGone
    BY <1>15 DEF CommitCleanup
  <1>16. ASSUME UNCHANGED vars PROVE SameHits /\ SameGone
    BY <1>16 DEF vars
  <1> HIDE DEF Honoured, Gone, SameHits, SameGone
  <1>17. Honoured' /\ Gone'
    BY <1>2, <1>3, <1>4, <1>5, <1>6, <1>7, <1>8, <1>9, <1>10, <1>11, <1>12, <1>13,
       <1>14, <1>15, <1>16, NextCases
  <1> QED BY <1>17 DEF HitIsServable, Honoured, Gone

-----------------------------------------------------------------------------
(* Clients and their uploads *)

\* A client's place says what it knows.
LEMMA ClientStepInv == ASSUME IndInv, [Next]_vars PROVE ClientAt'
  <1> USE DEF disk, memory, commit, purge, client, history, IndInv, ClientAt, Goes
  <1> DEFINE Same == UNCHANGED <<cpc, restored, url, sent, cid, epoch, boot>>
  <1>1. ASSUME Same PROVE ClientAt'
    BY <1>1
  <1>2. ASSUME NEW c \in Client, Lookup(c) PROVE ClientAt'
    <2>1. /\ cpc'[c] \in {"exact", "prefix"} => url'[c] # 0
          /\ \A d \in Client \ {c} : url'[d] = url[d]
      BY <1>2, FoundIs
    <2>2. /\ cpc'[c] \in {"exact", "prefix", "reserve"} /\ cpc[c] = "lookup"
          /\ \A d \in Client \ {c} : cpc'[d] = cpc[d]
      BY <1>2 DEF Lookup, Served, TypeOK
    <2> QED BY <1>2, <2>1, <2>2 DEF Lookup
  <1>3. ASSUME NEW c \in Client, BlobGet(c) PROVE ClientAt'
    <2>1. /\ cpc'[c] \in {"done", "reserve"} /\ cpc[c] \in {"exact", "prefix"}
          /\ \A d \in Client \ {c} : cpc'[d] = cpc[d] /\ restored'[d] = restored[d]
      BY <1>3 DEF BlobGet, Served, TypeOK
    <2> QED BY <1>3, <2>1 DEF BlobGet
  <1>4. ASSUME NEW c \in Client, Reserve(c) PROVE ClientAt'
    <2>1. PICK s \in Server : s = Home[c]
      BY ServerAssumption
    <2>2. /\ \A d \in Client \ {c} :
               cpc'[d] = cpc[d] /\ cid'[d] = cid[d] /\ epoch'[d] = epoch[d]
          /\ cpc[c] = "reserve"
          /\ \/ cpc'[c] = "patch" /\ cid'[c] \in Id /\ epoch'[c] = boot[s]
             \/ cpc'[c] \in {"done", "reserve"} /\ UNCHANGED <<cid, epoch>>
      BY <1>4, <2>1 DEF Reserve, Served, TypeOK
    <2>3. 0 \notin Id /\ boot[s] <= boot[s]
      BY BoundAssumption DEF Id, TypeOK
    <2> QED BY <1>4, <2>1, <2>2, <2>3 DEF Reserve
  <1>5. ASSUME NEW c \in Client, CommitFind(c) PROVE ClientAt'
    <2>1. /\ cpc'[c] \in {"commit", "done"} /\ cpc[c] = "patch"
          /\ \A d \in Client \ {c} : cpc'[d] = cpc[d]
      BY <1>5 DEF CommitFind, Served, TypeOK
    <2> QED BY <1>5, <2>1 DEF CommitFind
  <1>6. ASSUME NEW c \in Client, NEW ch \in Chunk, Patch(c, ch) PROVE ClientAt'
    <2>1. /\ cpc'[c] \in {"patch", "done"} /\ cpc[c] = "patch"
          /\ \A d \in Client \ {c} : cpc'[d] = cpc[d] /\ sent'[d] = sent[d]
      BY <1>6 DEF Patch, Served, TypeOK
    <2> QED BY <1>6, <2>1 DEF Patch
  <1>7. ASSUME NEW s \in Server, CommitRename(s) PROVE ClientAt'
    <2>1. \A d \in Client : cpc'[d] \in {cpc[d], "done"}
      BY <1>7 DEF CommitRename, TypeOK
    <2> QED BY <1>7, <2>1 DEF CommitRename
  <1>8. ASSUME NEW s \in Server, CommitCleanup(s) PROVE ClientAt'
    <2>1. \A d \in Client : cpc'[d] = cpc[d] \/ (cpc[d] = "commit" /\ cpc'[d] \in {"saved", "patch"})
      BY <1>8 DEF CommitCleanup, TypeOK, Handling
    <2> QED BY <1>8, <2>1 DEF CommitCleanup
  <1>9. ASSUME NEW s \in Server, Crash(s) PROVE ClientAt'
    <2>1. \A d \in Client : cpc'[d] = cpc[d] \/ (cpc[d] = "commit" /\ cpc'[d] = "patch")
      BY <1>9 DEF Crash, TypeOK
    <2> QED BY <1>9, <2>1 DEF Crash
  <1>10. ASSUME NEW s \in Server, Start(s) PROVE ClientAt'
    <2>1. \A c \in Client : epoch[c] <= boot'[Home[c]]
      <3> TAKE c \in Client
      <3>1. PICK t \in Server : t = Home[c]
        BY ServerAssumption
      <3>2. boot'[t] = boot[t] \/ boot'[t] = boot[t] + 1
        BY <1>10 DEF Start, TypeOK
      <3>3. epoch[c] \in Nat /\ boot[t] \in Nat /\ epoch[c] <= boot[t]
        BY <3>1 DEF TypeOK
      <3> QED BY <3>1, <3>2, <3>3
    <2> QED BY <1>10, <2>1 DEF Start
  <1>11. ASSUME NEW s \in Server, CommitRecord(s) \/ PurgeStart(s) \/ PurgeSave(s) PROVE Same
    BY <1>11 DEF CommitRecord, PurgeStart, PurgeSave
  <1>12. ASSUME NEW s \in Server, NEW k \in Key, PurgeOne(s, k) PROVE Same
    BY <1>12 DEF PurgeOne
  <1>13. ASSUME UNCHANGED vars PROVE Same
    BY <1>13 DEF vars
  <1> HIDE DEF Same
  <1> QED
    BY <1>1, <1>2, <1>3, <1>4, <1>5, <1>6, <1>7, <1>8, <1>9, <1>10, <1>11, <1>12,
       <1>13, NextCases

\* Keys are fixed, and what was once done with an old id is not undone.
LEMMA Fixed ==
  ASSUME [Next]_vars
  PROVE  key' = key /\ (stale => stale')
  <1> USE DEF disk, memory, commit, purge, client, history
  <1>1. ASSUME NEW c \in Client, Lookup(c) \/ BlobGet(c) \/ Reserve(c)
        PROVE  key' = key /\ stale' = stale
    BY <1>1 DEF Lookup, BlobGet, Reserve
  <1>7. ASSUME NEW c \in Client, CommitFind(c)
        PROVE  key' = key /\ (stale => stale')
    BY <1>7 DEF CommitFind, UsesStale
  <1>2. ASSUME NEW c \in Client, NEW ch \in Chunk, Patch(c, ch)
        PROVE  key' = key /\ (stale => stale')
    BY <1>2 DEF Patch, UsesStale
  <1>3. ASSUME NEW s \in Server, CommitRename(s) \/ CommitRecord(s) \/ CommitCleanup(s)
        PROVE  key' = key /\ stale' = stale
    BY <1>3 DEF CommitRename, CommitRecord, CommitCleanup
  <1>4. ASSUME NEW s \in Server, Start(s) \/ PurgeStart(s) \/ PurgeSave(s) \/ Crash(s)
        PROVE  key' = key /\ stale' = stale
    BY <1>4 DEF Start, PurgeStart, PurgeSave, Crash
  <1>5. ASSUME NEW s \in Server, NEW k \in Key, PurgeOne(s, k)
        PROVE  key' = key /\ stale' = stale
    BY <1>5 DEF PurgeOne
  <1>6. ASSUME UNCHANGED vars PROVE key' = key /\ stale' = stale
    BY <1>6 DEF vars
  <1> QED BY <1>1, <1>2, <1>3, <1>4, <1>5, <1>6, <1>7, NextCases

\* The commit that is handled is its client's until it is answered.
LEMMA HandlingStep == ASSUME OneServer, IndInv, [Next]_vars PROVE Handling'
  <1> USE DEF disk, memory, commit, purge, client, history, IndInv, OneServer, Goes
  <1> DEFINE Same == UNCHANGED <<hpc, hclient, cpc, sent, epoch, boot, uploads, cid, stale>>
  <1> SUFFICES ASSUME NEW t \in Server, hpc'[t] # "idle"
               PROVE  /\ cpc'[hclient'[t]] = "commit" /\ sent'[hclient'[t]] = Chunk
                      /\ ~stale' => epoch'[hclient'[t]] = boot'[t]
                      /\ hpc'[t] = "cleanup" <=> uploads'[t][cid'[hclient'[t]]] = NoKey
    BY DEF Handling
  <1> DEFINE Goal == /\ cpc'[hclient'[t]] = "commit" /\ sent'[hclient'[t]] = Chunk
                     /\ ~stale' => epoch'[hclient'[t]] = boot'[t]
                     /\ hpc'[t] = "cleanup" <=> uploads'[t][cid'[hclient'[t]]] = NoKey
  <1>1. ASSUME Same PROVE Goal
    BY <1>1 DEF Handling
  <1>2. ASSUME NEW c \in Client, CommitFind(c) PROVE Goal
    <2>1. Home[c] = t
      BY ServerAssumption
    <2>2. Known(c) /\ cpc' = [cpc EXCEPT ![c] = "commit"] /\ hclient' = [hclient EXCEPT ![t] = c]
      BY <1>2, <2>1 DEF CommitFind, Served
    <2>3. hclient'[t] = c /\ cpc'[c] = "commit" /\ sent'[c] = Chunk
      BY <1>2, <2>2 DEF CommitFind, TypeOK
    <2>4. ~stale' => epoch'[c] = boot'[t]
      BY <1>2, <2>1, <2>2 DEF CommitFind, UsesStale
    <2>5. uploads'[t][cid'[c]] # NoKey /\ hpc'[t] = "rename"
      BY <1>2, <2>1, <2>2 DEF CommitFind, Known, TypeOK, Served
    <2> QED BY <2>3, <2>4, <2>5
  <1>3. ASSUME NEW c \in Client, Lookup(c) \/ BlobGet(c) \/ Reserve(c) PROVE FALSE
    <2>1. Home[c] = t
      BY ServerAssumption
    <2> QED BY <1>3, <2>1 DEF Lookup, BlobGet, Reserve, Served
  <1>4. ASSUME NEW c \in Client, NEW ch \in Chunk, Patch(c, ch) PROVE FALSE
    <2>1. Home[c] = t
      BY ServerAssumption
    <2> QED BY <1>4, <2>1 DEF Patch, Served
  <1>5. ASSUME NEW s \in Server, CommitRename(s) PROVE Goal
    <2>1. s = t /\ hpc[t] = "rename"
      BY <1>5 DEF CommitRename
    <2>2. UNCHANGED <<hclient, cpc, sent, epoch, boot, uploads, cid, stale>>
          /\ hpc'[t] = "record"
      BY <1>5, <2>1 DEF CommitRename, TypeOK
    <2> QED BY <2>1, <2>2 DEF Handling
  <1>6. ASSUME NEW s \in Server, CommitRecord(s) PROVE Goal
    <2>1. s = t /\ hpc[t] = "record" /\ hpc'[t] = "cleanup"
      BY <1>6 DEF CommitRecord, TypeOK
    <2>2. UNCHANGED <<hclient, cpc, sent, epoch, boot, cid, stale>>
      BY <1>6 DEF CommitRecord
    <2>3. uploads'[t][cid[hclient[t]]] = NoKey
      <3>1. cid[hclient[t]] \in Id
        BY <2>1, BoundAssumption DEF Handling, ClientAt, TypeOK, Id
      <3> QED BY <1>6, <2>1, <3>1 DEF CommitRecord, TypeOK
    <2> QED BY <2>1, <2>2, <2>3 DEF Handling
  <1>7. ASSUME NEW s \in Server, CommitCleanup(s) \/ Crash(s) PROVE FALSE
    <2>1. s = t
      OBVIOUS
    <2> QED BY <1>7, <2>1 DEF CommitCleanup, Crash, TypeOK
  <1>8. ASSUME NEW s \in Server, Start(s) PROVE FALSE
    <2>1. s = t
      OBVIOUS
    <2> QED BY <1>8, <2>1 DEF Start, DownIsIdle
  <1>9. ASSUME NEW s \in Server, PurgeStart(s) \/ PurgeSave(s) PROVE Same
    BY <1>9 DEF PurgeStart, PurgeSave
  <1>10. ASSUME NEW s \in Server, NEW k \in Key, PurgeOne(s, k) PROVE Same
    BY <1>10 DEF PurgeOne
  <1>11. ASSUME UNCHANGED vars PROVE Same
    BY <1>11 DEF vars
  <1> HIDE DEF Same, Goal
  <1>12. Goal
    BY <1>1, <1>2, <1>3, <1>4, <1>5, <1>6, <1>7, <1>8, <1>9, <1>10, <1>11, NextCases
  <1> QED BY <1>12 DEF Goal

\* Ids are not used twice between two starts.
LEMMA OwnedStep == ASSUME OneServer, IndInv, [Next]_vars PROVE Owned'
  <1> USE DEF disk, memory, commit, purge, client, history, IndInv, OneServer
  <1> DEFINE Same == UNCHANGED <<cid, epoch, boot, next, uploads, key>>
  <1>1. ASSUME Same PROVE Owned'
    BY <1>1 DEF Owned, Current
  <1>2. ASSUME UNCHANGED <<cid, epoch, boot, next, key>>,
               \A s \in Server : \A i \in Id : uploads'[s][i] \in {uploads[s][i], NoKey}
        PROVE  Owned'
    <2>1. \A c \in Client : Current(c)' = Current(c)
      BY <1>2 DEF Current
    <2>2. \A c \in Client : Current(c) => cid[c] \in Id
      BY BoundAssumption DEF Current, TypeOK, Id
    <2> QED BY <1>2, <2>1, <2>2, ServerAssumption DEF Owned
  <1>3. ASSUME NEW c \in Client, Reserve(c) PROVE Owned'
    <2>1. PICK s \in Server : s = Home[c] /\ \A d \in Client : Home[d] = s
      BY ServerAssumption
    <2>2. CASE UNCHANGED <<cid, epoch>>
      <3>1. /\ next'[s] \in {next[s], next[s] + 1} /\ UNCHANGED <<boot, key>>
            /\ \A i \in Id : i # next[s] => uploads'[s][i] = uploads[s][i]
        BY <1>3, <2>1 DEF Reserve, TypeOK
      <3>2. \A d \in Client : Current(d)' = Current(d)
        BY <2>2, <3>1 DEF Current
      <3>3. ASSUME NEW d \in Client, Current(d)
            PROVE  /\ cid[d] < next'[s] /\ cid[d] # next[s] /\ cid[d] \in Id
                   /\ uploads[s][cid[d]] \in {key[d], NoKey}
                   /\ \A e \in Client : Current(e) /\ cid[e] = cid[d] => e = d
        <4>1. cid[d] \in Id /\ next[s] \in Int
          <5>1. cid[d] \in 0..MaxUploads /\ next[s] \in 1..(MaxUploads + 1)
            BY DEF TypeOK
          <5> QED BY <3>3, <5>1, BoundAssumption DEF Current, Id
        <4>2. cid[d] < next[s] /\ cid[d] \in Int
          BY <2>1, <3>3, <4>1, BoundAssumption DEF Owned, Id
        <4>3. /\ uploads[s][cid[d]] \in {key[d], NoKey}
              /\ \A e \in Client : Current(e) /\ cid[e] = cid[d] => e = d
          BY <2>1, <3>3 DEF Owned
        <4>4. cid[d] < next'[s] /\ cid[d] # next[s]
          BY <3>1, <4>1, <4>2
        <4> QED BY <4>1, <4>3, <4>4
      <3> QED BY <2>1, <2>2, <3>1, <3>2, <3>3 DEF Owned
    <2>3. CASE /\ next[s] \in Id
               /\ uploads' = [uploads EXCEPT ![s][next[s]] = key[c]]
               /\ next' = [next EXCEPT ![s] = @ + 1]
               /\ cid' = [cid EXCEPT ![c] = next[s]]
               /\ epoch' = [epoch EXCEPT ![c] = boot[s]]
      <3>1. /\ UNCHANGED <<boot, key>> /\ next'[s] = next[s] + 1
            /\ uploads'[s][next[s]] = key[c] /\ cid'[c] = next[s]
            /\ \A i \in Id : i # next[s] => uploads'[s][i] = uploads[s][i]
            /\ \A d \in Client \ {c} : cid'[d] = cid[d] /\ epoch'[d] = epoch[d]
        BY <1>3, <2>3 DEF Reserve, TypeOK
      <3>2. \A d \in Client \ {c} : Current(d)' <=> Current(d)
        BY <3>1 DEF Current
      <3>3. ASSUME NEW d \in Client \ {c}, Current(d)
            PROVE  /\ cid[d] < next[s] + 1 /\ cid[d] # next[s] /\ cid[d] \in Id
                   /\ uploads[s][cid[d]] \in {key[d], NoKey}
                   /\ \A e \in Client \ {c} : Current(e) /\ cid[e] = cid[d] => e = d
        <4>1. cid[d] \in Id /\ next[s] \in Int
          <5>1. cid[d] \in 0..MaxUploads /\ next[s] \in 1..(MaxUploads + 1)
            BY DEF TypeOK
          <5> QED BY <3>3, <5>1, BoundAssumption DEF Current, Id
        <4>2. cid[d] < next[s] /\ cid[d] \in Int
          BY <2>1, <3>3, <4>1, BoundAssumption DEF Owned, Id
        <4>3. /\ uploads[s][cid[d]] \in {key[d], NoKey}
              /\ \A e \in Client : Current(e) /\ cid[e] = cid[d] => e = d
          BY <2>1, <3>3 DEF Owned
        <4> QED BY <4>1, <4>2, <4>3
      <3>4. next[s] < next[s] + 1
        BY <2>3, BoundAssumption DEF Id
      <3> SUFFICES ASSUME NEW d \in Client, Current(d)'
                   PROVE  /\ cid'[d] < next'[s]
                          /\ uploads'[s][cid'[d]] \in {key'[d], NoKey}
                          /\ \A e \in Client : Current(e)' /\ cid'[e] = cid'[d] => e = d
        BY <2>1 DEF Owned
      <3>5. CASE d = c
        BY <3>1, <3>2, <3>3, <3>4, <3>5
      <3>6. CASE d # c
        BY <3>1, <3>2, <3>3, <3>6
      <3> QED BY <3>5, <3>6
    <2> QED BY <1>3, <2>1, <2>2, <2>3 DEF Reserve
  <1>4. ASSUME NEW s \in Server, CommitRecord(s) PROVE Owned'
    <2>1. \A t \in Server : \A i \in Id : uploads'[t][i] \in {uploads[t][i], NoKey}
      BY <1>4 DEF CommitRecord, TypeOK
    <2> QED BY <1>2, <1>4, <2>1 DEF CommitRecord
  <1>5. ASSUME NEW s \in Server, Crash(s) PROVE Owned'
    <2>1. \A t \in Server : \A i \in Id : uploads'[t][i] \in {uploads[t][i], NoKey}
      BY <1>5 DEF Crash, TypeOK, NoUploads
    <2> QED BY <1>2, <1>5, <2>1 DEF Crash
  <1>6. ASSUME NEW s \in Server, Start(s) PROVE Owned'
    <2>1. ASSUME NEW c \in Client PROVE epoch'[c] # boot'[Home[c]]
      <3>1. Home[c] = s
        BY ServerAssumption
      <3>2. epoch' = epoch /\ boot'[s] = boot[s] + 1
        BY <1>6 DEF Start, TypeOK
      <3>3. epoch[c] <= boot[s] /\ epoch[c] \in Nat /\ boot[s] \in Nat
        BY <3>1 DEF ClientAt, TypeOK
      <3> QED BY <3>1, <3>2, <3>3
    <2> QED BY <2>1 DEF Owned, Current
  <1>7. ASSUME NEW c \in Client, Lookup(c) \/ BlobGet(c) \/ CommitFind(c) PROVE Same
    BY <1>7 DEF Lookup, BlobGet, CommitFind
  <1>8. ASSUME NEW c \in Client, NEW ch \in Chunk, Patch(c, ch) PROVE Same
    BY <1>8 DEF Patch
  <1>9. ASSUME NEW s \in Server, CommitRename(s) \/ CommitCleanup(s) PROVE Same
    BY <1>9 DEF CommitRename, CommitCleanup
  <1>10. ASSUME NEW s \in Server, PurgeStart(s) \/ PurgeSave(s) PROVE Same
    BY <1>10 DEF PurgeStart, PurgeSave
  <1>11. ASSUME NEW s \in Server, NEW k \in Key, PurgeOne(s, k) PROVE Same
    BY <1>11 DEF PurgeOne
  <1>12. ASSUME UNCHANGED vars PROVE Same
    BY <1>12 DEF vars
  <1> HIDE DEF Same
  <1> QED
    BY <1>1, <1>3, <1>4, <1>5, <1>6, <1>7, <1>8, <1>9, <1>10, <1>11, <1>12, NextCases

\* The client whose commit is handled owns its upload, for its own key.
LEMMA HandledIsOwn ==
  ASSUME OneServer, IndInv, ~stale, NEW s \in Server, hpc[s] # "idle"
  PROVE  /\ hclient[s] \in Client /\ Current(hclient[s]) /\ cid[hclient[s]] \in Id
         /\ \A d \in Client : Current(d) /\ cid[d] = cid[hclient[s]] => d = hclient[s]
         /\ hpc[s] # "cleanup" => uploads[s][cid[hclient[s]]] = key[hclient[s]]
  <1>1. /\ hclient[s] \in Client /\ cpc[hclient[s]] = "commit"
        /\ epoch[hclient[s]] = boot[s]
    BY DEF IndInv, Handling, TypeOK
  <1>2. Home[hclient[s]] = s
    BY <1>1, ServerAssumption DEF OneServer
  <1>3. Current(hclient[s])
    BY <1>1, <1>2 DEF Current, IndInv, ClientAt
  <1>4. cid[hclient[s]] \in Id
    BY <1>1, <1>3, BoundAssumption DEF Current, IndInv, TypeOK, Id
  <1>5. /\ uploads[s][cid[hclient[s]]] \in {key[hclient[s]], NoKey}
        /\ \A d \in Client : Current(d) /\ cid[d] = cid[hclient[s]] => d = hclient[s]
    BY <1>1, <1>2, <1>3 DEF IndInv, Owned
  <1> QED BY <1>1, <1>3, <1>4, <1>5 DEF IndInv, Handling

-----------------------------------------------------------------------------
(* Whole uploads *)

\* Confirmed chunks stay in the file of their upload.
LEMMA ChunksStep ==
  ASSUME OneServer, IndInv, [Next]_vars, ~stale' PROVE ChunksKept'
  <1> USE DEF disk, memory, commit, purge, client, history, OneServer, Goes
  <1>0. ~stale /\ ChunksKept
    BY Fixed DEF IndInv, Kept
  <1> DEFINE Tame == /\ UNCHANGED <<files, sent, cid, epoch, boot>>
                     /\ \A c \in Client : cpc'[c] = "patch" => cpc[c] = "patch"
                     /\ \A s \in Server : \A i \in Id : uploads'[s][i] \in {uploads[s][i], NoKey}
  <1>1. ASSUME Tame PROVE ChunksKept'
    <2>1. \A c \in Client : Current(c)' = Current(c)
      BY <1>1 DEF Current
    <2>2. \A c \in Client : Current(c) => cid[c] \in Id
      BY BoundAssumption DEF Current, IndInv, TypeOK, Id
    <2> QED BY <1>0, <1>1, <2>1, <2>2, ServerAssumption DEF ChunksKept
  <1>2. ASSUME NEW c \in Client, Lookup(c) \/ BlobGet(c) \/ CommitFind(c) PROVE Tame
    BY <1>2 DEF Lookup, BlobGet, CommitFind, IndInv, TypeOK
  <1>3. ASSUME NEW c \in Client, Reserve(c) PROVE ChunksKept'
    <2>1. PICK s \in Server : s = Home[c] /\ \A d \in Client : Home[d] = s
      BY ServerAssumption
    <2>2. CASE UNCHANGED <<uploads, files, cid, epoch>> /\ Goes(c, "done")
      <3>1. Tame
        BY <1>3, <2>2 DEF Reserve, IndInv, TypeOK
      <3> QED BY <1>1, <3>1
    <2>3. CASE /\ next[s] \in Id
               /\ uploads' = [uploads EXCEPT ![s][next[s]] = key[c]]
               /\ files' = [files EXCEPT ![next[s]] = Empty]
               /\ \/ /\ cid' = [cid EXCEPT ![c] = next[s]]
                     /\ epoch' = [epoch EXCEPT ![c] = boot[s]]
                     /\ Goes(c, "patch")
                  \/ UNCHANGED <<cid, epoch, cpc>>
      <3>1. /\ UNCHANGED <<sent, boot>> /\ cpc[c] = "reserve"
            /\ \A i \in Id : i # next[s] =>
                 uploads'[s][i] = uploads[s][i] /\ files'[i] = files[i]
            /\ \A d \in Client \ {c} :
                 cid'[d] = cid[d] /\ epoch'[d] = epoch[d] /\ cpc'[d] = cpc[d]
        BY <1>3, <2>3 DEF Reserve, Served, IndInv, TypeOK
      <3>2. \A d \in Client \ {c} : Current(d)' <=> Current(d)
        BY <3>1 DEF Current
      <3>3. sent'[c] = {}
        BY <3>1 DEF IndInv, ClientAt
      <3>4. ASSUME NEW d \in Client \ {c}, Current(d) PROVE cid[d] \in Id /\ cid[d] # next[s]
        <4>1. cid[d] \in 0..MaxUploads /\ cid[d] # 0 /\ cid[d] < next[s]
          BY <2>1, <3>4 DEF Owned, Current, IndInv, TypeOK
        <4> QED BY <2>3, <4>1, BoundAssumption DEF Id
      <3> QED BY <1>0, <2>1, <3>1, <3>2, <3>3, <3>4 DEF ChunksKept
    <2> QED BY <1>3, <2>1, <2>2, <2>3 DEF Reserve
  <1>4. ASSUME NEW c \in Client, NEW ch \in Chunk, Patch(c, ch) PROVE ChunksKept'
    <2>1. /\ UNCHANGED <<cid, epoch, boot, uploads>> /\ cpc[c] = "patch" /\ ch \notin sent[c]
          /\ \A d \in Client \ {c} : sent'[d] = sent[d]
          /\ \A d \in Client : cpc'[d] = "patch" => cpc[d] = "patch"
      BY <1>4 DEF Patch, Served, IndInv, TypeOK
    <2>2. CASE UNCHANGED <<files, sent>>
      BY <1>1, <2>1, <2>2
    <2>3. CASE /\ Known(c) /\ cid[c] \in dirs
               /\ \E w \in {c, "torn"} :
                    /\ files' = [files EXCEPT ![cid[c]] = Written(cid[c], ch, w)]
                    /\ \/ sent' = sent
                       \/ w = c /\ sent' = [sent EXCEPT ![c] = @ \cup {ch}]
      <3>1. PICK w \in {c, "torn"} :
                 /\ files' = [files EXCEPT ![cid[c]] = Written(cid[c], ch, w)]
                 /\ \/ sent' = sent
                    \/ w = c /\ sent' = [sent EXCEPT ![c] = @ \cup {ch}]
        BY <2>3
      <3>2. Current(c) /\ cid[c] \in Id /\ files \in [Id -> Content]
        BY <1>0, <1>4, <2>1, <2>3 DEF Patch, UsesStale, Current, IndInv, ClientAt, TypeOK
      <3>3. /\ Written(cid[c], ch, w)[ch] = w
            /\ files[cid[c]] # NoFile => \A e \in Chunk \ {ch} :
                 Written(cid[c], ch, w)[e] = files[cid[c]][e]
        BY <3>2, WrittenIs
      <3>4. ASSUME NEW e \in sent[c] PROVE files'[cid[c]][e] = c
        <4>1. files[cid[c]][e] = c /\ e \in Chunk /\ e # ch
          BY <1>0, <2>1, <2>3, <3>2 DEF ChunksKept, Known, IndInv, TypeOK
        <4>2. files[cid[c]] # NoFile
          BY <4>1, ClientAssumption DEF NoFile
        <4> QED BY <3>1, <3>2, <3>3, <4>1, <4>2
      <3>5. \A e \in sent'[c] : files'[cid[c]][e] = c
        <4>1. sent'[c] = sent[c] \/ (w = c /\ sent'[c] = sent[c] \cup {ch})
          BY <3>1 DEF IndInv, TypeOK
        <4>2. files'[cid[c]][ch] = w
          BY <3>1, <3>2, <3>3
        <4> QED BY <3>4, <4>1, <4>2
      <3>6. ASSUME NEW d \in Client \ {c}, Current(d) PROVE files'[cid[d]] = files[cid[d]]
        <4>1. cid[d] # cid[c]
          BY <3>2, <3>6 DEF IndInv, Owned
        <4>2. cid[d] \in Id
          BY <3>6, BoundAssumption DEF Current, IndInv, TypeOK, Id
        <4> QED BY <3>1, <3>2, <4>1, <4>2
      <3>7. \A d \in Client : Current(d)' <=> Current(d)
        BY <2>1 DEF Current
      <3> QED BY <1>0, <2>1, <3>5, <3>6, <3>7 DEF ChunksKept
    <2> QED BY <1>4, <2>2, <2>3 DEF Patch
  <1>5. ASSUME NEW s \in Server, CommitRename(s) \/ CommitCleanup(s) PROVE ChunksKept'
    <2> DEFINE h == hclient[s]
    <2>1. hpc[s] # "idle"
      BY <1>5 DEF CommitRename, CommitCleanup
    <2>2. /\ h \in Client /\ cid[h] \in Id /\ Home[h] = s
          /\ \A d \in Client : Current(d) /\ cid[d] = cid[h] => d = h
      BY <1>0, <2>1, HandledIsOwn, ServerAssumption
    <2>3. /\ UNCHANGED <<sent, cid, epoch, boot, uploads>>
          /\ \A i \in Id : i # cid[h] => files'[i] = files[i]
          /\ \A d \in Client : d # h => cpc'[d] = cpc[d]
      BY <1>5 DEF CommitRename, CommitCleanup, IndInv, TypeOK
    <2>4. cpc'[h] = "patch" => uploads[s][cid[h]] = NoKey
      BY <1>5, <2>1, <2>2 DEF CommitRename, CommitCleanup, IndInv, TypeOK, Handling
    <2> HIDE DEF h
    <2>5. \A d \in Client : Current(d)' <=> Current(d)
      BY <2>3 DEF Current
    <2>6. \A d \in Client : Current(d) => cid[d] \in Id
      BY BoundAssumption DEF Current, IndInv, TypeOK, Id
    <2> QED BY <1>0, <2>2, <2>3, <2>4, <2>5, <2>6 DEF ChunksKept
  <1>6. ASSUME NEW s \in Server, CommitRecord(s) PROVE Tame
    BY <1>6 DEF CommitRecord, IndInv, TypeOK
  <1>7. ASSUME NEW s \in Server, Start(s) PROVE ChunksKept'
    <2>1. ASSUME NEW c \in Client PROVE epoch'[c] # boot'[Home[c]]
      <3>1. Home[c] = s
        BY ServerAssumption
      <3>2. epoch' = epoch /\ boot'[s] = boot[s] + 1
        BY <1>7 DEF Start, IndInv, TypeOK
      <3>3. epoch[c] <= boot[s] /\ epoch[c] \in Nat /\ boot[s] \in Nat
        BY <3>1 DEF IndInv, ClientAt, TypeOK
      <3> QED BY <3>1, <3>2, <3>3
    <2> QED BY <2>1 DEF ChunksKept, Current
  <1>8. ASSUME NEW s \in Server, Crash(s) PROVE ChunksKept'
    <2>1. \A c \in Client : Home[c] = s /\ (cid[c] # 0 => cid[c] \in Id)
      BY ServerAssumption, BoundAssumption DEF IndInv, TypeOK, Id
    <2>2. cid' = cid /\ \A i \in Id : uploads'[s][i] = NoKey
      BY <1>8 DEF Crash, IndInv, TypeOK, NoUploads
    <2> QED BY <2>1, <2>2 DEF ChunksKept, Current
  <1>9. ASSUME NEW s \in Server, PurgeStart(s) \/ PurgeSave(s) PROVE Tame
    BY <1>9 DEF PurgeStart, PurgeSave
  <1>10. ASSUME NEW s \in Server, NEW k \in Key, PurgeOne(s, k) PROVE Tame
    BY <1>10 DEF PurgeOne
  <1>11. ASSUME UNCHANGED vars PROVE Tame
    BY <1>11 DEF vars
  <1> HIDE DEF Tame
  <1> QED
    BY <1>1, <1>2, <1>3, <1>4, <1>5, <1>6, <1>7, <1>8, <1>9, <1>10, <1>11, NextCases

\* What is renamed is whole, and so is the blob it becomes.
LEMMA KeptStep == ASSUME OneServer, IndInv, [Next]_vars PROVE Kept'
  <1> USE DEF disk, memory, commit, purge, client, history, OneServer, Goes
  <1> SUFFICES ASSUME ~stale' PROVE FileWhole' /\ BlobWhole'
    BY ChunksStep DEF Kept
  <1>0. ~stale /\ ChunksKept /\ FileWhole /\ BlobWhole
    BY Fixed DEF IndInv, Kept
  <1> DEFINE Same == UNCHANGED <<hpc, hclient, hblob, cid, files, blobs>>
  <1> DEFINE Done == FileWhole' /\ BlobWhole'
  <1>1. ASSUME Same PROVE Done
    BY <1>0, <1>1 DEF FileWhole, BlobWhole
  <1>2. ASSUME NEW c \in Client, Lookup(c) \/ BlobGet(c) \/ Reserve(c) PROVE Done
    <2>1. \A t \in Server : hpc'[t] = "idle"
      BY <1>2, ServerAssumption DEF Lookup, BlobGet, Reserve, Served
    <2> QED BY <2>1 DEF FileWhole, BlobWhole
  <1>3. ASSUME NEW c \in Client, NEW ch \in Chunk, Patch(c, ch) PROVE Done
    <2>1. \A t \in Server : hpc'[t] = "idle"
      BY <1>3, ServerAssumption DEF Patch, Served
    <2> QED BY <2>1 DEF FileWhole, BlobWhole
  <1>4. ASSUME NEW c \in Client, CommitFind(c) PROVE Done
    <2>1. PICK s \in Server : s = Home[c] /\ hpc[s] = "idle" /\ hpc \in [Server ->
            {"idle", "rename", "record", "cleanup"}]
      BY <1>4, ServerAssumption DEF CommitFind, Served, IndInv, TypeOK
    <2>2. CASE UNCHANGED hpc
      BY <2>1, <2>2 DEF FileWhole, BlobWhole
    <2>3. CASE Known(c) /\ hpc' = [hpc EXCEPT ![s] = "rename"] /\ hclient' = [hclient EXCEPT ![s] = c]
      <3>1. Current(c) /\ cpc[c] = "patch" /\ sent[c] = Chunk
        BY <1>4, <2>3 DEF CommitFind, Served, UsesStale, Current, IndInv, ClientAt
      <3>2. cid[c] \in Id
        BY <3>1, BoundAssumption DEF Current, IndInv, TypeOK, Id
      <3>3. \A ch \in Chunk : files[cid[c]][ch] = c
        BY <1>0, <2>3, <3>1 DEF ChunksKept, Known
      <3>4. files[cid[c]] \in Content
        BY <3>2 DEF IndInv, TypeOK
      <3>5. files[cid[c]] = Whole(c)
        BY <3>3, <3>4 DEF Content, Whole
      <3>6. hclient'[s] = c /\ hpc'[s] = "rename" /\ UNCHANGED <<files, cid>>
        BY <1>4, <2>1, <2>3 DEF CommitFind, IndInv, TypeOK
      <3> QED BY <3>5, <3>6 DEF FileWhole, BlobWhole
    <2> QED BY <1>4, <2>1, <2>2, <2>3 DEF CommitFind
  <1>5. ASSUME NEW s \in Server, CommitRename(s) PROVE Done
    <2>1. /\ hpc[s] = "rename" /\ hpc'[s] \in {"idle", "record"} /\ hclient' = hclient
          /\ hpc'[s] = "record" =>
               /\ blobs' = [blobs EXCEPT ![nblobs + 1] = files[cid[hclient[s]]]]
               /\ hblob' = [hblob EXCEPT ![s] = nblobs + 1] /\ nblobs < MaxBlobs
      BY <1>5 DEF CommitRename, IndInv, TypeOK
    <2>2. files[cid[hclient[s]]] = Whole(hclient[s])
      BY <1>0, <2>1 DEF FileWhole
    <2>3. nblobs < MaxBlobs => nblobs + 1 \in Blob
      BY BoundAssumption DEF IndInv, TypeOK, Blob
    <2>4. hpc'[s] = "record" => blobs'[hblob'[s]] = Whole(hclient[s])
      BY <2>1, <2>2, <2>3 DEF IndInv, TypeOK
    <2> QED BY <2>1, <2>4 DEF FileWhole, BlobWhole
  <1>6. ASSUME NEW s \in Server, CommitRecord(s) \/ CommitCleanup(s) \/ Crash(s) PROVE Done
    <2>1. hpc'[s] \notin {"rename", "record"}
      BY <1>6 DEF CommitRecord, CommitCleanup, Crash, IndInv, TypeOK
    <2> QED BY <2>1 DEF FileWhole, BlobWhole
  <1>7. ASSUME NEW s \in Server, Start(s) PROVE Done
    <2>1. hpc'[s] = "idle"
      BY <1>7 DEF Start, IndInv, DownIsIdle
    <2> QED BY <2>1 DEF FileWhole, BlobWhole
  <1>8. ASSUME NEW s \in Server, PurgeStart(s) \/ PurgeSave(s) PROVE Same
    BY <1>8 DEF PurgeStart, PurgeSave
  <1>9. ASSUME NEW s \in Server, NEW k \in Key, PurgeOne(s, k) PROVE Done
    <2>1. UNCHANGED <<hpc, hclient, hblob, cid, files>>
      BY <1>9 DEF PurgeOne
    <2>2. hpc[s] = "record" => entries[s][k] # hblob[s] /\ hblob[s] \in 1..nblobs
      BY DEF IndInv, Fresh
    <2>3. hpc[s] = "record" => blobs'[hblob[s]] = blobs[hblob[s]]
      BY <1>9, <2>2 DEF PurgeOne, IndInv, TypeOK
    <2> QED BY <1>0, <2>1, <2>3 DEF FileWhole, BlobWhole
  <1>10. ASSUME UNCHANGED vars PROVE Same
    BY <1>10 DEF vars
  <1> HIDE DEF Same, Done
  <1>11. Done
    BY <1>1, <1>2, <1>3, <1>4, <1>5, <1>6, <1>7, <1>8, <1>9, <1>10, NextCases
  <1> QED BY <1>11 DEF Done

\* Every blob is a whole upload, what the index and the entries lead to is one
\* for its key, and so is what a client restores.
LEMMA WholeStep == ASSUME OneServer, IndInv, [Next]_vars PROVE AllWhole' /\ RestoredWhole'
  <1> USE DEF disk, memory, commit, purge, client, history, OneServer
  <1> DEFINE Any == {NoFile} \cup {Whole(d) : d \in Client}
  <1> DEFINE Blobs == \A b \in Blob : blobs[b] \in Any
  <1> DEFINE Memory == \A s \in Server : \A k \in Key :
               entries[s][k] # 0 => blobs[entries[s][k]] \in SavedFor(k)
  <1> DEFINE Disk == \A k \in Key : index[k] # 0 => blobs[index[k]] \in SavedFor(k)
  <1> DEFINE Downloads == \A c \in Client : restored[c] \in {Empty} \cup Any
  <1> DEFINE Good == Blobs /\ Memory /\ Disk /\ Downloads
  <1>a. AllWhole /\ RestoredWhole <=> (~stale => Good)
    BY DEF AllWhole, RestoredWhole, SavedFor
  <1>b. (AllWhole /\ RestoredWhole)' <=> (~stale' => Good')
    BY DEF AllWhole, RestoredWhole, SavedFor
  <1> SUFFICES ASSUME ~stale' PROVE Good'
    BY <1>b
  <1>0. ~stale /\ Good
    BY <1>a, Fixed DEF IndInv
  <1>k. \A k : SavedFor(k)' = SavedFor(k)
    BY Fixed DEF SavedFor
  <1>t. /\ index \in [Key -> 0..MaxBlobs] /\ blobs \in [Blob -> Content]
        /\ entries \in [Server -> [Key -> 0..MaxBlobs]]
        /\ \A k \in Key : NoFile \in SavedFor(k)
    BY DEF IndInv, TypeOK, SavedFor
  <1> HIDE DEF Good
  <1>1. ASSUME UNCHANGED <<blobs, entries, index, restored>> PROVE Good'
    BY <1>0, <1>1, <1>k DEF Good
  <1>2. ASSUME NEW c \in Client, BlobGet(c) PROVE Good'
    <2>1. UNCHANGED <<blobs, entries, index>> /\ restored' = [restored EXCEPT ![c] = blobs[url[c]]]
      BY <1>2 DEF BlobGet
    <2>2. url[c] \in Blob
      BY <1>2, BoundAssumption DEF BlobGet, Served, IndInv, ClientAt, TypeOK, Blob
    <2>3. Downloads'
      BY <1>0, <2>1, <2>2 DEF Good, IndInv, TypeOK
    <2> QED BY <1>0, <1>k, <2>1, <2>3 DEF Good
  <1>3. ASSUME NEW s \in Server, CommitRename(s) PROVE Good'
    <2>1. UNCHANGED <<entries, index, restored>>
      BY <1>3 DEF CommitRename
    <2>2. UNCHANGED blobs \/ blobs' = [blobs EXCEPT ![nblobs + 1] = Whole(hclient[s])]
      BY <1>0, <1>3 DEF CommitRename, IndInv, Kept, FileWhole
    <2>3. Blobs'
      BY <1>0, <1>t, <2>2 DEF Good, IndInv, TypeOK
    <2>4. \A b \in Blob : b <= nblobs => blobs'[b] = blobs[b]
      BY <1>t, <2>2, BoundAssumption DEF IndInv, TypeOK, Blob
    <2>5. /\ \A k \in Key : index[k] # 0 => index[k] \in Blob /\ index[k] <= nblobs
          /\ \A k \in Key : entries[s][k] # 0 => entries[s][k] \in Blob /\ entries[s][k] <= nblobs
      BY <1>t, BoundAssumption DEF IndInv, Numbered, Blob
    <2> QED BY <1>0, <1>k, <2>1, <2>3, <2>4, <2>5 DEF Good
  <1>4. ASSUME NEW s \in Server, CommitRecord(s) PROVE Good'
    <2>1. /\ UNCHANGED <<blobs, restored>> /\ index' = entries'[s] /\ hpc[s] = "record"
          /\ entries' = [entries EXCEPT ![s][uploads[s][cid[hclient[s]]]] = hblob[s]]
      BY <1>4 DEF CommitRecord, saveIndexLocked
    <2>2. hclient[s] \in Client /\ uploads[s][cid[hclient[s]]] = key[hclient[s]]
      BY <1>0, <2>1, HandledIsOwn
    <2>3. blobs[hblob[s]] = Whole(hclient[s])
      BY <1>0, <2>1 DEF IndInv, Kept, BlobWhole
    <2>4. key[hclient[s]] \in Key /\ blobs[hblob[s]] \in SavedFor(key[hclient[s]])
      BY <2>2, <2>3 DEF SavedFor, IndInv, TypeOK
    <2>5. \A k \in Key : \/ entries'[s][k] = entries[s][k]
                         \/ k = key[hclient[s]] /\ entries'[s][k] = hblob[s]
      BY <1>t, <2>1, <2>2
    <2>6. Memory'
      BY <1>0, <1>k, <2>1, <2>4, <2>5 DEF Good
    <2>7. Disk'
      BY <2>1, <2>6
    <2> QED BY <1>0, <2>1, <2>6, <2>7 DEF Good
  <1>5. ASSUME NEW s \in Server, Start(s) PROVE Good'
    <2>1. UNCHANGED <<blobs, index, restored>> /\ entries'[s] = index
      BY <1>5, <1>t DEF Start
    <2> QED BY <1>0, <1>k, <2>1 DEF Good
  <1>6. ASSUME NEW s \in Server, Crash(s) PROVE Good'
    <2>1. UNCHANGED <<blobs, index, restored>> /\ entries'[s] = NoEntries
      BY <1>6, <1>t DEF Crash
    <2>2. Memory'
      BY <2>1 DEF NoEntries
    <2> QED BY <1>0, <1>k, <2>1, <2>2 DEF Good
  <1>7. ASSUME NEW s \in Server, PurgeSave(s) PROVE Good'
    <2>1. UNCHANGED <<blobs, entries, restored>> /\ index' \in {index, entries[s]}
      BY <1>7 DEF PurgeSave, saveIndexLocked
    <2> QED BY <1>0, <1>k, <2>1 DEF Good
  <1>8. ASSUME NEW s \in Server, NEW k \in Key, PurgeOne(s, k) PROVE Good'
    <2>1. /\ UNCHANGED <<index, restored>>
          /\ \A b \in Blob : blobs'[b] \in {blobs[b], NoFile}
          /\ \A l \in Key : entries'[s][l] \in {entries[s][l], 0}
      BY <1>8, <1>t DEF PurgeOne
    <2>2. /\ \A l \in Key : index[l] # 0 => index[l] \in Blob
          /\ \A l \in Key : entries[s][l] # 0 => entries[s][l] \in Blob
      BY <1>t, BoundAssumption DEF Blob
    <2>3. Blobs'
      BY <1>0, <2>1 DEF Good
    <2>4. Disk'
      BY <1>0, <1>k, <1>t, <2>1, <2>2 DEF Good
    <2>5. Memory'
      BY <1>0, <1>k, <1>t, <2>1, <2>2 DEF Good
    <2> QED BY <1>0, <2>1, <2>3, <2>4, <2>5 DEF Good
  <1>9. ASSUME NEW c \in Client, Lookup(c) \/ Reserve(c) \/ CommitFind(c)
        PROVE  UNCHANGED <<blobs, entries, index, restored>>
    BY <1>9 DEF Lookup, Reserve, CommitFind
  <1>10. ASSUME NEW c \in Client, NEW ch \in Chunk, Patch(c, ch)
         PROVE  UNCHANGED <<blobs, entries, index, restored>>
    BY <1>10 DEF Patch
  <1>11. ASSUME NEW s \in Server, CommitCleanup(s) \/ PurgeStart(s)
         PROVE  UNCHANGED <<blobs, entries, index, restored>>
    BY <1>11 DEF CommitCleanup, PurgeStart
  <1>12. ASSUME UNCHANGED vars PROVE UNCHANGED <<blobs, entries, index, restored>>
    BY <1>12 DEF vars
  <1> QED
    BY <1>1, <1>2, <1>3, <1>4, <1>5, <1>6, <1>7, <1>8, <1>9, <1>10, <1>11, <1>12, NextCases

-----------------------------------------------------------------------------
(* Durability *)

\* What the index had it keeps, except for what is purged: the server that
\* replaces it had loaded it, and has added and purged since.
LEMMA IndexKeeps ==
  ASSUME OneServer, IndInv, [Next]_vars, NEW k \in Key, index[k] # 0 \/ k \in evicted
  PROVE  index'[k] # 0 \/ k \in evicted'
  <1> USE DEF disk, memory, commit, purge, client, history, OneServer
  <1> DEFINE Goal == index'[k] # 0 \/ k \in evicted'
  <1>1. ASSUME UNCHANGED <<index, evicted>> PROVE Goal
    BY <1>1
  <1>2. ASSUME NEW s \in Server, CommitRecord(s) PROVE Goal
    <2>1. up[s] /\ index' = entries'[s] /\ evicted' = evicted
      BY <1>2 DEF CommitRecord, saveIndexLocked, IndInv, DownIsIdle, TypeOK
    <2>2. hblob[s] # 0
      BY <1>2, BoundAssumption DEF CommitRecord, IndInv, Fresh, TypeOK
    <2>3. entries'[s][k] \in {entries[s][k], hblob[s]}
      BY <1>2 DEF CommitRecord, IndInv, TypeOK
    <2>4. index[k] # 0 => entries[s][k] # 0 \/ k \in evicted
      BY <2>1 DEF IndInv, Durable
    <2> QED BY <2>1, <2>2, <2>3, <2>4
  <1>3. ASSUME NEW s \in Server, PurgeSave(s) PROVE Goal
    <2>1. up[s] /\ index' \in {index, entries[s]} /\ evicted' = evicted
      BY <1>3 DEF PurgeSave, saveIndexLocked
    <2>2. index[k] # 0 => entries[s][k] # 0 \/ k \in evicted
      BY <2>1 DEF IndInv, Durable
    <2> QED BY <2>1, <2>2
  <1>4. ASSUME NEW s \in Server, NEW l \in Key, PurgeOne(s, l) PROVE Goal
    BY <1>4 DEF PurgeOne
  <1>5. ASSUME NEW c \in Client, Lookup(c) \/ BlobGet(c) \/ Reserve(c) \/ CommitFind(c)
        PROVE  UNCHANGED <<index, evicted>>
    BY <1>5 DEF Lookup, BlobGet, Reserve, CommitFind
  <1>6. ASSUME NEW c \in Client, NEW ch \in Chunk, Patch(c, ch)
        PROVE  UNCHANGED <<index, evicted>>
    BY <1>6 DEF Patch
  <1>7. ASSUME NEW s \in Server, CommitRename(s) \/ CommitCleanup(s) \/ Start(s)
                                 \/ PurgeStart(s) \/ Crash(s)
        PROVE  UNCHANGED <<index, evicted>>
    BY <1>7 DEF CommitRename, CommitCleanup, Start, PurgeStart, Crash
  <1>8. ASSUME UNCHANGED vars PROVE UNCHANGED <<index, evicted>>
    BY <1>8 DEF vars
  <1> HIDE DEF Goal
  <1>9. Goal
    BY <1>1, <1>2, <1>3, <1>4, <1>5, <1>6, <1>7, <1>8, NextCases
  <1> QED BY <1>9 DEF Goal

\* The server has what the index has.
LEMMA MemoryHas ==
  ASSUME OneServer, IndInv, [Next]_vars, NEW t \in Server, up'[t], NEW k \in Key, index'[k] # 0
  PROVE  entries'[t][k] # 0 \/ k \in evicted'
  <1> USE DEF disk, memory, commit, purge, client, history, OneServer
  <1> DEFINE Goal == entries'[t][k] # 0 \/ k \in evicted'
  <1>1. ASSUME UNCHANGED <<up, entries, index, evicted>> PROVE Goal
    BY <1>1 DEF IndInv, Durable
  <1>2. ASSUME NEW s \in Server, CommitRecord(s) PROVE Goal
    BY <1>2 DEF CommitRecord, saveIndexLocked
  <1>3. ASSUME NEW s \in Server, PurgeSave(s) PROVE Goal
    <2>1. s = t /\ up[t] /\ index' \in {index, entries[t]} /\ UNCHANGED <<entries, evicted>>
      BY <1>3 DEF PurgeSave, saveIndexLocked
    <2> QED BY <2>1 DEF IndInv, Durable
  <1>4. ASSUME NEW s \in Server, NEW l \in Key, PurgeOne(s, l) PROVE Goal
    <2>1. /\ s = t /\ up[t] /\ index' = index /\ evicted' = evicted \cup {l}
          /\ (k # l => entries'[t][k] = entries[t][k])
      BY <1>4 DEF PurgeOne, IndInv, TypeOK
    <2> QED BY <2>1 DEF IndInv, Durable
  <1>5. ASSUME NEW s \in Server, Start(s) PROVE Goal
    <2>1. s = t /\ entries'[t] = index /\ index' = index
      BY <1>5 DEF Start, IndInv, TypeOK
    <2> QED BY <2>1
  <1>6. ASSUME NEW s \in Server, Crash(s) PROVE FALSE
    <2>1. s = t
      OBVIOUS
    <2> QED BY <1>6, <2>1 DEF Crash, IndInv, TypeOK
  <1>7. ASSUME NEW c \in Client, Lookup(c) \/ BlobGet(c) \/ Reserve(c) \/ CommitFind(c)
        PROVE  UNCHANGED <<up, entries, index, evicted>>
    BY <1>7 DEF Lookup, BlobGet, Reserve, CommitFind
  <1>8. ASSUME NEW c \in Client, NEW ch \in Chunk, Patch(c, ch)
        PROVE  UNCHANGED <<up, entries, index, evicted>>
    BY <1>8 DEF Patch
  <1>9. ASSUME NEW s \in Server, CommitRename(s) \/ CommitCleanup(s) \/ PurgeStart(s)
        PROVE  UNCHANGED <<up, entries, index, evicted>>
    BY <1>9 DEF CommitRename, CommitCleanup, PurgeStart
  <1>10. ASSUME UNCHANGED vars PROVE UNCHANGED <<up, entries, index, evicted>>
    BY <1>10 DEF vars
  <1> HIDE DEF Goal
  <1>11. Goal
    BY <1>1, <1>2, <1>3, <1>4, <1>5, <1>6, <1>7, <1>8, <1>9, <1>10, NextCases
  <1> QED BY <1>11 DEF Goal

\* A commit is recorded before it is confirmed.
LEMMA RecordedFirst ==
  ASSUME OneServer, IndInv, [Next]_vars, ~stale', NEW t \in Server, hpc'[t] = "cleanup"
  PROVE  index'[key'[hclient'[t]]] # 0 \/ key'[hclient'[t]] \in evicted'
  <1> USE DEF disk, memory, commit, purge, client, history, OneServer
  <1>0. ~stale /\ key' = key
    BY Fixed
  <1> DEFINE Goal == index'[key'[hclient'[t]]] # 0 \/ key'[hclient'[t]] \in evicted'
  <1>1. ASSUME UNCHANGED <<hpc, hclient>> PROVE Goal
    <2>1. hclient[t] \in Client /\ key[hclient[t]] \in Key
      BY DEF IndInv, TypeOK
    <2>2. index[key[hclient[t]]] # 0 \/ key[hclient[t]] \in evicted
      BY <1>0, <1>1 DEF IndInv, Durable
    <2> QED BY <1>0, <1>1, <2>1, <2>2, IndexKeeps
  <1>2. ASSUME NEW s \in Server, CommitRecord(s) PROVE Goal
    <2>1. s = t /\ hpc[t] = "record" /\ index' = entries'[t] /\ hclient' = hclient
      BY <1>2 DEF CommitRecord, saveIndexLocked
    <2>2. hclient[t] \in Client /\ uploads[t][cid[hclient[t]]] = key[hclient[t]]
      BY <1>0, <2>1, HandledIsOwn
    <2>3. hblob[t] # 0 /\ key[hclient[t]] \in Key
      BY <2>1, <2>2, BoundAssumption DEF IndInv, Fresh, TypeOK
    <2>4. entries'[t][key[hclient[t]]] = hblob[t]
      BY <1>2, <2>1, <2>2, <2>3 DEF CommitRecord, IndInv, TypeOK
    <2> QED BY <1>0, <2>1, <2>3, <2>4
  <1>3. ASSUME NEW c \in Client, CommitFind(c) PROVE FALSE
    <2>1. Home[c] = t
      BY ServerAssumption
    <2> QED BY <1>3, <2>1 DEF CommitFind, Served, IndInv, TypeOK
  <1>4. ASSUME NEW s \in Server, CommitRename(s) \/ CommitCleanup(s) \/ Crash(s) PROVE FALSE
    <2>1. s = t
      OBVIOUS
    <2> QED BY <1>4, <2>1 DEF CommitRename, CommitCleanup, Crash, IndInv, TypeOK
  <1>5. ASSUME NEW c \in Client, Lookup(c) \/ BlobGet(c) \/ Reserve(c) PROVE UNCHANGED <<hpc, hclient>>
    BY <1>5 DEF Lookup, BlobGet, Reserve
  <1>6. ASSUME NEW c \in Client, NEW ch \in Chunk, Patch(c, ch) PROVE UNCHANGED <<hpc, hclient>>
    BY <1>6 DEF Patch
  <1>7. ASSUME NEW s \in Server, Start(s) \/ PurgeStart(s) \/ PurgeSave(s)
        PROVE  UNCHANGED <<hpc, hclient>>
    BY <1>7 DEF Start, PurgeStart, PurgeSave
  <1>8. ASSUME NEW s \in Server, NEW k \in Key, PurgeOne(s, k) PROVE UNCHANGED <<hpc, hclient>>
    BY <1>8 DEF PurgeOne
  <1>9. ASSUME UNCHANGED vars PROVE UNCHANGED <<hpc, hclient>>
    BY <1>9 DEF vars
  <1> HIDE DEF Goal
  <1>10. Goal
    BY <1>1, <1>2, <1>3, <1>4, <1>5, <1>6, <1>7, <1>8, <1>9, NextCases
  <1> QED BY <1>10 DEF Goal

\* Only the answer to a recorded commit makes a client's cache saved.
LEMMA SavedStep ==
  ASSUME OneServer, IndInv, [Next]_vars, ~stale', NEW c \in Client, cpc'[c] = "saved"
  PROVE  index'[key'[c]] # 0 \/ key'[c] \in evicted'
  <1> USE DEF disk, memory, commit, purge, client, history, OneServer, Goes
  <1>0. ~stale /\ key' = key /\ key[c] \in Key
    BY Fixed DEF IndInv, TypeOK
  <1> SUFFICES index[key[c]] # 0 \/ key[c] \in evicted
    BY <1>0, IndexKeeps
  <1> DEFINE Goal == index[key[c]] # 0 \/ key[c] \in evicted
  <1>1. ASSUME cpc[c] = "saved" PROVE Goal
    BY <1>0, <1>1 DEF IndInv, CommitIsDurable
  <1>2. ASSUME NEW s \in Server, CommitCleanup(s) PROVE Goal
    <2>1. cpc[c] = "saved" \/ c = hclient[s]
      BY <1>2 DEF CommitCleanup, IndInv, TypeOK
    <2> QED BY <1>0, <1>1, <1>2, <2>1 DEF CommitCleanup, IndInv, Durable
  <1>3. ASSUME NEW d \in Client, Lookup(d) \/ BlobGet(d) \/ Reserve(d) \/ CommitFind(d)
        PROVE  cpc[c] = "saved"
    BY <1>3 DEF Lookup, BlobGet, Reserve, CommitFind, IndInv, TypeOK
  <1>4. ASSUME NEW d \in Client, NEW ch \in Chunk, Patch(d, ch) PROVE cpc[c] = "saved"
    BY <1>4 DEF Patch, IndInv, TypeOK
  <1>5. ASSUME NEW s \in Server, CommitRename(s) \/ CommitRecord(s) \/ Crash(s)
        PROVE  cpc[c] = "saved"
    BY <1>5 DEF CommitRename, CommitRecord, Crash, IndInv, TypeOK
  <1>6. ASSUME NEW s \in Server, Start(s) \/ PurgeStart(s) \/ PurgeSave(s)
        PROVE  cpc[c] = "saved"
    BY <1>6 DEF Start, PurgeStart, PurgeSave
  <1>7. ASSUME NEW s \in Server, NEW k \in Key, PurgeOne(s, k) PROVE cpc[c] = "saved"
    BY <1>7 DEF PurgeOne
  <1>8. ASSUME UNCHANGED vars PROVE cpc[c] = "saved"
    BY <1>8 DEF vars
  <1> HIDE DEF Goal
  <1>9. Goal
    BY <1>1, <1>2, <1>3, <1>4, <1>5, <1>6, <1>7, <1>8, NextCases
  <1> QED BY <1>9 DEF Goal

-----------------------------------------------------------------------------
(* Theorems *)

\* The first start, with nothing on disk.
LEMMA InitInv == ASSUME Init PROVE IndInv
  <1> USE DEF Init
  <1>1. TypeOK
    <2>1. index \in [Key -> 0..MaxBlobs] /\ entries \in [Server -> [Key -> 0..MaxBlobs]]
      BY BoundAssumption DEF NoEntries
    <2>2. /\ blobs \in [Blob -> Content] /\ files \in [Id -> Content] /\ dirs \subseteq Id
          /\ restored \in [Client -> Content] /\ \A i \in Id \ dirs : files[i] = NoFile
      BY Contents
    <2>3. uploads \in [Server -> [Id -> Key \cup {NoKey}]]
          /\ \A s \in Server : \A i \in Id : uploads[s][i] # NoKey => i < next[s]
      BY DEF NoUploads
    <2>4. /\ next \in [Server -> 1..(MaxUploads + 1)] /\ boot \in [Server -> Nat]
          /\ hblob \in [Server -> 0..MaxBlobs] /\ url \in [Client -> 0..MaxBlobs]
          /\ cid \in [Client -> 0..MaxUploads] /\ epoch \in [Client -> Nat]
          /\ nblobs \in 0..MaxBlobs /\ crashes \in 0..MaxCrashes
          /\ cutoff \in 0..(MaxBlobs + 1)
      BY BoundAssumption
    <2>5. hclient \in [Server -> Client]
      <3>1. (CHOOSE c \in Client : TRUE) \in Client
        BY ClientAssumption
      <3> QED BY <3>1
    <2>6. key \in [Client -> Key]
      BY KeyAssumption
    <2>7. stale \in BOOLEAN /\ up \in [Server -> BOOLEAN] /\ removed \in [Server -> BOOLEAN]
      OBVIOUS
    <2> QED BY <2>1, <2>2, <2>3, <2>4, <2>5, <2>6, <2>7 DEF TypeOK
  <1>2. DownIsIdle /\ Fresh /\ Handling
    BY DEF DownIsIdle, Fresh, Handling
  <1>3. Numbered
    BY DEF Numbered, NoEntries
  <1>4. ClientAt
    <2>1. \A c \in Client : epoch[c] <= boot[Home[c]]
      BY ServerAssumption
    <2> QED BY <2>1 DEF ClientAt
  <1>5. Owned /\ Kept
    BY DEF Owned, Current, Kept, ChunksKept, FileWhole, BlobWhole
  <1>6. AllWhole /\ RestoredWhole
    BY DEF AllWhole, RestoredWhole, NoEntries
  <1>7. HitIsServable /\ CommitIsDurable /\ Durable
    BY Contents, ServerAssumption DEF HitIsServable, CommitIsDurable, Durable, NoEntries
  <1> QED BY <1>1, <1>2, <1>3, <1>4, <1>5, <1>6, <1>7 DEF IndInv

\* The inductive invariant holds throughout, for a server with a directory of
\* its own.
THEOREM CacheInvariant == ASSUME OneServer PROVE Spec => []IndInv
  <1>1. Init => IndInv
    BY InitInv
  <1>2. IndInv /\ [Next]_vars => IndInv'
    <2> SUFFICES ASSUME IndInv, [Next]_vars PROVE IndInv'
      OBVIOUS
    <2>1. TypeOK' /\ DownIsIdle' /\ Numbered' /\ Fresh'
      BY TypeStep, DownStep, NumberedStep, FreshStep
    <2>2. ClientAt' /\ Handling' /\ Owned' /\ Kept'
      BY ClientStepInv, HandlingStep, OwnedStep, KeptStep
    <2>3. AllWhole' /\ RestoredWhole' /\ HitIsServable'
      BY WholeStep, HitStep
    <2>4. Durable'
      BY MemoryHas, RecordedFirst DEF Durable
    <2>5. CommitIsDurable'
      BY SavedStep DEF CommitIsDurable
    <2> QED BY <2>1, <2>2, <2>3, <2>4, <2>5 DEF IndInv
  <1> QED BY <1>1, <1>2, PTL DEF Spec

\* Every variable keeps its type: an upload id is one that the running server
\* has given out, and a file is in a directory that is there.
THEOREM TypeCorrect == ASSUME OneServer PROVE Spec => []TypeOK
  <1>1. IndInv => TypeOK
    BY DEF IndInv
  <1> QED BY <1>1, CacheInvariant, PTL

\* handleCachePatch and handleCacheCommit: what an entry of the index leads to
\* is one complete upload for its key, and so is what a job downloads,
\* whichever chunks were torn, sent twice or cut off by a crash.
THEOREM RestoresWhole == ASSUME OneServer PROVE Spec => []RestoredWhole
  <1>1. IndInv => RestoredWhole
    BY DEF IndInv
  <1> QED BY <1>1, CacheInvariant, PTL

\* purgeOlderThan may be interrupted anywhere: once it has completed, every hit
\* leads to a blob that is there, and a download after a hit fails only if the
\* purge has removed the blob.
THEOREM HitsServable == ASSUME OneServer PROVE Spec => []HitIsServable
  <1>1. IndInv => HitIsServable
    BY DEF IndInv
  <1> QED BY <1>1, CacheInvariant, PTL

\* A commit that was answered with 204 is in the index from then on, whatever
\* crashes follow, until its key is purged.
THEOREM CommitsDurable == ASSUME OneServer PROVE Spec => []CommitIsDurable
  <1>1. IndInv => CommitIsDurable
    BY DEF IndInv
  <1> QED BY <1>1, CacheInvariant, PTL

-----------------------------------------------------------------------------
(* The abstract cache *)

\* The memory of a running server and its index agree, except for the entries
\* whose blobs the purge under way has removed.
Mirrored ==
  \A s \in Server : up[s] =>
    /\ ppc[s] # "purging" \/ ~removed[s] => entries[s] = index
    /\ \A k \in Key :
         \/ entries[s][k] = index[k]
         \/ entries[s][k] = 0 /\ index[k] \in Blob /\ blobs[index[k]] = NoFile

\* Every handler keeps them so: a commit and the purge write the whole memory,
\* a start reads the whole index.
LEMMA MirroredStep == ASSUME OneServer, IndInv, Mirrored, [Next]_vars PROVE Mirrored'
  <1> USE DEF disk, memory, commit, purge, client, history, OneServer
  <1> SUFFICES ASSUME NEW t \in Server, up'[t]
               PROVE  /\ ppc'[t] # "purging" \/ ~removed'[t] => entries'[t] = index'
                      /\ \A k \in Key :
                           \/ entries'[t][k] = index'[k]
                           \/ entries'[t][k] = 0 /\ index'[k] \in Blob /\ blobs'[index'[k]] = NoFile
    BY DEF Mirrored
  <1> DEFINE Goal == /\ ppc'[t] # "purging" \/ ~removed'[t] => entries'[t] = index'
                     /\ \A k \in Key :
                           \/ entries'[t][k] = index'[k]
                           \/ entries'[t][k] = 0 /\ index'[k] \in Blob /\ blobs'[index'[k]] = NoFile
  <1>1. ASSUME UNCHANGED <<up, ppc, removed, entries, index, blobs>> PROVE Goal
    BY <1>1 DEF Mirrored
  <1>2. ASSUME NEW s \in Server, CommitRecord(s) PROVE Goal
    <2>1. s = t /\ index' = entries'[t]
      BY <1>2 DEF CommitRecord, saveIndexLocked
    <2> QED BY <2>1
  <1>3. ASSUME NEW s \in Server, PurgeSave(s) PROVE Goal
    <2>1. /\ s = t /\ up[t] /\ entries' = entries
          /\ IF removed[t] THEN index' = entries[t] ELSE index' = index
      BY <1>3 DEF PurgeSave, saveIndexLocked
    <2>2. entries'[t] = index'
      BY <2>1 DEF Mirrored
    <2> QED BY <2>2
  <1>4. ASSUME NEW s \in Server, NEW l \in Key, PurgeOne(s, l) PROVE Goal
    <2>0. entries[s][l] # 0 /\ cutoff \in Nat
      <3>1. cutoff \in Nat /\ entries[s][l] \in 1..(cutoff - 1)
        BY <1>4, BoundAssumption DEF PurgeOne, Old, IndInv, TypeOK
      <3> QED BY <3>1
    <2>1. /\ s = t /\ up[t] /\ index' = index /\ ppc'[t] = "purging" /\ removed'[t]
          /\ entries[t][l] # 0
          /\ entries' = [entries EXCEPT ![t][l] = 0]
          /\ blobs' = [blobs EXCEPT ![entries[t][l]] = NoFile]
      BY <1>4, <2>0 DEF PurgeOne, IndInv, TypeOK
    <2>2. entries \in [Server -> [Key -> 0..MaxBlobs]] /\ blobs \in [Blob -> Content]
          /\ index \in [Key -> 0..MaxBlobs]
      BY DEF IndInv, TypeOK
    <2>3. entries[t][l] \in Blob
      BY <2>1, <2>2, BoundAssumption DEF Blob
    <2>4. entries'[t][l] = 0 /\ blobs'[entries[t][l]] = NoFile
          /\ \A k \in Key \ {l} : entries'[t][k] = entries[t][k]
      BY <2>1, <2>2, <2>3
    <2>5. \A k \in Key :
            \/ entries[t][k] = index[k]
            \/ entries[t][k] = 0 /\ index[k] \in Blob /\ blobs[index[k]] = NoFile
      BY <2>1 DEF Mirrored
    <2>6. \A b \in Blob : blobs[b] = NoFile => blobs'[b] = NoFile
      BY <2>1, <2>2
    <2>7. index[l] = entries[t][l]
      BY <2>1, <2>5
    <2> QED BY <2>1, <2>3, <2>4, <2>5, <2>6, <2>7
  <1>5. ASSUME NEW s \in Server, Start(s) PROVE Goal
    <2>1. s = t /\ entries'[t] = index /\ index' = index
      BY <1>5 DEF Start, IndInv, TypeOK
    <2> QED BY <2>1
  <1>6. ASSUME NEW s \in Server, Crash(s) PROVE FALSE
    <2>1. s = t
      OBVIOUS
    <2> QED BY <1>6, <2>1 DEF Crash, IndInv, TypeOK
  <1>7. ASSUME NEW s \in Server, CommitRename(s) PROVE Goal
    <2>1. /\ UNCHANGED <<up, ppc, removed, entries, index>>
          /\ \/ blobs' = blobs
             \/ blobs' = [blobs EXCEPT ![nblobs + 1] = files[cid[hclient[s]]]]
      BY <1>7 DEF CommitRename
    <2>2. \A k \in Key : index[k] \in Blob => blobs'[index[k]] = blobs[index[k]]
      <3> SUFFICES ASSUME NEW k \in Key, index[k] \in Blob
                   PROVE  blobs'[index[k]] = blobs[index[k]]
        OBVIOUS
      <3>1. index[k] # nblobs + 1
        BY BoundAssumption DEF IndInv, Numbered, TypeOK
      <3>2. blobs \in [Blob -> Content]
        BY DEF IndInv, TypeOK
      <3> QED BY <2>1, <3>1, <3>2
    <2> QED BY <2>1, <2>2 DEF Mirrored
  <1>8. ASSUME NEW s \in Server, PurgeStart(s) PROVE Goal
    <2>1. s = t /\ up[t] /\ ppc[t] # "purging" /\ UNCHANGED <<entries, index>>
      BY <1>8 DEF PurgeStart
    <2> QED BY <2>1 DEF Mirrored
  <1>9. ASSUME NEW c \in Client, Lookup(c) \/ BlobGet(c) \/ Reserve(c) \/ CommitFind(c)
        PROVE  UNCHANGED <<up, ppc, removed, entries, index, blobs>>
    BY <1>9 DEF Lookup, BlobGet, Reserve, CommitFind
  <1>10. ASSUME NEW c \in Client, NEW ch \in Chunk, Patch(c, ch)
        PROVE  UNCHANGED <<up, ppc, removed, entries, index, blobs>>
    BY <1>10 DEF Patch
  <1>11. ASSUME NEW s \in Server, CommitCleanup(s)
        PROVE  UNCHANGED <<up, ppc, removed, entries, index, blobs>>
    BY <1>11 DEF CommitCleanup
  <1>12. ASSUME UNCHANGED vars PROVE UNCHANGED <<up, ppc, removed, entries, index, blobs>>
    BY <1>12 DEF vars
  <1> HIDE DEF Goal
  <1>13. Goal
    BY <1>1, <1>2, <1>3, <1>4, <1>5, <1>6, <1>7, <1>8, <1>9, <1>10, <1>11, <1>12, NextCases
  <1> QED BY <1>13 DEF Goal

\* Equal chunks: uploads of different clients differ, and none is empty.
LEMMA WholeDistinct ==
  /\ \A c \in Client : Whole(c) # NoFile /\ Whole(c) # Empty
  /\ \A c, d \in Client : Whole(c) = Whole(d) => c = d
  <1>1. PICK ch \in Chunk : TRUE
    BY ChunkAssumption
  <1>2. /\ \A c : Whole(c)[ch] = c
        /\ NoFile[ch] = "nofile" /\ Empty[ch] = "none"
    BY <1>1 DEF Whole, NoFile, Empty
  <1> QED BY <1>2, ClientAssumption

\* When what each client has found stays the same.
LEMMA FoundSame ==
  ASSUME url' = url,
         \A c \in Client : cpc'[c] \in Hits <=> cpc[c] \in Hits,
         \A c \in Client : cpc[c] \in Hits => blobs'[url[c]] = blobs[url[c]]
  PROVE  Found' = Found
  BY DEF Found

\* The steps that jobs do not see.
LEMMA Stutters ==
  ASSUME key' = key, stale' = stale, restored' = restored, url' = url, blobs' = blobs,
         index' = index,
         \A c \in Client : cpc'[c] \in Hits <=> cpc[c] \in Hits,
         \A c \in Client : cpc'[c] = "saved" <=> cpc[c] = "saved",
         \A s \in Server : hpc'[s] = "cleanup" <=> hpc[s] = "cleanup",
         \A s \in Server : hpc[s] = "cleanup" => hclient'[s] = hclient[s]
  PROVE  UNCHANGED Store!vars
  <1>1. Saved' = Saved /\ Got' = Got
    BY DEF Saved, Got
  <1>2. Found' = Found
    BY FoundSame
  <1>3. Told' = Told
    BY DEF Told
  <1>4. Pending' = Pending
    BY DEF Pending
  <1> QED BY <1>1, <1>2, <1>3, <1>4 DEF Store!vars

\* Requests that only prepare an upload, the start of a server and of a purge.
LEMMA QuietSteps ==
  ASSUME OneServer, IndInv, [Next]_vars, ~stale, ~stale', stale \in BOOLEAN, stale' \in BOOLEAN,
         \/ \E c \in Client : Reserve(c) \/ CommitFind(c) \/ \E ch \in Chunk : Patch(c, ch)
         \/ \E s \in Server : Start(s) \/ PurgeStart(s)
         \/ UNCHANGED vars
  PROVE  UNCHANGED Store!vars
  <1> USE DEF disk, memory, commit, purge, client, history, Goes
  <1>0. stale' = stale /\ key' = key
    BY Fixed
  <1>1. ASSUME NEW c \in Client, Reserve(c)
        PROVE  UNCHANGED Store!vars
    <2>1. UNCHANGED <<restored, url, blobs, index, hpc, hclient>>
      BY <1>1 DEF Reserve
    <2>2. \/ cpc' = cpc
          \/ cpc[c] = "reserve" /\ cpc' = [cpc EXCEPT ![c] = "patch"]
          \/ cpc[c] = "reserve" /\ cpc' = [cpc EXCEPT ![c] = "done"]
      BY <1>1 DEF Reserve, Served
    <2>3. \A d \in Client : (cpc'[d] \in Hits <=> cpc[d] \in Hits)
                            /\ (cpc'[d] = "saved" <=> cpc[d] = "saved")
      BY <2>2 DEF IndInv, TypeOK, Hits
    <2> QED BY <1>0, <2>1, <2>3, Stutters
  <1>2. ASSUME NEW c \in Client, NEW ch \in Chunk, Patch(c, ch)
        PROVE  UNCHANGED Store!vars
    <2>1. UNCHANGED <<restored, url, blobs, index, hpc, hclient>>
      BY <1>2 DEF Patch
    <2>2. cpc' = cpc \/ (cpc[c] = "patch" /\ cpc' = [cpc EXCEPT ![c] = "done"])
      BY <1>2 DEF Patch, Served
    <2>3. \A d \in Client : (cpc'[d] \in Hits <=> cpc[d] \in Hits)
                            /\ (cpc'[d] = "saved" <=> cpc[d] = "saved")
      BY <2>2 DEF IndInv, TypeOK, Hits
    <2> QED BY <1>0, <2>1, <2>3, Stutters
  <1>3. ASSUME NEW c \in Client, CommitFind(c)
        PROVE  UNCHANGED Store!vars
    <2>1. UNCHANGED <<restored, url, blobs, index>>
      BY <1>3 DEF CommitFind
    <2>2. \/ cpc[c] = "patch" /\ cpc' = [cpc EXCEPT ![c] = "commit"]
          \/ cpc[c] = "patch" /\ cpc' = [cpc EXCEPT ![c] = "done"]
      BY <1>3 DEF CommitFind, Served
    <2>3. \A d \in Client : (cpc'[d] \in Hits <=> cpc[d] \in Hits)
                            /\ (cpc'[d] = "saved" <=> cpc[d] = "saved")
      BY <2>2 DEF IndInv, TypeOK, Hits
    <2>4. \A s \in Server : (hpc'[s] = "cleanup" <=> hpc[s] = "cleanup")
                            /\ (hpc[s] = "cleanup" => hclient'[s] = hclient[s])
      <3>1. Home[c] \in Server /\ hpc[Home[c]] = "idle"
        BY <1>3, ServerAssumption DEF CommitFind, Served
      <3> QED BY <1>3, <3>1 DEF CommitFind, IndInv, TypeOK
    <2> QED BY <1>0, <2>1, <2>3, <2>4, Stutters
  <1>4. ASSUME NEW s \in Server, Start(s) \/ PurgeStart(s)
        PROVE  UNCHANGED Store!vars
    <2>1. UNCHANGED <<restored, url, blobs, index, hpc, hclient, cpc>>
      BY <1>4 DEF Start, PurgeStart
    <2> QED BY <1>0, <2>1, Stutters
  <1>5. ASSUME UNCHANGED vars
        PROVE  UNCHANGED Store!vars
    <2>1. UNCHANGED <<restored, url, blobs, index, hpc, hclient, cpc>>
      BY <1>5 DEF vars
    <2> QED BY <1>0, <2>1, Stutters
  <1> QED BY <1>1, <1>2, <1>3, <1>4, <1>5, Zenon

\* A lookup reads the memory of the server, which is what is saved; a restore
\* key leads to an entry that is in the index.
LEMMA LookupFinds ==
  ASSUME OneServer, IndInv, Mirrored, NEW c \in Client, Lookup(c)
  PROVE  Store!Lookup(c)
  <1> USE DEF disk, memory, commit, purge, client, history, Goes
  <1> DEFINE s == Home[c]
  <1> DEFINE ids == {index[k] : k \in Key}
  <1>1. s \in Server /\ up[s] /\ ppc[s] # "purging" /\ cpc[c] = "lookup" /\ key[c] \in Key
    BY ServerAssumption DEF Lookup, Served, Locked, IndInv, TypeOK
  <1>2. entries[s] = index
    BY <1>1 DEF Mirrored
  <1>3. UNCHANGED <<key, restored, index, blobs, hpc, hclient, stale>>
    BY DEF Lookup
  <1>4. UNCHANGED <<Saved, Got, Pending>>
    BY <1>3 DEF Saved, Got, Pending
  <1>5. PICK m : m = Max(ids)
    OBVIOUS
  <1>6. \/ index[key[c]] # 0 /\ url' = [url EXCEPT ![c] = index[key[c]]]
           /\ cpc' = [cpc EXCEPT ![c] = "exact"]
        \/ index[key[c]] = 0 /\ c \in Restorer /\ index # NoEntries
           /\ url' = [url EXCEPT ![c] = m] /\ cpc' = [cpc EXCEPT ![c] = "prefix"]
        \/ index[key[c]] = 0 /\ url' = url /\ cpc' = [cpc EXCEPT ![c] = "reserve"]
    BY <1>2, <1>5 DEF Lookup
  <1>7. cpc' \in [Client -> {"lookup", "exact", "prefix", "reserve", "patch", "commit",
                             "saved", "done"}]
        /\ cpc \in [Client -> {"lookup", "exact", "prefix", "reserve", "patch", "commit",
                             "saved", "done"}]
        /\ url \in [Client -> 0..MaxBlobs]
    BY <1>6 DEF IndInv, TypeOK
  <1>8. Told' = Told
    BY <1>1, <1>6, <1>7 DEF Told
  <1>9. \A d \in Client \ {c} : cpc'[d] = cpc[d] /\ url'[d] = url[d]
    BY <1>6, <1>7
  <1>10. Found' = [Found EXCEPT ![c] = IF cpc'[c] \in Hits THEN blobs[url'[c]] ELSE NoFile]
    BY <1>3, <1>9 DEF Found
  <1>11. CASE index[key[c]] # 0 /\ url' = [url EXCEPT ![c] = index[key[c]]]
              /\ cpc' = [cpc EXCEPT ![c] = "exact"]
    <2>1. Saved[key[c]] = blobs[index[key[c]]] /\ cpc'[c] \in Hits /\ url'[c] = index[key[c]]
      BY <1>1, <1>7, <1>11 DEF Saved, Hits
    <2> QED BY <1>3, <1>4, <1>8, <1>10, <2>1 DEF Store!Lookup
  <1>12. CASE index[key[c]] = 0 /\ c \in Restorer /\ index # NoEntries
              /\ url' = [url EXCEPT ![c] = m] /\ cpc' = [cpc EXCEPT ![c] = "prefix"]
    <2>1. ids \subseteq 0..MaxBlobs /\ ids # {} /\ MaxBlobs \in Nat
      BY <1>1, BoundAssumption DEF IndInv, TypeOK
    <2>2. m \in ids /\ \A i \in ids : i <= m
      <3> HIDE DEF ids
      <3> QED BY <1>5, <2>1, MaxOfBounded
    <2>3. PICK k \in Key : m = index[k]
      BY <2>2
    <2>4. m # 0
      <3> SUFFICES ASSUME m = 0, NEW l \in Key PROVE index[l] = 0
        BY <1>12 DEF NoEntries, IndInv, TypeOK
      <3>1. index[l] <= 0 /\ index[l] \in 0..MaxBlobs
        BY <2>2 DEF IndInv, TypeOK
      <3> QED BY <3>1, BoundAssumption
    <2>5. Saved[k] = blobs[m] /\ Saved[key[c]] = NoFile
      BY <1>1, <1>12, <2>3, <2>4 DEF Saved
    <2>6. cpc'[c] \in Hits /\ url'[c] = m
      BY <1>7, <1>12 DEF Hits
    <2>7. Found' = [Found EXCEPT ![c] = Saved[k]]
      BY <1>10, <2>5, <2>6
    <2> QED BY <1>3, <1>4, <1>8, <1>12, <2>5, <2>7 DEF Store!Lookup
  <1>13. CASE index[key[c]] = 0 /\ url' = url /\ cpc' = [cpc EXCEPT ![c] = "reserve"]
    <2>1. Saved[key[c]] = NoFile /\ cpc'[c] \notin Hits
      BY <1>1, <1>7, <1>13 DEF Saved, Hits
    <2>2. Found' = [Found EXCEPT ![c] = Saved[key[c]]]
      BY <1>10, <2>1
    <2> QED BY <1>3, <1>4, <1>8, <2>2 DEF Store!Lookup
  <1> QED BY <1>6, <1>11, <1>12, <1>13, Zenon

\* A download returns what the lookup found, or nothing once it is purged.
LEMMA DownloadGets ==
  ASSUME IndInv, ~stale, NEW c \in Client, BlobGet(c), restored[c] = Empty
  PROVE  Store!Download(c) \/ UNCHANGED Store!vars
  <1> USE DEF disk, memory, commit, purge, client, history, Goes
  <1>1. /\ UNCHANGED <<key, index, blobs, hpc, hclient, url, stale>>
        /\ cpc[c] \in Hits
        /\ restored' = [restored EXCEPT ![c] = blobs[url[c]]]
        /\ \/ cpc' = [cpc EXCEPT ![c] = "done"]
           \/ cpc' = [cpc EXCEPT ![c] = "reserve"]
    BY DEF BlobGet, Served, Hits
  <1>2. /\ cpc \in [Client -> {"lookup", "exact", "prefix", "reserve", "patch", "commit",
                               "saved", "done"}]
        /\ restored \in [Client -> Content] /\ url[c] \in Blob
    BY <1>1, BoundAssumption DEF IndInv, TypeOK, ClientAt, Blob, Hits
  <1>3. blobs[url[c]] \in {NoFile} \cup {Whole(d) : d \in Client}
    BY <1>2 DEF IndInv, AllWhole
  <1>4. blobs[url[c]] # Empty
    BY <1>3, WholeDistinct, Contents
  <1>5. UNCHANGED <<Saved, Pending>>
    BY <1>1 DEF Saved, Pending
  <1>6. Told' = Told
    BY <1>1, <1>2 DEF Told, Hits
  <1>7. Found[c] = blobs[url[c]] /\ Found' = [Found EXCEPT ![c] = NoFile]
    <2>1. cpc'[c] \notin Hits /\ \A d \in Client \ {c} : cpc'[d] = cpc[d]
      BY <1>1, <1>2 DEF Hits
    <2> QED BY <1>1, <2>1 DEF Found
  <1>8. Got[c] = NoFile /\ Got' = [Got EXCEPT ![c] = Found[c]]
    <2>1. restored'[c] = Found[c] /\ Found[c] # Empty
          /\ \A d \in Client \ {c} : restored'[d] = restored[d]
      BY <1>1, <1>2, <1>4, <1>7
    <2> QED BY <2>1 DEF Got
  <1>9. CASE Found[c] # NoFile
    BY <1>1, <1>5, <1>6, <1>7, <1>8, <1>9 DEF Store!Download
  <1>10. CASE Found[c] = NoFile
    <2>1. Found' = Found /\ Got' = Got
      BY <1>7, <1>8, <1>10 DEF Found, Got
    <2> QED BY <1>1, <1>5, <1>6, <2>1 DEF Store!vars
  <1> QED BY <1>9, <1>10

\* A blob that gets its name is not in the index, and nobody has found it.
LEMMA RenameHidden ==
  ASSUME OneServer, IndInv, NEW s \in Server, CommitRename(s)
  PROVE  UNCHANGED Store!vars
  <1> USE DEF disk, memory, commit, purge, client, history, Goes
  <1>1. /\ UNCHANGED <<key, index, hclient, url, restored, stale>>
        /\ hpc[s] = "rename" /\ (hpc' = [hpc EXCEPT ![s] = "record"]
                                 \/ hpc' = [hpc EXCEPT ![s] = "idle"])
        /\ cpc' = cpc \/ cpc' = [cpc EXCEPT ![hclient[s]] = "done"]
        /\ blobs' = blobs \/ blobs' = [blobs EXCEPT ![nblobs + 1] = files[cid[hclient[s]]]]
    BY DEF CommitRename
  <1>2. /\ cpc \in [Client -> {"lookup", "exact", "prefix", "reserve", "patch", "commit",
                               "saved", "done"}]
        /\ hclient[s] \in Client /\ cpc[hclient[s]] = "commit" /\ blobs \in [Blob -> Content]
        /\ hpc \in [Server -> {"idle", "rename", "record", "cleanup"}] /\ nblobs \in Nat
    BY <1>1, BoundAssumption DEF IndInv, TypeOK, Handling
  <1>3. \A b \in Blob : b <= nblobs => blobs'[b] = blobs[b]
    <2>1. \A b \in Blob : b <= nblobs => b # nblobs + 1
      BY <1>2, BoundAssumption DEF Blob
    <2> QED BY <1>1, <1>2, <2>1
  <1>4. \A k \in Key : index[k] # 0 => blobs'[index[k]] = blobs[index[k]]
    BY <1>3, BoundAssumption DEF IndInv, Numbered, TypeOK, Blob
  <1>5. \A c \in Client : cpc[c] \in Hits => blobs'[url[c]] = blobs[url[c]]
    <2> SUFFICES ASSUME NEW c \in Client, cpc[c] \in Hits
                 PROVE  blobs'[url[c]] = blobs[url[c]]
      OBVIOUS
    <2>1. url[c] # 0 /\ url[c] \in 0..MaxBlobs /\ url[c] <= nblobs
      BY DEF IndInv, Numbered, TypeOK, ClientAt, Hits
    <2>2. url[c] \in Blob
      BY <2>1, BoundAssumption DEF Blob
    <2> QED BY <1>3, <2>1, <2>2
  <1>6. \A c \in Client : (cpc'[c] \in Hits <=> cpc[c] \in Hits)
                          /\ (cpc'[c] = "saved" <=> cpc[c] = "saved")
    BY <1>1, <1>2 DEF Hits
  <1>7. Saved' = Saved /\ Got' = Got
    BY <1>1, <1>4 DEF Saved, Got
  <1>8. Found' = Found
    BY <1>1, <1>5, <1>6, FoundSame
  <1>9. Told' = Told
    BY <1>6 DEF Told
  <1>10. Pending' = Pending
    <2>1. \A t \in Server : hpc'[t] = "cleanup" <=> hpc[t] = "cleanup"
      BY <1>1, <1>2
    <2> QED BY <1>1, <2>1 DEF Pending
  <1> QED BY <1>1, <1>7, <1>8, <1>9, <1>10 DEF Store!vars

\* The record of a commit saves the client's whole upload under its key, and
\* leaves what is saved under the others.
LEMMA RecordSaves ==
  ASSUME OneServer, IndInv, Mirrored, ~stale, NEW s \in Server, CommitRecord(s)
  PROVE  Store!Save(hclient[s])
  <1> USE DEF disk, memory, commit, purge, client, history
  <1> DEFINE c == hclient[s]
  <1>1. /\ UNCHANGED <<key, blobs, hclient, url, restored, stale, cpc>>
        /\ hpc[s] = "record" /\ hpc' = [hpc EXCEPT ![s] = "cleanup"]
        /\ ppc[s] # "purging"
        /\ entries' = [entries EXCEPT ![s][uploads[s][cid[c]]] = hblob[s]]
        /\ index' = entries'[s]
    BY DEF CommitRecord, saveIndexLocked, Locked
  <1>2. c \in Client /\ uploads[s][cid[c]] = key[c] /\ cpc[c] = "commit" /\ key[c] \in Key
    BY <1>1, HandledIsOwn DEF IndInv, Handling, TypeOK
  <1>3. up[s]
    BY <1>1 DEF IndInv, DownIsIdle
  <1>4. entries[s] = index
    BY <1>1, <1>3 DEF Mirrored
  <1>5. index' = [index EXCEPT ![key[c]] = hblob[s]]
    BY <1>1, <1>2, <1>4 DEF IndInv, TypeOK
  <1>6. hblob[s] # 0 /\ blobs[hblob[s]] = Whole(c)
    BY <1>1, BoundAssumption DEF IndInv, Fresh, Kept, BlobWhole, TypeOK
  <1>7. Saved' = [Saved EXCEPT ![key[c]] = Whole(c)]
    BY <1>1, <1>2, <1>5, <1>6 DEF Saved, IndInv, TypeOK
  <1>8. UNCHANGED <<Found, Got, Told>>
    BY <1>1 DEF Found, Got, Told
  <1>9. c \notin Told
    BY <1>2 DEF Told
  <1>10. Pending' = Pending \cup {c}
    <2>1. \A t \in Server : t = s
      BY DEF OneServer
    <2>2. hpc'[s] = "cleanup"
      BY <1>1 DEF IndInv, TypeOK
    <2> QED BY <1>1, <1>2, <2>1, <2>2 DEF Pending
  <1>11. [d \in Client |-> Whole(d)][c] = Whole(c)
    BY <1>2
  <1> QED BY <1>1, <1>7, <1>8, <1>9, <1>10, <1>11 DEF Store!Save

\* The answer to a commit is the confirmation, or is lost.
LEMMA CleanupAnswers ==
  ASSUME OneServer, IndInv, NEW s \in Server, CommitCleanup(s)
  PROVE  Store!Confirm(hclient[s]) \/ Store!Lose(hclient[s])
  <1> USE DEF disk, memory, commit, purge, client, history, Goes
  <1> DEFINE c == hclient[s]
  <1>1. /\ UNCHANGED <<key, blobs, index, hclient, url, restored, stale>>
        /\ hpc[s] = "cleanup" /\ hpc' = [hpc EXCEPT ![s] = "idle"]
        /\ cpc' = [cpc EXCEPT ![c] = "saved"] \/ cpc' = [cpc EXCEPT ![c] = "patch"]
    BY DEF CommitCleanup
  <1>2. /\ cpc \in [Client -> {"lookup", "exact", "prefix", "reserve", "patch", "commit",
                               "saved", "done"}]
        /\ c \in Client /\ cpc[c] = "commit"
        /\ hpc \in [Server -> {"idle", "rename", "record", "cleanup"}]
    BY <1>1 DEF IndInv, TypeOK, Handling
  <1>3. Pending = {c} /\ Pending' = {}
    <2>1. \A t \in Server : t = s
      BY DEF OneServer
    <2>2. hpc'[s] = "idle"
      BY <1>1, <1>2
    <2> QED BY <1>1, <1>2, <2>1, <2>2 DEF Pending
  <1>4. Saved' = Saved /\ Got' = Got
    BY <1>1 DEF Saved, Got
  <1>5. Found' = Found
    <2>1. \A d \in Client : cpc'[d] \in Hits <=> cpc[d] \in Hits
      BY <1>1, <1>2 DEF Hits
    <2> QED BY <1>1, <2>1, FoundSame
  <1>6. CASE cpc' = [cpc EXCEPT ![c] = "saved"]
    <2>1. Told' = Told \cup {c}
      BY <1>2, <1>6 DEF Told
    <2> QED BY <1>1, <1>3, <1>4, <1>5, <2>1 DEF Store!Confirm
  <1>7. CASE cpc' = [cpc EXCEPT ![c] = "patch"]
    <2>1. Told' = Told
      BY <1>2, <1>7 DEF Told
    <2> QED BY <1>1, <1>3, <1>4, <1>5, <2>1 DEF Store!Lose
  <1> QED BY <1>1, <1>6, <1>7

\* The purge of an entry evicts what is saved under its key and nothing else:
\* no other key leads to the blob.
LEMMA PurgeEvicts ==
  ASSUME OneServer, IndInv, Mirrored, ~stale, NEW s \in Server, NEW k \in Key, PurgeOne(s, k)
  PROVE  Store!Evict(k) \/ UNCHANGED Store!vars
  <1> USE DEF disk, memory, commit, purge, client, history
  <1> DEFINE b == entries[s][k]
  <1>1. /\ UNCHANGED <<key, index, hpc, hclient, url, restored, stale, cpc>>
        /\ blobs' = [blobs EXCEPT ![b] = NoFile] /\ up[s]
    BY DEF PurgeOne
  <1>2. b \in Blob
    <2>1. cutoff \in Nat /\ b \in 1..(cutoff - 1) /\ b \in 0..MaxBlobs
      BY BoundAssumption DEF PurgeOne, Old, IndInv, TypeOK
    <2> QED BY <2>1, BoundAssumption DEF Blob
  <1>3. index[k] = b /\ b # 0
    <2>1. b # 0
      BY <1>2, BoundAssumption DEF Blob
    <2> QED BY <1>1, <2>1 DEF Mirrored
  <1>4. blobs'[b] = NoFile /\ \A a \in Blob \ {b} : blobs'[a] = blobs[a]
    BY <1>1, <1>2 DEF IndInv, TypeOK
  <1>5. UNCHANGED <<Got, Told, Pending>>
    BY <1>1 DEF Got, Told, Pending
  <1>6. \A c \in Client : cpc[c] \in Hits => url[c] \in Blob
    BY BoundAssumption DEF IndInv, TypeOK, ClientAt, Hits, Blob
  <1>7. \A l \in Key : index[l] # 0 => index[l] \in Blob
    BY BoundAssumption DEF IndInv, TypeOK, Blob
  <1>8. CASE blobs[b] = NoFile
    <2>1. blobs' = blobs
      BY <1>1, <1>8 DEF IndInv, TypeOK
    <2>2. UNCHANGED <<Saved, Found>>
      BY <1>1, <2>1 DEF Saved, Found
    <2> QED BY <1>1, <1>5, <2>2 DEF Store!vars
  <1>9. CASE blobs[b] # NoFile
    <2>1. \A l \in Key : index[l] = b => l = k
      <3> SUFFICES ASSUME NEW l \in Key, index[l] = b PROVE l = k
        OBVIOUS
      <3>1. \A j \in Key : index[j] = b => \E d \in Client : key[d] = j /\ blobs[b] = Whole(d)
        BY <1>3, <1>9 DEF IndInv, RestoredWhole
      <3>2. PICK d \in Client : key[d] = l /\ blobs[b] = Whole(d)
        BY <3>1
      <3>3. PICK e \in Client : key[e] = k /\ blobs[b] = Whole(e)
        BY <1>3, <3>1
      <3>4. d = e
        BY <3>2, <3>3, WholeDistinct
      <3> QED BY <3>2, <3>3, <3>4
    <2>2. Saved' = [Saved EXCEPT ![k] = NoFile]
      <3>1. index' = index
        BY <1>1
      <3>2. blobs'[index[k]] = NoFile
        BY <1>3, <1>4
      <3>3. \A l \in Key \ {k} : index[l] # 0 => blobs'[index[l]] = blobs[index[l]]
        BY <1>4, <1>7, <2>1
      <3>4. \A l \in Key : (IF index'[l] = 0 THEN NoFile ELSE blobs'[index'[l]])
                           = [Saved EXCEPT ![k] = NoFile][l]
        BY <3>1, <3>2, <3>3 DEF Saved
      <3>5. DOMAIN [Saved EXCEPT ![k] = NoFile] = Key
        BY DEF Saved
      <3> QED BY <3>4, <3>5 DEF Saved
    <2>3. Saved[k] = blobs[b]
      BY <1>3 DEF Saved
    <2>4. ASSUME NEW c \in Client
          PROVE  Found'[c] = Found[c] \/ (Found[c] = Saved[k] /\ Found'[c] = NoFile)
      <3>1. CASE cpc[c] \in Hits /\ url[c] = b
        BY <1>1, <1>4, <2>3, <3>1 DEF Found
      <3>2. CASE cpc[c] \in Hits /\ url[c] # b
        BY <1>1, <1>4, <1>6, <3>2 DEF Found
      <3>3. CASE cpc[c] \notin Hits
        BY <1>1, <3>3 DEF Found
      <3> QED BY <3>1, <3>2, <3>3
    <2>5. DOMAIN Found' = Client
      BY DEF Found
    <2> QED BY <1>1, <1>5, <2>2, <2>4, <2>5 DEF Store!Evict
  <1> QED BY <1>8, <1>9

\* When the purge saves the index it drops only entries whose blobs are gone.
LEMMA PurgeSaveHidden ==
  ASSUME IndInv, Mirrored, NEW s \in Server, PurgeSave(s)
  PROVE  UNCHANGED Store!vars
  <1> USE DEF disk, memory, commit, purge, client, history
  <1>1. /\ UNCHANGED <<key, blobs, hpc, hclient, url, restored, stale, cpc>>
        /\ up[s] /\ index' \in {index, entries[s]}
    BY DEF PurgeSave, saveIndexLocked
  <1>2. UNCHANGED <<Got, Told, Pending, Found>>
    BY <1>1 DEF Got, Told, Pending, Found
  <1>3. Saved' = Saved
    <2>1. CASE index' = index
      BY <1>1, <2>1 DEF Saved
    <2>2. CASE index' = entries[s]
      <3>1. \A k \in Key : \/ entries[s][k] = index[k]
                           \/ entries[s][k] = 0 /\ index[k] \in Blob /\ blobs[index[k]] = NoFile
        BY <1>1 DEF Mirrored
      <3> QED BY <1>1, <2>2, <3>1 DEF Saved
    <2> QED BY <1>1, <2>1, <2>2
  <1> QED BY <1>1, <1>2, <1>3 DEF Store!vars

\* A crash takes nothing that is saved, only an answer that was not yet sent.
LEMMA CrashLoses ==
  ASSUME OneServer, IndInv, NEW s \in Server, Crash(s)
  PROVE  Store!Lose(hclient[s]) \/ UNCHANGED Store!vars
  <1> USE DEF disk, memory, commit, purge, client, history
  <1>1. /\ UNCHANGED <<key, index, blobs, hclient, url, restored, stale>>
        /\ hpc' = [hpc EXCEPT ![s] = "idle"]
        /\ cpc' = [c \in Client |-> IF Home[c] = s /\ cpc[c] = "commit" THEN "patch" ELSE cpc[c]]
    BY DEF Crash
  <1>2. \A c \in Client : (cpc'[c] \in Hits <=> cpc[c] \in Hits)
                          /\ (cpc'[c] = "saved" <=> cpc[c] = "saved")
    BY <1>1 DEF Hits
  <1>3. Saved' = Saved /\ Got' = Got
    BY <1>1 DEF Saved, Got
  <1>4. Found' = Found
    BY <1>1, <1>2, FoundSame
  <1>5. Told' = Told
    BY <1>2 DEF Told
  <1>6. Pending' = {} /\ Pending \in {{}, {hclient[s]}}
    <2>1. \A t \in Server : t = s
      BY DEF OneServer
    <2>2. hpc'[s] = "idle" /\ hclient[s] \in Client
      BY <1>1 DEF IndInv, TypeOK
    <2> QED BY <2>1, <2>2 DEF Pending
  <1>7. CASE Pending = {}
    BY <1>1, <1>3, <1>4, <1>5, <1>6, <1>7 DEF Store!vars
  <1>8. CASE Pending = {hclient[s]}
    BY <1>1, <1>3, <1>4, <1>5, <1>6, <1>8 DEF Store!Lose
  <1> QED BY <1>6, <1>7, <1>8

\* Nothing is saved or found at first.
LEMMA StoreInit == ASSUME Init PROVE Store!Init
  <1> USE DEF Init
  <1>1. Saved = [k \in Key |-> NoFile]
    BY DEF Saved, NoEntries
  <1>2. Found = [c \in Client |-> NoFile]
    BY DEF Found, Hits
  <1>3. Got = [c \in Client |-> NoFile]
    BY DEF Got
  <1>4. Pending = {} /\ Told = {}
    BY DEF Pending, Told
  <1>5. key \in [Client -> Key] /\ stale = FALSE
    BY KeyAssumption
  <1> QED BY <1>1, <1>2, <1>3, <1>4, <1>5 DEF Store!Init

\* The server, its disk and its restarts implement the abstract cache: commits
\* save at once and as a whole, what is confirmed is saved, and stays until it
\* is replaced or purged; a lookup finds what is saved, and its download
\* returns just that.
THEOREM ImplementsCacheStore == ASSUME OneServer PROVE Spec => StoreSpec
  <1>1. Init => Store!Init /\ Mirrored
    <2>1. Init => Mirrored
      BY DEF Init, Mirrored
    <2> QED BY <2>1, StoreInit
  <1>2. IndInv /\ Mirrored /\ [Next]_vars => Mirrored'
    BY MirroredStep
  <1>3. IndInv /\ IndInv' /\ Mirrored /\ [Next]_vars => [Store!Next]_(Store!vars)
    <2> SUFFICES ASSUME IndInv, IndInv', Mirrored, [Next]_vars
                 PROVE  Store!Next \/ UNCHANGED Store!vars
      OBVIOUS
    <2>1. stale \in BOOLEAN /\ stale' \in BOOLEAN
      BY DEF IndInv, TypeOK
    <2>2. CASE stale'
      BY <2>1, <2>2 DEF Store!Next, Store!Void
    <2>3. CASE ~stale'
      <3>1. ~stale
        BY <2>3, Fixed
      <3>2. ASSUME NEW c \in Client, Lookup(c) PROVE Store!Next
        BY <3>2, LookupFinds DEF Store!Next
      <3>3. ASSUME NEW c \in Client, BlobGet(c) PROVE Store!Next \/ UNCHANGED Store!vars
        <4>1. restored[c] = Empty
          BY <3>3 DEF BlobGet, Served, IndInv, ClientAt
        <4> QED BY <3>1, <3>3, <4>1, DownloadGets DEF Store!Next
      <3>4. ASSUME NEW s \in Server, CommitRename(s) PROVE UNCHANGED Store!vars
        BY <3>4, RenameHidden
      <3>5. ASSUME NEW s \in Server, CommitRecord(s) PROVE Store!Next
        <4>1. hclient[s] \in Client
          BY DEF IndInv, TypeOK
        <4> QED BY <3>1, <3>5, <4>1, RecordSaves DEF Store!Next
      <3>6. ASSUME NEW s \in Server, CommitCleanup(s) PROVE Store!Next
        <4>1. hclient[s] \in Client
          BY DEF IndInv, TypeOK
        <4> QED BY <3>6, <4>1, CleanupAnswers DEF Store!Next
      <3>7. ASSUME NEW s \in Server, NEW k \in Key, PurgeOne(s, k)
            PROVE  Store!Next \/ UNCHANGED Store!vars
        BY <3>1, <3>7, PurgeEvicts DEF Store!Next
      <3>8. ASSUME NEW s \in Server, PurgeSave(s) PROVE UNCHANGED Store!vars
        BY <3>8, PurgeSaveHidden
      <3>9. ASSUME NEW s \in Server, Crash(s) PROVE Store!Next \/ UNCHANGED Store!vars
        <4>1. hclient[s] \in Client
          BY DEF IndInv, TypeOK
        <4> QED BY <3>9, <4>1, CrashLoses DEF Store!Next
      <3>10. ASSUME \/ \E c \in Client : Reserve(c) \/ CommitFind(c) \/ \E ch \in Chunk : Patch(c, ch)
                    \/ \E s \in Server : Start(s) \/ PurgeStart(s)
                    \/ UNCHANGED vars
             PROVE  UNCHANGED Store!vars
        BY <2>1, <2>3, <3>1, <3>10, QuietSteps
      <3> QED BY <3>2, <3>3, <3>4, <3>5, <3>6, <3>7, <3>8, <3>9, <3>10, NextCases, Zenon
    <2> QED BY <2>2, <2>3
  <1> QED BY <1>1, <1>2, <1>3, CacheInvariant, PTL DEF Spec, StoreSpec, Store!Spec
=============================================================================
