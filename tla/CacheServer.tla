----------------------------- MODULE CacheServer -----------------------------
(***************************************************************************)
(* The cache half of CacheServer (src/src/cache/CacheServer.cpp), the disk *)
(* it works on, and the jobs that use it: each looks its key up, downloads *)
(* what it finds and, without an exact hit, reserves an upload, sends its  *)
(* chunks and commits it. A server may crash at any moment and is started  *)
(* again; uploads and the next id are in memory only, the index, the blobs *)
(* and the upload directories stay. `act_runner daemon` and `act_runner    *)
(* run` use the same directory by default: hence a set of servers.         *)
(*                                                                         *)
(* One thread runs the handlers of a server, so that they do not overlap;  *)
(* purgeOlderThan is called by the main thread after start() and holds the *)
(* mutex throughout. A handler is split where its effects on the disk are, *)
(* because of crashes and of the other server. A rename replaces its file  *)
(* at once: a crash is one of the process, the disk keeps what was written *)
(* in its order and is never full when the index is written.               *)
(*                                                                         *)
(* A key stands for "<key>|<version>". A blob is numbered in the order of  *)
(* the commits, which also is the order of created_at_ms; 0 is no blob. A  *)
(* file is the writer of each of its chunks.                               *)
(***************************************************************************)
EXTENDS Integers, FiniteSets, FiniteSetsExt

CONSTANTS Server,
          Purger,      \* the servers that purge when they start: the daemon
          Client, Key, NoKey,
          Home,        \* the server of each client
          Restorer,    \* clients with a restore key, a prefix of all keys
          KeyChoices,  \* the ways to give the clients their keys
          Chunk,       \* the pieces an upload is sent in
          MaxUploads,  \* bound: upload ids used between two starts
          MaxBlobs,    \* bound: commits
          MaxCrashes   \* bound: crashes

ASSUME ServerAssumption == Purger \subseteq Server /\ Home \in [Client -> Server]
ASSUME KeyAssumption == NoKey \notin Key /\ KeyChoices \subseteq [Client -> Key]
ASSUME ClientAssumption ==
  /\ Client # {} /\ Restorer \subseteq Client
  /\ Client \cap {"none", "torn", "nofile"} = {}
ASSUME ChunkAssumption == Chunk # {}
ASSUME BoundAssumption ==
  MaxUploads \in Nat /\ MaxBlobs \in Nat /\ MaxCrashes \in Nat

Id == 1..MaxUploads
Blob == 1..MaxBlobs
Content == [Chunk -> Client \cup {"none", "torn", "nofile"}]
Empty == [ch \in Chunk |-> "none"]
NoFile == [ch \in Chunk |-> "nofile"]
Whole(c) == [ch \in Chunk |-> c]

VARIABLES
  index, blobs, dirs, files,   \* disk: index.json, blobs/, uploads/<id>, its data
  up, boot,          \* the server runs; how often it was started
  entries,           \* entries_: the blob of each key
  uploads, next,     \* uploads_ (their keys), next_upload_id_
  hpc, hclient, hblob,   \* handleCacheCommit: place, client, blob
  ppc, removed, cutoff,  \* purgeOlderThan: place, removed > 0, cutoff_ms
  key,               \* clients: the key of each
  cpc, url, cid, epoch, sent, restored,  \* clients: place, what they know and got
  nblobs, crashes,   \* blobs and crashes so far
  purged, evicted,   \* history: blobs and keys that were purged
  stale              \* history: an id was used after the restart of its server

disk == <<index, blobs, dirs, files>>
memory == <<up, boot, entries, uploads, next>>
commit == <<hpc, hclient, hblob>>
purge == <<ppc, removed, cutoff>>
client == <<key, cpc, url, cid, epoch, sent, restored>>
history == <<purged, evicted, stale>>
vars == <<disk, memory, commit, purge, client, nblobs, crashes, history>>

NoEntries == [k \in Key |-> 0]
NoUploads == [i \in Id |-> NoKey]

Init ==
  /\ index = NoEntries /\ blobs = [b \in Blob |-> NoFile]
  /\ dirs = {} /\ files = [i \in Id |-> NoFile]
  /\ up = [s \in Server |-> FALSE] /\ boot = [s \in Server |-> 0]
  /\ entries = [s \in Server |-> NoEntries]
  /\ uploads = [s \in Server |-> NoUploads] /\ next = [s \in Server |-> 1]
  /\ hpc = [s \in Server |-> "idle"] /\ hblob = [s \in Server |-> 0]
  /\ hclient = [s \in Server |-> CHOOSE c \in Client : TRUE]
  /\ ppc = [s \in Server |-> "none"] /\ removed = [s \in Server |-> FALSE]
  /\ cutoff = 0
  /\ key \in KeyChoices /\ cpc = [c \in Client |-> "lookup"]
  /\ url = [c \in Client |-> 0] /\ cid = [c \in Client |-> 0]
  /\ epoch = [c \in Client |-> 0] /\ sent = [c \in Client |-> {}]
  /\ restored = [c \in Client |-> Empty]
  /\ nblobs = 0 /\ crashes = 0 /\ purged = {} /\ evicted = {} /\ stale = FALSE

-----------------------------------------------------------------------------
(* Requests: the handler thread is free, and for most of them the mutex *)

Locked(s) == ppc[s] = "purging"

Served(c, place) == cpc[c] = place /\ up[Home[c]] /\ hpc[Home[c]] = "idle"

\* The whole index, in memory, replaces the file.
saveIndexLocked(e) == index' = e

Goes(c, place) == cpc' = [cpc EXCEPT ![c] = place]

\* handleCacheLookup: the entry of the key, else the newest one that the
\* restore key matches, else a miss.
Lookup(c) ==
  LET found == entries[Home[c]]
  IN  /\ Served(c, "lookup") /\ ~Locked(Home[c])
      /\ \/ /\ found[key[c]] # 0
            /\ url' = [url EXCEPT ![c] = found[key[c]]] /\ Goes(c, "exact")
         \/ /\ found[key[c]] = 0 /\ c \in Restorer /\ found # NoEntries
            /\ url' = [url EXCEPT ![c] = Max({found[k] : k \in Key})]
            /\ Goes(c, "prefix")
         \/ /\ found[key[c]] = 0 /\ (c \in Restorer => found = NoEntries)
            /\ Goes(c, "reserve") /\ UNCHANGED url
      /\ UNCHANGED <<disk, memory, commit, purge, key, cid, epoch, sent,
                     restored, nblobs, crashes, history>>

\* handleBlobGet, without the mutex. After an exact hit the job does not save.
BlobGet(c) ==
  /\ Served(c, "exact") \/ Served(c, "prefix")
  /\ restored' = [restored EXCEPT ![c] = blobs[url[c]]]
  /\ Goes(c, IF cpc[c] = "exact" /\ blobs[url[c]] # NoFile THEN "done" ELSE "reserve")
  /\ UNCHANGED <<disk, memory, commit, purge, key, url, cid, epoch, sent,
                 nblobs, crashes, history>>

\* handleCacheReserve: 409 if the key is committed; else a new id and an empty
\* file. The answer may be lost, and the client reserves again.
Reserve(c) ==
  LET s == Home[c] IN
  /\ Served(c, "reserve") /\ ~Locked(s)
  /\ \/ /\ entries[s][key[c]] # 0
        /\ Goes(c, "done")
        /\ UNCHANGED <<uploads, dirs, files, next, cid, epoch>>
     \/ /\ entries[s][key[c]] = 0 /\ next[s] \in Id
        /\ uploads' = [uploads EXCEPT ![s][next[s]] = key[c]]
        /\ next' = [next EXCEPT ![s] = @ + 1]
        /\ dirs' = dirs \cup {next[s]}
        /\ files' = [files EXCEPT ![next[s]] = Empty]
        /\ \/ /\ cid' = [cid EXCEPT ![c] = next[s]]
              /\ epoch' = [epoch EXCEPT ![c] = boot[s]]
              /\ Goes(c, "patch")
           \/ UNCHANGED <<cid, epoch, cpc>>
  /\ UNCHANGED <<index, blobs, up, boot, entries, commit, purge, key, url,
                 sent, restored, nblobs, crashes, history>>

Known(c) == uploads[Home[c]][cid[c]] # NoKey

UsesStale(c) == stale \/ (Known(c) /\ epoch[c] # boot[Home[c]])

\* The file of an upload with one chunk replaced; open() creates it if needed.
Written(i, ch, what) ==
  [(IF files[i] = NoFile THEN Empty ELSE files[i]) EXCEPT ![ch] = what]

\* Faulty variant: a failed write is answered like a successful one.
PatchUnchecked(c, ch) ==
  /\ Served(c, "patch") /\ ~Locked(Home[c]) /\ ch \notin sent[c]
  /\ Known(c) /\ cid[c] \in dirs
  /\ \E what \in {c, "torn"} : files' = [files EXCEPT ![cid[c]] = Written(cid[c], ch, what)]
  /\ sent' = [sent EXCEPT ![c] = @ \cup {ch}]
  /\ stale' = UsesStale(c)
  /\ UNCHANGED <<index, blobs, dirs, memory, commit, purge, key, cpc, url, cid,
                 epoch, restored, nblobs, crashes, purged, evicted>>

\* handleCachePatch: the chunk is written, or torn with a 500; an answer may
\* be lost, and the chunk is sent again. An unknown id, or a directory that is
\* gone, makes the client give up. (received and declared_size are never read.)
Patch(c, ch) ==
  /\ Served(c, "patch") /\ ~Locked(Home[c]) /\ ch \notin sent[c]
  /\ \/ /\ Known(c) /\ cid[c] \in dirs
        /\ \/ /\ files' = [files EXCEPT ![cid[c]] = Written(cid[c], ch, c)]
              /\ sent' \in {sent, [sent EXCEPT ![c] = @ \cup {ch}]}
           \/ /\ files' = [files EXCEPT ![cid[c]] = Written(cid[c], ch, "torn")]
              /\ UNCHANGED sent
        /\ UNCHANGED cpc
     \/ /\ ~Known(c) \/ cid[c] \notin dirs
        /\ Goes(c, "done") /\ UNCHANGED <<files, sent>>
  /\ stale' = UsesStale(c)
  /\ UNCHANGED <<index, blobs, dirs, memory, commit, purge, key, url, cid,
                 epoch, restored, nblobs, crashes, purged, evicted>>

-----------------------------------------------------------------------------
(* handleCacheCommit *)

\* Faulty variant: the entry is recorded before the blob is in its place.
CommitFindRecords(c) ==
  LET s == Home[c] IN
  /\ Served(c, "patch") /\ ~Locked(s) /\ sent[c] = Chunk /\ Known(c)
  /\ nblobs < MaxBlobs
  /\ entries' = [entries EXCEPT ![s][uploads[s][cid[c]]] = nblobs + 1]
  /\ index' = entries'[s]
  /\ hpc' = [hpc EXCEPT ![s] = "rename"] /\ hclient' = [hclient EXCEPT ![s] = c]
  /\ Goes(c, "commit") /\ stale' = UsesStale(c)
  /\ UNCHANGED <<blobs, dirs, files, up, boot, uploads, next, hblob, purge, key,
                 url, cid, epoch, sent, restored, nblobs, crashes, purged, evicted>>

\* The client commits when all chunks are confirmed; 404 for an unknown id.
CommitFind(c) ==
  LET s == Home[c] IN
  /\ Served(c, "patch") /\ ~Locked(s) /\ sent[c] = Chunk
  /\ \/ /\ Known(c) /\ Goes(c, "commit")
        /\ hpc' = [hpc EXCEPT ![s] = "rename"]
        /\ hclient' = [hclient EXCEPT ![s] = c]
     \/ ~Known(c) /\ Goes(c, "done") /\ UNCHANGED <<hpc, hclient>>
  /\ stale' = UsesStale(c)
  /\ UNCHANGED <<disk, memory, hblob, purge, key, url, cid, epoch, sent,
                 restored, nblobs, crashes, purged, evicted>>

\* The file becomes a blob with a new name; or rename and copy fail, as they
\* do if the file is gone, and the answer is 500. uploads/ and blobs/ are
\* below one directory, so that the rename does the work: the copy and remove
\* for two file systems, between which the server may die, is not a step.
CommitRename(s) ==
  LET c == hclient[s]
      id == cid[c]
  IN  /\ hpc[s] = "rename"
      /\ \/ /\ files[id] # NoFile /\ nblobs < MaxBlobs
            /\ nblobs' = nblobs + 1
            /\ blobs' = [blobs EXCEPT ![nblobs + 1] = files[id]]
            /\ files' = [files EXCEPT ![id] = NoFile]
            /\ hblob' = [hblob EXCEPT ![s] = nblobs + 1]
            /\ hpc' = [hpc EXCEPT ![s] = "record"]
            /\ UNCHANGED cpc
         \/ /\ hpc' = [hpc EXCEPT ![s] = "idle"] /\ Goes(c, "done")
            /\ UNCHANGED <<nblobs, blobs, files, hblob>>
      /\ UNCHANGED <<index, dirs, memory, hclient, purge, key, url, cid, epoch,
                     sent, restored, crashes, history>>

\* Faulty variant: the index is not saved.
CommitRecordUnsaved(s) ==
  LET id == cid[hclient[s]] IN
  /\ hpc[s] = "record" /\ ~Locked(s)
  /\ entries' = [entries EXCEPT ![s][uploads[s][id]] = hblob[s]]
  /\ uploads' = [uploads EXCEPT ![s][id] = NoKey]
  /\ hpc' = [hpc EXCEPT ![s] = "cleanup"]
  /\ UNCHANGED <<disk, up, boot, next, hclient, hblob, purge, client, nblobs,
                 crashes, history>>

\* Under the mutex: the entry is stored, an earlier one of its key replaced,
\* the upload erased and the whole index saved.
CommitRecord(s) ==
  LET id == cid[hclient[s]] IN
  /\ hpc[s] = "record" /\ ~Locked(s)
  /\ entries' = [entries EXCEPT ![s][uploads[s][id]] = hblob[s]]
  /\ uploads' = [uploads EXCEPT ![s][id] = NoKey]
  /\ saveIndexLocked(entries'[s])
  /\ hpc' = [hpc EXCEPT ![s] = "cleanup"]
  /\ UNCHANGED <<blobs, dirs, files, up, boot, next, hclient, hblob, purge,
                 client, nblobs, crashes, history>>

\* The upload's directory is removed and 204 is sent; if it is lost, the
\* client commits again.
CommitCleanup(s) ==
  LET c == hclient[s] IN
  /\ hpc[s] = "cleanup"
  /\ dirs' = dirs \ {cid[c]} /\ files' = [files EXCEPT ![cid[c]] = NoFile]
  /\ hpc' = [hpc EXCEPT ![s] = "idle"]
  /\ \E place \in {"saved", "patch"} : Goes(c, place)
  /\ UNCHANGED <<index, blobs, memory, hclient, hblob, purge, key, url, cid,
                 epoch, sent, restored, nblobs, crashes, history>>

-----------------------------------------------------------------------------
(* Start, purge and crash *)

\* Constructor and start(): the index is loaded, everything else is new.
Start(s) ==
  /\ ~up[s]
  /\ up' = [up EXCEPT ![s] = TRUE] /\ boot' = [boot EXCEPT ![s] = @ + 1]
  /\ entries' = [entries EXCEPT ![s] = index]
  /\ uploads' = [uploads EXCEPT ![s] = NoUploads] /\ next' = [next EXCEPT ![s] = 1]
  /\ ppc' = [ppc EXCEPT ![s] = IF s \in Purger THEN "due" ELSE "done"]
  /\ removed' = [removed EXCEPT ![s] = FALSE]
  /\ UNCHANGED <<disk, commit, cutoff, client, nblobs, crashes, history>>

\* purgeOlderThan takes the mutex; time only moves forward.
PurgeStart(s) ==
  /\ up[s] /\ ppc[s] = "due"
  /\ cutoff' \in cutoff..(nblobs + 1)
  /\ ppc' = [ppc EXCEPT ![s] = "purging"]
  /\ UNCHANGED <<disk, memory, commit, removed, client, nblobs, crashes, history>>

Old(s) == {k \in Key : entries[s][k] \in 1..(cutoff - 1)}

\* The blob of one old entry is removed, and the entry from memory,
PurgeOne(s, k) ==
  /\ up[s] /\ ppc[s] = "purging" /\ k \in Old(s)
  /\ blobs' = [blobs EXCEPT ![entries[s][k]] = NoFile]
  /\ entries' = [entries EXCEPT ![s][k] = 0]
  /\ removed' = [removed EXCEPT ![s] = TRUE]
  /\ purged' = purged \cup {entries[s][k]} /\ evicted' = evicted \cup {k}
  /\ UNCHANGED <<index, dirs, files, up, boot, uploads, next, commit, ppc,
                 cutoff, client, nblobs, crashes, stale>>

\* and when there is none left, the index is saved if it has changed.
PurgeSave(s) ==
  /\ up[s] /\ ppc[s] = "purging" /\ Old(s) = {}
  /\ IF removed[s] THEN saveIndexLocked(entries[s]) ELSE UNCHANGED index
  /\ ppc' = [ppc EXCEPT ![s] = "done"]
  /\ UNCHANGED <<blobs, dirs, files, memory, commit, removed, cutoff, client,
                 nblobs, crashes, history>>

\* The process dies; a client whose request was being handled sees an error.
\* Jobs have process groups of their own and may outlive the server; if its
\* port is fixed they go on with it.
Crash(s) ==
  /\ up[s] /\ crashes < MaxCrashes
  /\ crashes' = crashes + 1
  /\ up' = [up EXCEPT ![s] = FALSE]
  /\ entries' = [entries EXCEPT ![s] = NoEntries]
  /\ uploads' = [uploads EXCEPT ![s] = NoUploads]
  /\ hpc' = [hpc EXCEPT ![s] = "idle"] /\ ppc' = [ppc EXCEPT ![s] = "none"]
  /\ cpc' = [c \in Client |-> IF Home[c] = s /\ cpc[c] = "commit" THEN "patch"
                                                                  ELSE cpc[c]]
  /\ UNCHANGED <<disk, boot, next, hclient, hblob, removed, cutoff, key, url,
                 cid, epoch, sent, restored, nblobs, history>>

-----------------------------------------------------------------------------

ClientStep(c) ==
  \/ Lookup(c) \/ BlobGet(c) \/ Reserve(c) \/ CommitFind(c)
  \/ \E ch \in Chunk : Patch(c, ch)

ServerStep(s) ==
  \/ CommitRename(s) \/ CommitRecord(s) \/ CommitCleanup(s)
  \/ Start(s) \/ PurgeStart(s) \/ PurgeSave(s) \/ Crash(s)
  \/ \E k \in Key : PurgeOne(s, k)

Next == (\E c \in Client : ClientStep(c)) \/ (\E s \in Server : ServerStep(s))

Spec == Init /\ [][Next]_vars

-----------------------------------------------------------------------------
(* Properties *)

\* The types: an upload has an id below next_upload_id_, and its file is in
\* its directory.
TypeOK ==
  /\ index \in [Key -> 0..MaxBlobs] /\ blobs \in [Blob -> Content]
  /\ dirs \subseteq Id /\ files \in [Id -> Content]
  /\ \A i \in Id \ dirs : files[i] = NoFile
  /\ up \in [Server -> BOOLEAN] /\ boot \in [Server -> Nat]
  /\ entries \in [Server -> [Key -> 0..MaxBlobs]]
  /\ uploads \in [Server -> [Id -> Key \cup {NoKey}]]
  /\ next \in [Server -> 1..(MaxUploads + 1)]
  /\ \A s \in Server : \A i \in Id : uploads[s][i] # NoKey => i < next[s]
  /\ hpc \in [Server -> {"idle", "rename", "record", "cleanup"}]
  /\ hclient \in [Server -> Client] /\ hblob \in [Server -> 0..MaxBlobs]
  /\ ppc \in [Server -> {"none", "due", "purging", "done"}]
  /\ removed \in [Server -> BOOLEAN] /\ cutoff \in 0..(MaxBlobs + 1)
  /\ key \in [Client -> Key]
  /\ cpc \in [Client -> {"lookup", "exact", "prefix", "reserve", "patch",
                         "commit", "saved", "done"}]
  /\ url \in [Client -> 0..MaxBlobs] /\ cid \in [Client -> 0..MaxUploads]
  /\ epoch \in [Client -> Nat] /\ sent \in [Client -> SUBSET Chunk]
  /\ restored \in [Client -> Content]
  /\ nblobs \in 0..MaxBlobs /\ crashes \in 0..MaxCrashes
  /\ purged \subseteq Blob /\ evicted \subseteq Key /\ stale \in BOOLEAN

\* What an entry leads to is one complete upload for its key, with all chunks
\* of one client and none torn or missing, and so is what a job restores;
\* unless a client has used an id of before a restart.
RestoredWhole ==
  ~stale =>
    /\ \A k \in Key : index[k] # 0 =>
         blobs[index[k]] \in {NoFile} \cup {Whole(d) : d \in {e \in Client : key[e] = k}}
    /\ \A c \in Client : restored[c] \in {Empty, NoFile} \cup {Whole(d) : d \in Client}

\* Whatever crashes there were, also in the middle of a purge or of a commit:
\* once a server that purges has done so, every hit it gives can be served,
\* and a download after a hit only ever fails if the purge removed the blob.
HitIsServable ==
  /\ \A s \in Purger : up[s] /\ ppc[s] = "done" =>
       \A k \in Key : entries[s][k] # 0 => blobs[entries[s][k]] # NoFile
  /\ \A c \in Client : restored[c] = NoFile => url[c] \in purged

\* A cache whose commit was confirmed survives crashes and restarts until it
\* is purged.
CommitIsDurable ==
  ~stale => \A c \in Client :
    cpc[c] = "saved" => index[key[c]] # 0 \/ key[c] \in evicted
-----------------------------------------------------------------------------
(* The abstract cache *)

\* What is saved under a key is the blob its entry of the index leads to; a
\* client has found a blob until it downloads it.
Saved == [k \in Key |-> IF index[k] = 0 THEN NoFile ELSE blobs[index[k]]]
Hits == {"exact", "prefix"}
Found == [c \in Client |-> IF cpc[c] \in Hits THEN blobs[url[c]] ELSE NoFile]
Got == [c \in Client |-> IF restored[c] = Empty THEN NoFile ELSE restored[c]]
Pending == {c \in Client : \E s \in Server : hpc[s] = "cleanup" /\ hclient[s] = c}
Told == {c \in Client : cpc[c] = "saved"}

Store == INSTANCE CacheStore WITH
  store <- Saved, hit <- Found, got <- Got, pending <- Pending, told <- Told,
  Upload <- [c \in Client |-> Whole(c)], Nothing <- NoFile

\* handleCacheCommit, handleBlobGet, purgeOlderThan and the restarts between
\* them together are a cache that saves at once: what is committed stays, whole
\* and across crashes, until it is replaced or purged; 204 is only sent for what
\* is saved; a lookup finds what is saved, and the download returns just that.
StoreSpec == Store!Spec
=============================================================================
