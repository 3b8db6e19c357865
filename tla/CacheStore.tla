----------------------------- MODULE CacheStore ------------------------------
(***************************************************************************)
(* What the cache promises to jobs, with no index, blobs, upload ids,      *)
(* chunks, handlers or restarts: a job saves its upload under its key at   *)
(* once and as a whole, and is told so only afterwards; what is saved      *)
(* stays, across crashes, until it is replaced or evicted; a job that      *)
(* looks its key up finds what is saved, and downloads just what it found  *)
(* unless that is evicted meanwhile.                                       *)
(*                                                                         *)
(* The promise ends when a job uses an upload id that it got from an       *)
(* earlier run of the server: ids start again at 1, and from then on       *)
(* uploads may be mixed.                                                   *)
(***************************************************************************)

CONSTANTS Client, Key,
          Restorer,   \* clients with a restore key, a prefix of all keys
          Upload,     \* what each client uploads
          Nothing     \* no upload

VARIABLES key,      \* the key of each client
          store,    \* what is saved under each key
          hit,      \* what the lookup of each client found, until it downloads
          got,      \* what each client has restored
          pending,  \* clients whose upload was saved, and who wait for the answer
          told,     \* clients who know that it was saved
          stale     \* an id of before a restart was used

vars == <<key, store, hit, got, pending, told, stale>>

Init ==
  /\ key \in [Client -> Key] /\ store = [k \in Key |-> Nothing]
  /\ hit = [c \in Client |-> Nothing] /\ got = [c \in Client |-> Nothing]
  /\ pending = {} /\ told = {} /\ stale = FALSE

\* What is saved under the client's key; if nothing is, with a restore key
\* something that is saved under another one, or nothing.
Lookup(c) ==
  /\ \/ hit' = [hit EXCEPT ![c] = store[key[c]]]
     \/ /\ store[key[c]] = Nothing /\ c \in Restorer
        /\ \E k \in Key : hit' = [hit EXCEPT ![c] = store[k]]
  /\ UNCHANGED <<key, store, got, pending, told, stale>>

Download(c) ==
  /\ hit[c] # Nothing
  /\ got' = [got EXCEPT ![c] = hit[c]] /\ hit' = [hit EXCEPT ![c] = Nothing]
  /\ UNCHANGED <<key, store, pending, told, stale>>

\* Two jobs with the same key may both save: the later one replaces the other.
Save(c) ==
  /\ c \notin told
  /\ store' = [store EXCEPT ![key[c]] = Upload[c]]
  /\ pending' = pending \cup {c}
  /\ UNCHANGED <<key, hit, got, told, stale>>

\* The answer reaches the client,
Confirm(c) ==
  /\ c \in pending
  /\ pending' = pending \ {c} /\ told' = told \cup {c}
  /\ UNCHANGED <<key, store, hit, got, stale>>

\* or is lost, or the server crashes before it is sent.
Lose(c) ==
  /\ c \in pending
  /\ pending' = pending \ {c}
  /\ UNCHANGED <<key, store, hit, got, told, stale>>

\* Those who are about to download what is evicted find nothing.
Evict(k) ==
  /\ store' = [store EXCEPT ![k] = Nothing]
  /\ DOMAIN hit' = Client
  /\ \A c \in Client : hit'[c] = hit[c] \/ (hit[c] = store[k] /\ hit'[c] = Nothing)
  /\ UNCHANGED <<key, got, pending, told, stale>>

Void == stale' = TRUE

Next ==
  \/ \E c \in Client : Lookup(c) \/ Download(c) \/ Save(c) \/ Confirm(c) \/ Lose(c)
  \/ \E k \in Key : Evict(k)
  \/ Void

Spec == Init /\ [][Next]_vars
==============================================================================
