---------------------------- MODULE ActionCache ----------------------------
(***************************************************************************)
(* The cache of downloaded actions (class ActionCache of                   *)
(* src/src/action/ActionRunner.cpp): one directory shared by all jobs of   *)
(* the runner and kept from one start of the daemon to the next. An action *)
(* (owner/repo@ref) has a directory of its own, dest[a]; every download of *)
(* an archive goes through one file, tmp_action.zip.                       *)
(*                                                                         *)
(* A repository is abstracted to two files, action.yml and the rest of it, *)
(* which git and unzip write one after the other. git, curl and unzip are  *)
(* external commands: each may fail at any point.                          *)
(***************************************************************************)
EXTENDS Integers, FiniteSets

CONSTANTS
  Job,       \* the jobs that run at the same time
  Action,    \* the actions that exist as owner/repo@ref
  Rooted,    \* those with an action.yml at the root of the repository
  Bases,     \* the number of base URLs to try
  Stuck      \* bound: the files that remove_all may fail to remove

ASSUME CacheAssumption == Rooted \subseteq Action /\ Bases \in Nat \ {0}

VARIABLES
  target,    \* the action fetchAction was called for
  fpc,       \* where fetchAction is
  base, try, \* the base URL, and the way of downloading that is tried
  wrote,     \* files the git process of the job believes to have written
  dest,      \* cache_root/owner/repo/ref: exists, and what it holds
  zip,       \* tmp_action.zip: exists, what was downloaded, who still writes it
  suspect    \* history: actions whose directory two jobs have touched at once,
             \* or that a crash, a failed rename or a failed remove_all has
             \* left half written or half removed

fetching == <<target, fpc, base, try, wrote>>
cache == <<fetching, dest, zip, suspect>>

None == "none"
Junk == "junk"   \* an error page (curl runs without -f), or two mixed archives
File == {"yml", "rest"}
\* What a directory may hold: files of an action at its top or below the
\* directory an archive starts with, and the .git of a clone.
Entry == [of : Action, at : {"top", "sub"}, file : File]
         \cup [of : Action, at : {"top"}, file : {"git"}]
TopFile(a, f) == [of |-> a, at |-> "top", file |-> f]
SubFile(a, f) == [of |-> a, at |-> "sub", file |-> f]

CacheInit ==
  /\ target = [j \in Job |-> None] /\ fpc = [j \in Job |-> "idle"]
  /\ base = [j \in Job |-> 1] /\ try = [j \in Job |-> "git"]
  /\ wrote = [j \in Job |-> {}]
  /\ dest = [a \in Action |-> [there |-> FALSE, files |-> {}]]
  /\ zip = [there |-> FALSE, of |-> Junk, writers |-> {}]
  /\ suspect = {}

Busy == {"clone", "cloning", "clear", "curl", "curling", "unzip", "unlink",
         "flatten"}

Goto(j, place) == fpc' = [fpc EXCEPT ![j] = place]
\* fetchAction is left: its local variables are gone.
Leave(j, place) ==
  /\ Goto(j, place)
  /\ base' = [base EXCEPT ![j] = 1] /\ try' = [try EXCEPT ![j] = "git"]
  /\ wrote' = [wrote EXCEPT ![j] = {}]
Gone == [there |-> FALSE, files |-> {}]

\* Other jobs that are fetching the action, or that run what they fetched.
Others(j, a, places) == {k \in Job \ {j} : target[k] = a /\ fpc[k] \in places}

-----------------------------------------------------------------------------

\* cachedPath: an action.yml at the root is all it asks for.
CachedPath(a) == \E b \in Rooted : TopFile(b, "yml") \in dest[a].files

\* fetchAction is called: the directory is cached, or the first base URL is
\* tried.
Lookup(j) ==
  LET a == target[j] IN
  /\ fpc[j] = "lookup"
  /\ Goto(j, IF CachedPath(a) THEN "fetched" ELSE "clone")
  /\ suspect' = IF Others(j, a, IF CachedPath(a) THEN Busy
                                ELSE Busy \cup {"fetched"}) # {}
                THEN suspect \cup {a} ELSE suspect
  /\ UNCHANGED <<target, base, try, wrote, dest, zip>>

\* git clone creates the directory, and refuses one that is not empty.
CloneStarts(j) ==
  LET a == target[j] IN
  /\ fpc[j] = "clone"
  /\ dest[a].files = {}
  /\ Goto(j, "cloning")
  /\ dest' = [dest EXCEPT ![a] = [there |-> TRUE, files |-> {TopFile(a, "git")}]]
  /\ UNCHANGED <<target, base, try, wrote, zip, suspect>>

CloneRefused(j) ==
  /\ fpc[j] = "clone"
  /\ Goto(j, "clear")
  /\ UNCHANGED <<target, base, try, wrote, dest, zip, suspect>>

\* The files of the work tree appear one after the other; git does not look
\* at what becomes of them.
CloneWrites(j) ==
  LET a == target[j] IN
  /\ fpc[j] = "cloning" /\ dest[a].there
  /\ \E f \in File \ wrote[j] :
       /\ wrote' = [wrote EXCEPT ![j] = @ \cup {f}]
       /\ dest' = [dest EXCEPT ![a].files = @ \cup {TopFile(a, f)}]
  /\ UNCHANGED <<target, fpc, base, try, zip, suspect>>

CloneSucceeds(j) ==
  /\ fpc[j] = "cloning" /\ wrote[j] = File
  /\ Leave(j, "fetched")
  /\ UNCHANGED <<target, dest, zip, suspect>>

CloneFails(j) ==
  /\ fpc[j] = "cloning"
  /\ Goto(j, "clear") /\ wrote' = [wrote EXCEPT ![j] = {}]
  /\ UNCHANGED <<target, base, try, dest, zip, suspect>>

\* Faulty variant: after the last base URL comes the first one again.
NextTryCircular(j) ==
  CASE try[j] = "git"  -> <<base[j], "tags", "curl">>
    [] try[j] = "tags" -> <<base[j], "archive", "curl">>
    [] OTHER -> <<1 + (base[j] % Bases), "git", "clone">>

\* What is tried after a way of downloading has failed.
NextTry(j) ==
  CASE try[j] = "git"  -> <<base[j], "tags", "curl">>
    [] try[j] = "tags" -> <<base[j], "archive", "curl">>
    [] try[j] = "archive" /\ base[j] < Bases -> <<base[j] + 1, "git", "clone">>
    [] OTHER -> <<1, "git", "failed">>

\* Faulty variant: the next way is tried on top of what the last one left.
KeepPartial(j) ==
  /\ fpc[j] = "clear"
  /\ base' = [base EXCEPT ![j] = NextTry(j)[1]]
  /\ try' = [try EXCEPT ![j] = NextTry(j)[2]]
  /\ Goto(j, NextTry(j)[3])
  /\ UNCHANGED <<target, wrote, dest, zip, suspect>>

\* remove_all(dest), whoever wrote what is in it, and on to the next way;
\* after the last one fetchAction throws. An error of remove_all is ignored:
\* any of the files may then stay.
ClearPartial(j) ==
  LET a == target[j] IN
  /\ fpc[j] = "clear"
  /\ \/ dest' = [dest EXCEPT ![a] = Gone] /\ UNCHANGED suspect
     \/ \E left \in SUBSET (dest[a].files \cap Stuck) \ {{}} :
          /\ dest' = [dest EXCEPT ![a].files = left]
          /\ suspect' = suspect \cup {a}
  /\ base' = [base EXCEPT ![j] = NextTry(j)[1]]
  /\ try' = [try EXCEPT ![j] = NextTry(j)[2]]
  /\ Goto(j, NextTry(j)[3])
  /\ UNCHANGED <<target, wrote, zip>>

-----------------------------------------------------------------------------
(* downloadViaZip *)

\* curl truncates the file, or shares it with a curl that still writes to it.
CurlStarts(j) ==
  LET a == target[j]
      rivals == {k \in Job \ {j} : fpc[k] \in {"curling", "unzip", "unlink"}}
  IN
  /\ fpc[j] = "curl"
  /\ Goto(j, "curling")
  /\ \E got \in {a, Junk} :
       zip' = IF zip.there /\ zip.writers # {}
              THEN [zip EXCEPT !.of = IF @ = got THEN got ELSE Junk,
                               !.writers = @ \cup {j}]
              ELSE [there |-> TRUE, of |-> got, writers |-> {j}]
  /\ suspect' = IF rivals = {} THEN suspect
                ELSE suspect \cup {a} \cup {target[k] : k \in rivals}
  /\ UNCHANGED <<target, base, try, wrote, dest>>

\* curl is not installed, or ends with an error: the file stays as it is.
CurlFails(j) ==
  /\ fpc[j] \in {"curl", "curling"}
  /\ Goto(j, "clear")
  /\ zip' = [zip EXCEPT !.of = IF j \in zip.writers THEN Junk ELSE @,
                        !.writers = @ \ {j}]
  /\ UNCHANGED <<target, base, try, wrote, dest, suspect>>

CurlSucceeds(j) ==
  /\ fpc[j] = "curling"
  /\ Goto(j, "unzip")
  /\ zip' = [zip EXCEPT !.writers = @ \ {j}]
  /\ UNCHANGED <<target, base, try, wrote, dest, suspect>>

\* Whatever archive the file holds by now is unpacked.
UnzipSucceeds(j) ==
  /\ fpc[j] = "unzip"
  /\ zip.there /\ zip.writers = {} /\ zip.of # Junk
  /\ dest' = [dest EXCEPT ![target[j]] =
                [there |-> TRUE,
                 files |-> @.files \cup {SubFile(zip.of, f) : f \in File}]]
  /\ Goto(j, "unlink")
  /\ UNCHANGED <<target, base, try, wrote, zip, suspect>>

\* unzip fails, possibly after it has written some of the files; the archive
\* is removed all the same.
UnzipFails(j) ==
  /\ fpc[j] = "unzip"
  /\ \E fs \in SUBSET (IF zip.there /\ zip.of # Junk THEN File ELSE {}) :
       dest' = [dest EXCEPT ![target[j]] =
                  [there |-> TRUE,
                   files |-> @.files \cup {SubFile(zip.of, f) : f \in fs}]]
  /\ zip' = [there |-> FALSE, of |-> Junk, writers |-> {}]
  /\ Goto(j, "clear")
  /\ UNCHANGED <<target, base, try, wrote, suspect>>

UnlinkZip(j) ==
  /\ fpc[j] = "unlink"
  /\ zip' = [there |-> FALSE, of |-> Junk, writers |-> {}]
  /\ Goto(j, "flatten")
  /\ UNCHANGED <<target, base, try, wrote, dest, suspect>>

Below(a) == {e \in dest[a].files : e.at = "sub"}

\* The contents of the archive's directory are moved up, one by one.
Flatten(j) ==
  LET a == target[j] IN
  /\ fpc[j] = "flatten" /\ dest[a].there
  /\ \E e \in Below(a) :
       dest' = [dest EXCEPT ![a].files = (@ \ {e}) \cup {TopFile(e.of, e.file)}]
  /\ UNCHANGED <<fetching, zip, suspect>>

\* Nothing is left to move, or the directory found first was a .git.
FlattenEnds(j) ==
  LET a == target[j] IN
  /\ fpc[j] = "flatten" /\ dest[a].there
  /\ Below(a) = {} \/ \E e \in dest[a].files : e.file = "git"
  /\ Leave(j, "fetched")
  /\ UNCHANGED <<target, dest, zip, suspect>>

\* The directory is gone and directory_iterator throws, or a rename throws,
\* as it does for an entry with the name of the archive's own directory:
\* fetchAction is left, and what was moved stays where it is.
FlattenThrows(j) ==
  LET a == target[j] IN
  /\ fpc[j] = "flatten"
  /\ ~dest[a].there \/ Below(a) # {}
  /\ Leave(j, "failed")
  /\ suspect' = IF dest[a].there THEN suspect \cup {a} ELSE suspect
  /\ UNCHANGED <<target, dest, zip>>

-----------------------------------------------------------------------------

\* The steps of the runner's own thread, and the ends of the commands it runs.
FetchStep(j) ==
  \/ Lookup(j) \/ ClearPartial(j) \/ UnlinkZip(j) \/ CurlStarts(j)
  \/ Flatten(j) \/ FlattenEnds(j) \/ FlattenThrows(j)
  \/ CloneStarts(j) \/ CloneRefused(j)

CommandStep(j) ==
  \/ CloneWrites(j) \/ CloneSucceeds(j) \/ CloneFails(j)
  \/ CurlSucceeds(j) \/ CurlFails(j)
  \/ UnzipSucceeds(j) \/ UnzipFails(j)

\* The runner dies: the directory stays as it is.
CacheCrash ==
  /\ fpc' = [j \in Job |-> "idle"] /\ target' = [j \in Job |-> None]
  /\ base' = [j \in Job |-> 1] /\ try' = [j \in Job |-> "git"]
  /\ wrote' = [j \in Job |-> {}]
  /\ zip' = [zip EXCEPT !.writers = {}, !.of = IF zip.writers = {} THEN @ ELSE Junk]
  /\ suspect' = suspect \cup {target[j] : j \in {k \in Job : fpc[k] \in Busy}}
  /\ UNCHANGED dest

-----------------------------------------------------------------------------
(* Properties *)

CacheTypeOK ==
  /\ target \in [Job -> Action \cup {None}]
  /\ fpc \in [Job -> Busy \cup {"idle", "lookup", "fetched", "failed"}]
  /\ base \in [Job -> 1..Bases] /\ try \in [Job -> {"git", "tags", "archive"}]
  /\ wrote \in [Job -> SUBSET File]
  /\ dest \in [Action -> [there : BOOLEAN, files : SUBSET Entry]]
  /\ zip \in [there : BOOLEAN, of : Action \cup {Junk}, writers : SUBSET Job]
  /\ suspect \subseteq Action

\* fetchAction hands out, and a job goes on using, the whole of the action
\* that was asked for and nothing else, through all the ways of downloading
\* that failed before and whatever an earlier job or an earlier run of the
\* daemon left in the cache. The exceptions are what nothing in the code
\* prevents: jobs that fetch the same action, or download archives, at the
\* same time; a job that fetches again what another one uses (a repository
\* without an action.yml at its root is never taken for cached); a crash
\* during a fetch; a rename that throws while an archive is flattened
\* (ActionRunner.cpp:74, an archive whose top directory holds an entry of its
\* own name), for which one job is enough; and a remove_all that fails
\* unnoticed (121, 131, 140). Each can leave a broken directory behind that
\* is then taken for cached by every later job.
FetchedWhole ==
  \A j \in Job : fpc[j] = "fetched" /\ target[j] \notin suspect =>
    {e \in dest[target[j]].files : e.file # "git"}
      = {TopFile(target[j], f) : f \in File}
=============================================================================
