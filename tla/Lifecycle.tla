------------------------------ MODULE Lifecycle ------------------------------
(***************************************************************************)
(* How a runner gets its identity, and how its daemon is kept alive        *)
(* (src/src/main.cpp, src/src/config/): the commands register and          *)
(* unregister, the two files they write, the watchdog that starts and      *)
(* restarts the daemon, and the daemon's start and end. A command may be   *)
(* killed between any two of its steps and its writes may fail; one is run *)
(* at a time, while the daemon may be running. fork may fail, the daemon   *)
(* may crash, signals come at any moment.                                  *)
(*                                                                         *)
(* The server numbers its registrations; token and uuid are the number, 0  *)
(* is the empty string. The names, the labels, the URL and the other       *)
(* settings travel with them. .runner is replaced by a rename, config.yaml *)
(* is truncated and written; neither write is checked. Delays are over at some time: only restart_delay_s > 0     *)
(* makes a difference. What the running daemon does is Poller's subject.   *)
(***************************************************************************)
EXTENDS Integers

CONSTANT MaxCommands   \* bound: commands

ASSUME CommandsAssumption == MaxCommands \in Nat

Number == 0..MaxCommands
File == [is : {"absent", "torn", "ok"}, token : Number, uuid : Number]

\* A torn file does not parse, so that nothing is read from it either: both
\* files are shorter than a block of the disk, and a failed write leaves them
\* empty.
Absent == [is |-> "absent", token |-> 0, uuid |-> 0]
Torn == [Absent EXCEPT !.is = "torn"]
Unknown == -1

VARIABLES
  config, state,            \* config.yaml, .runner
  issued,                   \* server: registrations
  commands, kpc,            \* commands so far; the place of the present one,
  cfg, reg,                 \* its cfg, reg.runner_token
  wpc, shutdown,            \* watchdog: place, g_shutdown,
  child, delayed,           \* g_watchdog_child_pid > 0, restart_delay_s > 0
  dpc, asked, id,           \* daemon: place, its g_shutdown, its cfg and later state
  settled                   \* history: what the last command should have left

files == <<config, state>>
command == <<commands, kpc, cfg, reg>>
watchdog == <<wpc, shutdown, child, delayed>>
daemon == <<dpc, asked, id>>
vars == <<files, issued, command, watchdog, daemon, settled>>

\* A new installation, possibly with a configuration from the example file.
Init ==
  /\ \/ config = Absent
     \/ config = [Absent EXCEPT !.is = "ok"]
  /\ state = Absent
  /\ issued = 0
  /\ commands = 0 /\ kpc = "idle" /\ cfg = Absent /\ reg = 0
  /\ wpc = "ended" /\ shutdown = FALSE /\ child = FALSE /\ delayed = FALSE
  /\ dpc = "none" /\ asked = FALSE /\ id = Absent
  /\ settled = Unknown

-----------------------------------------------------------------------------
(* The files *)

\* loadConfig: throws where it cannot parse the file, and without gitea_url.
Loadable == config.is = "ok"

\* RunnerState::empty()
Empty(s) == s.token = 0 \/ s.uuid = 0

-----------------------------------------------------------------------------
(* The commands *)

Starts == kpc = "idle" /\ commands < MaxCommands /\ commands' = commands + 1

Ends == kpc' = "idle"

\* cmdRegister loads the configuration or makes a minimal one.
RegisterLoad ==
  /\ Starts /\ kpc' = "register"
  /\ cfg' = IF Loadable THEN config ELSE [Absent EXCEPT !.is = "ok"]
  /\ settled' = Unknown
  /\ UNCHANGED <<files, issued, reg, watchdog, daemon>>

\* The Register RPC; the Declare that follows it may fail, which changes
\* nothing. An error may come after the server has acted.
RegisterCall ==
  /\ kpc = "register"
  /\ \/ /\ issued' = issued + 1 /\ reg' = issued + 1
        /\ kpc' \in {"save_state", "idle"}
     \/ Ends /\ UNCHANGED <<issued, reg>>
  /\ UNCHANGED <<files, commands, cfg, watchdog, daemon, settled>>

\* A temporary file is written, without a look at errors, and renamed: what a
\* full disk has torn replaces .runner as well.
saveRunnerState(n) == state' \in {[is |-> "ok", token |-> n, uuid |-> n], Torn}

\* If saving .runner throws the command ends. The configuration then gets the
\* identity.
RegisterSaveState ==
  /\ kpc = "save_state"
  /\ \/ /\ saveRunnerState(reg)
        /\ cfg' = [cfg EXCEPT !.token = reg, !.uuid = reg]
        /\ kpc' = "open_config"
     \/ Ends /\ UNCHANGED <<state, cfg>>
  /\ UNCHANGED <<config, issued, commands, reg, watchdog, daemon, settled>>

\* cmdUnregister needs .runner; without it, or where it is torn, there is
\* nothing to do, whatever identity config.yaml holds.
UnregisterLoad ==
  /\ Starts
  /\ cfg' = IF Loadable THEN config ELSE Absent
  /\ kpc' = IF Empty(state) THEN "idle" ELSE "remove_state"
  /\ settled' = Unknown
  /\ UNCHANGED <<files, issued, reg, watchdog, daemon>>

\* Faulty variant: the token stays in the configuration.
UnregisterRemoveStateOnly ==
  /\ kpc = "remove_state"
  /\ state' = Absent /\ reg' = 0
  /\ kpc' = IF cfg.is = "ok" THEN "open_config" ELSE "idle"
  /\ UNCHANGED <<config, issued, commands, cfg, watchdog, daemon, settled>>

\* .runner is removed, or the command ends with an error; the token, and not
\* the uuid, is cleared from the configuration, if there is one.
UnregisterRemoveState ==
  /\ kpc = "remove_state"
  /\ \/ /\ state' = Absent /\ reg' = 0
        /\ cfg' = [cfg EXCEPT !.token = 0]
        /\ kpc' = IF cfg.is = "ok" THEN "open_config" ELSE "idle"
     \/ Ends /\ UNCHANGED <<state, reg, cfg>>
  /\ UNCHANGED <<config, issued, commands, watchdog, daemon, settled>>

\* saveConfig opens, and so truncates, the file; the command goes on if it
\* cannot.
OpenConfig ==
  /\ kpc = "open_config"
  /\ \/ config' = Torn /\ kpc' = "write_config"
     \/ Ends /\ UNCHANGED config
  /\ UNCHANGED <<state, issued, commands, cfg, reg, watchdog, daemon, settled>>

\* It writes the file, without a look at errors.
WriteConfig ==
  /\ kpc = "write_config" /\ Ends
  /\ \/ config' = cfg /\ settled' = reg
     \/ UNCHANGED <<config, settled>>
  /\ UNCHANGED <<state, issued, commands, cfg, reg, watchdog, daemon>>

\* The command is killed.
Killed ==
  /\ kpc # "idle" /\ Ends
  /\ UNCHANGED <<files, issued, commands, cfg, reg, watchdog, daemon, settled>>

CommandStep ==
  \/ RegisterLoad \/ RegisterCall \/ RegisterSaveState
  \/ UnregisterLoad \/ UnregisterRemoveState
  \/ OpenConfig \/ WriteConfig \/ Killed

-----------------------------------------------------------------------------
(* runWatchdog *)

Zombie == dpc \in {"exit0", "exit1", "died"}

\* `act_runner daemon`: without a configuration it ends at once.
WatchdogStart ==
  /\ wpc = "ended"
  /\ wpc' = IF config.is = "absent" THEN "ended" ELSE "check"
  /\ shutdown' = FALSE /\ child' = FALSE /\ delayed' = FALSE
  /\ UNCHANGED <<files, issued, command, daemon, settled>>

\* The top of the loop, and the wait before a restart.
Check ==
  /\ wpc = "check"
  /\ wpc' = IF shutdown THEN "ended" ELSE IF delayed THEN "delay" ELSE "spawn"
  /\ UNCHANGED <<files, issued, command, shutdown, child, delayed, daemon, settled>>

Delay ==
  /\ wpc = "delay"
  /\ wpc' = IF shutdown THEN "ended" ELSE "spawn"
  /\ UNCHANGED <<files, issued, command, shutdown, child, delayed, daemon, settled>>

\* fork or load_image; the pid is stored afterwards.
Spawn ==
  /\ wpc = "spawn" /\ wpc' = "store"
  /\ dpc' = "exec" /\ asked' = FALSE /\ id' = Absent
  /\ UNCHANGED <<files, issued, command, shutdown, child, delayed, settled>>

SpawnFails ==
  /\ wpc = "spawn" /\ wpc' = "check" /\ delayed' = TRUE
  /\ UNCHANGED <<files, issued, command, shutdown, child, daemon, settled>>

StorePid ==
  /\ wpc = "store" /\ wpc' = "wait" /\ child' = TRUE
  /\ UNCHANGED <<files, issued, command, shutdown, delayed, daemon, settled>>

\* Faulty variant: whatever the exit status, the watchdog ends.
ReapedGivesUp ==
  /\ wpc = "wait" /\ Zombie
  /\ wpc' = "ended" /\ child' = FALSE /\ dpc' = "none"
  /\ UNCHANGED <<files, issued, command, shutdown, delayed, asked, id, settled>>

\* waitpid finds the daemon ended; else a shutdown starts the 10 s of grace.
\* The exit status decides: 0, or a shutdown, ends the watchdog as well.
Reaped ==
  /\ wpc = "wait" /\ Zombie
  /\ wpc' = IF shutdown \/ dpc = "exit0" THEN "ended" ELSE "check"
  /\ delayed' = TRUE /\ child' = FALSE /\ dpc' = "none"
  /\ UNCHANGED <<files, issued, command, shutdown, asked, id, settled>>

Grace ==
  /\ wpc = "wait" /\ ~Zombie /\ shutdown
  /\ wpc' = "grace"
  /\ UNCHANGED <<files, issued, command, shutdown, child, delayed, daemon, settled>>

\* Faulty variant: the watchdog does not kill the daemon.
GraceEndsUnkilled ==
  /\ wpc = "grace"
  /\ wpc' = "ended" /\ child' = FALSE
  /\ UNCHANGED <<files, issued, command, shutdown, delayed, daemon, settled>>

\* After 10 s: SIGKILL and waitpid.
GraceEnds ==
  /\ wpc = "grace"
  /\ wpc' = "ended" /\ child' = FALSE /\ dpc' = "none"
  /\ UNCHANGED <<files, issued, command, shutdown, delayed, asked, id, settled>>

WatchdogStep ==
  \/ Check \/ Delay \/ Spawn \/ SpawnFails \/ StorePid
  \/ Reaped \/ Grace \/ GraceEnds

-----------------------------------------------------------------------------
(* cmdDaemon *)

\* The configuration; without one, exit code 1.
DaemonLoadConfig ==
  /\ dpc = "exec"
  /\ \/ Loadable /\ id' = config /\ dpc' = "config"
     \/ ~Loadable /\ dpc' = "exit1" /\ UNCHANGED id
  /\ UNCHANGED <<files, issued, command, watchdog, asked, settled>>

\* Faulty variant: a uuid of the configuration replaces the one of .runner.
IdentityMixed(c, s) ==
  IF c.uuid # 0 /\ c.token # 0 THEN c
  ELSE IF c.uuid # 0 /\ s.is = "ok" THEN [s EXCEPT !.uuid = c.uuid] ELSE s

\* token and uuid come from the configuration if it has both, else from
\* .runner; one that does not parse ends the daemon like one that has neither.
Identity(c, s) == IF c.uuid # 0 /\ c.token # 0 THEN c ELSE s

DaemonIdentify ==
  /\ dpc = "config"
  /\ id' = Identity(id, state)
  /\ dpc' = IF Empty(id') THEN "exit1" ELSE "identified"
  /\ UNCHANGED <<files, issued, command, watchdog, asked, settled>>

\* Signal handlers, ping, and Declare, which may fail; then the poller runs.
DaemonRun ==
  /\ dpc = "identified" /\ dpc' = "running"
  /\ UNCHANGED <<files, issued, command, watchdog, asked, id, settled>>

\* stop() and join() of the poller, and the end.
DaemonStop ==
  /\ dpc = "running" /\ asked /\ dpc' = "exit0"
  /\ UNCHANGED <<files, issued, command, watchdog, asked, id, settled>>

DaemonDies ==
  /\ dpc \in {"exec", "config", "identified", "running"} /\ dpc' = "died"
  /\ UNCHANGED <<files, issued, command, watchdog, asked, id, settled>>

DaemonStep == DaemonLoadConfig \/ DaemonIdentify \/ DaemonRun

\* SIGTERM at the daemon: before its handlers are in place it dies of it,
\* unless it is forked and not yet replaced by execv, where the watchdog's
\* handler, inherited, makes nothing of it (but on Haiku).
Terminate ==
  /\ \/ dpc \in {"exec", "config", "identified"} /\ dpc' = "died"
     \/ dpc \notin {"config", "identified"} /\ dpc' = dpc
  /\ asked' = (asked \/ dpc = "running")

\* watchdog_signal_handler forwards the signal if it knows the daemon's pid.
Signal ==
  /\ wpc # "ended" /\ shutdown' = TRUE
  /\ \/ child /\ Terminate
     \/ ~child /\ UNCHANGED <<dpc, asked>>
  /\ UNCHANGED <<files, issued, command, wpc, child, delayed, id, settled>>

SignalDaemon ==
  /\ dpc # "none" /\ Terminate
  /\ UNCHANGED <<files, issued, command, watchdog, id, settled>>

-----------------------------------------------------------------------------

Next ==
  \/ CommandStep \/ WatchdogStart \/ WatchdogStep
  \/ DaemonStep \/ DaemonStop \/ DaemonDies \/ Signal \/ SignalDaemon

Spec == Init /\ [][Next]_vars

\* The watchdog's thread goes on, a fork that is tried again and again
\* succeeds at some time, and a daemon that does not crash starts up. Nothing
\* is assumed of how it stops, of commands, crashes or signals.
FairSpec ==
  Spec /\ WF_vars(WatchdogStep) /\ SF_vars(Spawn) /\ WF_vars(DaemonStep)

-----------------------------------------------------------------------------
(* Properties *)

\* The types; a daemon that has an identity has a registered one, and there
\* is no daemon where the watchdog has none.
TypeOK ==
  /\ config \in File /\ state \in File
  /\ issued \in Number
  /\ commands \in Number /\ issued <= commands
  /\ kpc \in {"idle", "register", "save_state", "remove_state", "open_config", "write_config"}
  /\ cfg \in File /\ reg \in 0..issued
  /\ wpc \in {"ended", "check", "delay", "spawn", "store", "wait", "grace"}
  /\ shutdown \in BOOLEAN /\ child \in BOOLEAN /\ delayed \in BOOLEAN
  /\ child <=> wpc \in {"wait", "grace"}
  /\ dpc \in {"none", "exec", "config", "identified", "running", "exit0", "exit1", "died"}
  /\ dpc = "none" <=> wpc \notin {"store", "wait", "grace"}
  /\ asked \in BOOLEAN /\ id \in File
  /\ dpc \in {"identified", "running"} => id.token \in 1..issued
  /\ settled \in Unknown..issued

\* The daemon never runs with the token of one registration and the uuid of
\* another, whatever commands failed or were killed half way before, and
\* whatever command runs while it reads the files: unregister leaves the uuid
\* in the configuration, and register may fail to write it.
IdentityWhole == dpc \in {"identified", "running"} => id.token = id.uuid

\* What a daemon would run as, if it were started now.
WouldBe ==
  IF Loadable /\ ~Empty(Identity(config, state)) THEN Identity(config, state).token ELSE 0

\* A command that has come to the end of its writes and has written
\* config.yaml in full has its effect, whatever happened in the commands before
\* it: after register the daemon runs as the registration just made, also
\* where the full disk has torn .runner, after unregister it does not start.
\* Nothing is claimed of an unregister that finds no state: with .runner torn
\* it changes nothing, and the daemon goes on with the token of config.yaml.
CommandSettles == settled # Unknown => WouldBe = settled

\* After a signal the watchdog ends, and no daemon is left behind: also if the
\* signal comes between the fork and the store of the pid and is not
\* forwarded, and if the daemon does not stop by itself.
SignalEndsAll == shutdown ~> wpc = "ended" /\ dpc = "none"

\* A daemon that crashed or gave up is started again, unless the watchdog gets
\* a signal.
CrashIsRestarted == dpc \in {"died", "exit1"} ~> dpc = "exec" \/ shutdown
=============================================================================
