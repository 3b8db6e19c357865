--------------------------- MODULE LifecycleProofs ---------------------------
(***************************************************************************)
(* Proofs about Lifecycle, for every number of commands: types,            *)
(* IdentityWhole and CommandSettles.                                       *)
(***************************************************************************)
EXTENDS Lifecycle, TLAPS

\* A file, or a copy of one, with a token has the uuid that belongs to it; a
\* file that was not loaded or written in full has neither.
Paired(f) ==
  /\ f.token # 0 => f.uuid = f.token
  /\ f.token \in 0..issued
  /\ f.is # "ok" => f.token = 0 /\ f.uuid = 0

\* All files and copies are paired, and a running daemon has an identity.
PairInv ==
  /\ Paired(config) /\ Paired(state) /\ Paired(cfg) /\ Paired(id)
  /\ dpc \in {"identified", "running"} => ~Empty(id)

\* Each command registers at most once; what it is about to write to the
\* configuration is what it means to leave behind.
CommandInv ==
  /\ kpc = "register" => issued < commands /\ cfg.is = "ok"
  /\ kpc = "save_state" => reg \in 1..issued /\ cfg.is = "ok"
  /\ kpc \in {"open_config", "write_config"} =>
       /\ cfg.is = "ok" /\ cfg.token = reg
       /\ reg = 0 => state = Absent

\* While a command's effect is claimed no command is under way.
SettledInv == settled # Unknown => kpc = "idle" /\ WouldBe = settled

IInv == TypeOK /\ PairInv /\ CommandInv /\ SettledInv

-----------------------------------------------------------------------------
(* Facts about files *)

\* The fields of a file have their types, and the two constant files are files.
LEMMA FileFields ==
  /\ Absent \in File /\ Torn \in File
  /\ \A f \in File : /\ f.is \in {"absent", "torn", "ok"}
                     /\ f.token \in Number /\ f.uuid \in Number
BY CommandsAssumption DEF File, Absent, Torn, Number

\* The identity that the daemon takes is one of its two arguments, as a whole.
LEMMA IdentityIsOne ==
  ASSUME NEW c, NEW s
  PROVE  Identity(c, s) \in {c, s}
BY DEF Identity

\* Pairing survives further registrations.
LEMMA PairedGrows ==
  ASSUME NEW f \in File, Paired(f), issued \in Nat, issued' \in Nat, issued <= issued'
  PROVE  f.token \in 0..issued'
BY FileFields DEF Paired, Number

-----------------------------------------------------------------------------
(* The inductive invariant *)

\* A new installation satisfies the invariant.
LEMMA InitIInv == Init => IInv
<1> SUFFICES ASSUME Init PROVE IInv
  OBVIOUS
<1>1. /\ config \in File /\ config.token = 0 /\ config.uuid = 0
  BY FileFields, CommandsAssumption DEF Init, File, Absent, Number
<1>3. TypeOK
  <2>1. /\ state \in File /\ cfg \in File /\ id \in File
    BY FileFields DEF Init, Absent
  <2>2. /\ issued \in Number /\ commands \in Number /\ issued <= commands
        /\ reg \in 0..issued /\ settled \in Unknown..issued
    BY CommandsAssumption DEF Init, Number, Unknown
  <2>3. /\ shutdown \in BOOLEAN /\ child \in BOOLEAN /\ delayed \in BOOLEAN
        /\ child <=> wpc \in {"wait", "grace"}
        /\ dpc = "none" <=> wpc \notin {"store", "wait", "grace"}
        /\ asked \in BOOLEAN
    BY DEF Init
  <2> QED
    BY <1>1, <2>1, <2>2, <2>3 DEF Init, TypeOK
<1>4. PairInv
  BY <1>1 DEF Init, PairInv, Paired, Absent
<1>5. CommandInv /\ SettledInv
  BY DEF Init, CommandInv, SettledInv
<1> QED
  BY <1>3, <1>4, <1>5 DEF IInv

\* What a step of the watchdog, which touches neither file nor identity, has
\* to keep for the invariant to hold after it.
LEMMA FilesUntouched ==
  ASSUME IInv, TypeOK',
         UNCHANGED <<files, issued, command, settled>>,
         \/ id' = id /\ (dpc' \in {"identified", "running"} => dpc' = dpc)
         \/ id' = Absent /\ dpc' = "exec"
  PROVE  IInv'
<1>1. PairInv'
  <2>1. Paired(config)' /\ Paired(state)' /\ Paired(cfg)'
    BY DEF IInv, PairInv, Paired, files, command
  <2>2. CASE id' = id /\ (dpc' \in {"identified", "running"} => dpc' = dpc)
    BY <2>1, <2>2 DEF IInv, PairInv, Paired, Empty
  <2>3. CASE id' = Absent /\ dpc' = "exec"
    <3>1. issued' \in Nat
      BY CommandsAssumption DEF IInv, TypeOK, Number
    <3> QED
      BY <2>1, <2>3, <3>1 DEF PairInv, Paired, Absent
  <2> QED
    BY <2>2, <2>3
<1>2. CommandInv'
  BY DEF IInv, CommandInv, files, command
<1>3. SettledInv'
  BY DEF IInv, SettledInv, WouldBe, Loadable, files, command
<1> QED
  BY <1>1, <1>2, <1>3 DEF IInv

\* What a step of a command has to keep: it leaves watchdog and daemon alone.
LEMMA DaemonUntouched ==
  ASSUME IInv, UNCHANGED <<watchdog, daemon>>, issued' \in Number, issued <= issued'
  PROVE  /\ wpc' \in {"ended", "check", "delay", "spawn", "store", "wait", "grace"}
         /\ shutdown' \in BOOLEAN /\ child' \in BOOLEAN /\ delayed' \in BOOLEAN
         /\ child' <=> wpc' \in {"wait", "grace"}
         /\ dpc' \in {"none", "exec", "config", "identified", "running", "exit0", "exit1", "died"}
         /\ dpc' = "none" <=> wpc' \notin {"store", "wait", "grace"}
         /\ asked' \in BOOLEAN /\ id' \in File
         /\ dpc' \in {"identified", "running"} => id'.token \in 1..issued'
         /\ dpc' \in {"identified", "running"} => ~Empty(id')
         /\ Paired(id)'
<1>1. issued \in Nat /\ issued' \in Nat
  BY CommandsAssumption DEF IInv, TypeOK, Number
<1>2. id' = id /\ dpc' = dpc /\ asked' = asked
  BY DEF daemon
<1>3. Paired(id)'
  BY <1>1, <1>2, PairedGrows DEF IInv, TypeOK, PairInv, Paired
<1>4. dpc' \in {"identified", "running"} => id'.token \in 1..issued'
  BY <1>1, <1>2 DEF IInv, TypeOK
<1> QED
  BY <1>2, <1>3, <1>4 DEF IInv, TypeOK, PairInv, Empty, watchdog

\* Each step of a command keeps the invariant: the token and the uuid that it
\* writes, to either file, belong to the registration it has made.
LEMMA CommandIInv == IInv /\ CommandStep => IInv'
<1> SUFFICES ASSUME IInv, CommandStep PROVE IInv'
  OBVIOUS
<1> USE CommandsAssumption
<1>0. /\ UNCHANGED <<watchdog, daemon>>
      /\ issued \in Nat /\ commands \in Nat
  BY DEF CommandStep, RegisterLoad, RegisterCall, RegisterSaveState, UnregisterLoad,
         UnregisterRemoveState, OpenConfig, WriteConfig, Killed, IInv, TypeOK, Number
<1>1. CASE RegisterLoad
  <2>1. /\ cfg' \in File /\ Paired(cfg)' /\ cfg'.is = "ok"
    <3>1. CASE Loadable
      BY <1>1, <3>1 DEF RegisterLoad, Loadable, IInv, TypeOK, PairInv, Paired
    <3>2. CASE ~Loadable
      <4>1. cfg' = [is |-> "ok", token |-> 0, uuid |-> 0]
        BY <1>1, <3>2 DEF RegisterLoad, Absent
      <4> QED
        BY <1>0, <1>1, <4>1 DEF File, Number, Paired, RegisterLoad
    <3> QED
      BY <3>1, <3>2
  <2>3. commands' \in Number /\ issued' < commands' /\ issued' = issued /\ kpc' = "register"
    BY <1>0, <1>1 DEF RegisterLoad, Starts, IInv, TypeOK, Number
  <2>4. TypeOK'
    BY <1>0, <1>1, <2>1, <2>3, DaemonUntouched
    DEF RegisterLoad, IInv, TypeOK, Unknown, files, Number
  <2>5. PairInv'
    BY <1>0, <1>1, <2>1, <2>3, DaemonUntouched
    DEF RegisterLoad, IInv, TypeOK, PairInv, Paired, files, Number
  <2>6. CommandInv' /\ SettledInv'
    BY <1>1, <2>1, <2>3 DEF RegisterLoad, CommandInv, SettledInv
  <2> QED
    BY <2>4, <2>5, <2>6 DEF IInv
<1>2. CASE RegisterCall
  <2>1. /\ issued' \in Number /\ issued <= issued' /\ issued' <= commands'
        /\ reg' \in 0..issued' /\ kpc' \in {"save_state", "idle"}
        /\ kpc' = "save_state" => reg' \in 1..issued' /\ cfg'.is = "ok"
    BY <1>0, <1>2 DEF RegisterCall, Ends, IInv, TypeOK, CommandInv, Number
  <2>3. settled' = settled /\ settled = Unknown
    BY <1>2 DEF RegisterCall, IInv, SettledInv
  <2>4. TypeOK'
    BY <1>0, <1>2, <2>1, <2>3, DaemonUntouched
    DEF RegisterCall, IInv, TypeOK, Unknown, files, Number
  <2>5. PairInv'
    <3>1. Paired(config)' /\ Paired(state)' /\ Paired(cfg)'
      BY <1>0, <1>2, <2>1, PairedGrows
      DEF RegisterCall, IInv, TypeOK, PairInv, Paired, files, Number
    <3> QED
      BY <1>0, <2>1, <3>1, DaemonUntouched DEF PairInv
  <2>6. CommandInv' /\ SettledInv'
    BY <2>1, <2>3 DEF CommandInv, SettledInv
  <2> QED
    BY <2>4, <2>5, <2>6 DEF IInv
<1>3. CASE RegisterSaveState
  <2>1. /\ state' \in File /\ Paired(state)'
        /\ cfg' \in File /\ Paired(cfg)'
        /\ kpc' \in {"open_config", "idle"}
        /\ kpc' = "open_config" => cfg'.is = "ok" /\ cfg'.token = reg' /\ reg' # 0
    <3>1. CASE UNCHANGED <<state, cfg>> /\ kpc' = "idle"
      BY <1>3, <3>1 DEF RegisterSaveState, IInv, TypeOK, PairInv, Paired
    <3>2. CASE /\ saveRunnerState(reg) /\ kpc' = "open_config"
               /\ cfg' = [cfg EXCEPT !.token = reg, !.uuid = reg]
      <4>1. /\ reg \in 1..issued /\ cfg.is = "ok" /\ reg \in Number /\ cfg \in File
            /\ issued' = issued /\ reg' = reg
        BY <1>0, <1>3 DEF RegisterSaveState, IInv, TypeOK, CommandInv, Number
      <4>2. state' = [is |-> "ok", token |-> reg, uuid |-> reg] \/ state' = Torn
        BY <3>2 DEF saveRunnerState
      <4>3. /\ cfg' \in File
            /\ cfg'.token = reg /\ cfg'.uuid = reg /\ cfg'.is = "ok"
        BY <3>2, <4>1 DEF File
      <4> QED
        BY <1>0, <3>2, <4>1, <4>2, <4>3 DEF File, Paired, Torn, Absent, Number
    <3> QED
      BY <1>3, <3>1, <3>2 DEF RegisterSaveState, Ends
  <2>2. settled' = settled /\ settled = Unknown
    BY <1>3 DEF RegisterSaveState, IInv, SettledInv
  <2>3. TypeOK'
    BY <1>0, <1>3, <2>1, <2>2, DaemonUntouched
    DEF RegisterSaveState, IInv, TypeOK, Unknown, Number
  <2>4. PairInv'
    BY <1>0, <1>3, <2>1, DaemonUntouched
    DEF RegisterSaveState, IInv, TypeOK, PairInv, Paired, Number
  <2>5. CommandInv' /\ SettledInv'
    BY <2>1, <2>2 DEF CommandInv, SettledInv
  <2> QED
    BY <2>3, <2>4, <2>5 DEF IInv
<1>4. CASE UnregisterLoad
  <2>1. /\ cfg' \in File /\ Paired(cfg)'
    BY <1>0, <1>4, FileFields
    DEF UnregisterLoad, IInv, TypeOK, PairInv, Paired, Absent
  <2>2. /\ commands' \in Number /\ issued' <= commands' /\ issued' = issued
        /\ kpc' \in {"idle", "remove_state"}
    BY <1>0, <1>4 DEF UnregisterLoad, Starts, IInv, TypeOK, Number
  <2>3. TypeOK'
    BY <1>0, <1>4, <2>1, <2>2, DaemonUntouched
    DEF UnregisterLoad, IInv, TypeOK, Unknown, files, Number
  <2>4. PairInv'
    BY <1>0, <1>4, <2>1, <2>2, DaemonUntouched
    DEF UnregisterLoad, IInv, TypeOK, PairInv, Paired, files, Number
  <2>5. CommandInv' /\ SettledInv'
    BY <1>4, <2>2 DEF UnregisterLoad, CommandInv, SettledInv
  <2> QED
    BY <2>3, <2>4, <2>5 DEF IInv
<1>5. CASE UnregisterRemoveState
  <2>1. /\ state' \in File /\ Paired(state)'
        /\ cfg' \in File /\ Paired(cfg)' /\ reg' \in 0..issued'
        /\ kpc' \in {"open_config", "idle"}
        /\ kpc' = "open_config" =>
             cfg'.is = "ok" /\ cfg'.token = reg' /\ state' = Absent
    <3>1. CASE UNCHANGED <<state, reg, cfg>> /\ kpc' = "idle"
      BY <1>5, <3>1 DEF UnregisterRemoveState, IInv, TypeOK, PairInv, Paired
    <3>2. CASE /\ state' = Absent /\ reg' = 0 /\ cfg' = [cfg EXCEPT !.token = 0]
               /\ kpc' = IF cfg.is = "ok" THEN "open_config" ELSE "idle"
      <4>1. issued' = issued /\ cfg \in File /\ Paired(cfg)
        BY <1>5 DEF UnregisterRemoveState, IInv, TypeOK, PairInv
      <4>2. cfg' \in File /\ cfg'.token = 0 /\ cfg'.uuid = cfg.uuid /\ cfg'.is = cfg.is
        BY <3>2, <4>1 DEF File, Number
      <4>3. Paired(cfg)' /\ Paired(state)'
        BY <1>0, <3>2, <4>1, <4>2 DEF Paired, Absent
      <4> QED
        BY <1>0, <3>2, <4>1, <4>2, <4>3, FileFields DEF Absent
    <3> QED
      BY <1>5, <3>1, <3>2 DEF UnregisterRemoveState, Ends
  <2>2. settled' = settled /\ settled = Unknown
    BY <1>5 DEF UnregisterRemoveState, IInv, SettledInv
  <2>3. TypeOK'
    BY <1>0, <1>5, <2>1, <2>2, DaemonUntouched
    DEF UnregisterRemoveState, IInv, TypeOK, Unknown, Number
  <2>4. PairInv'
    BY <1>0, <1>5, <2>1, DaemonUntouched
    DEF UnregisterRemoveState, IInv, TypeOK, PairInv, Paired, Number
  <2>5. CommandInv' /\ SettledInv'
    BY <2>1, <2>2 DEF CommandInv, SettledInv
  <2> QED
    BY <2>3, <2>4, <2>5 DEF IInv
<1>6. CASE OpenConfig
  <2>1. config' \in File /\ Paired(config)'
    BY <1>0, <1>6, FileFields
    DEF OpenConfig, Torn, Absent, IInv, TypeOK, PairInv, Paired
  <2>2. settled' = settled /\ settled = Unknown /\ kpc' \in {"write_config", "idle"}
    BY <1>6 DEF OpenConfig, Ends, IInv, SettledInv
  <2>3. TypeOK'
    BY <1>0, <1>6, <2>1, <2>2, DaemonUntouched
    DEF OpenConfig, IInv, TypeOK, Unknown, Number
  <2>4. PairInv'
    BY <1>0, <1>6, <2>1, DaemonUntouched
    DEF OpenConfig, IInv, TypeOK, PairInv, Paired, Number
  <2>5. CommandInv'
    BY <1>6, <2>2 DEF OpenConfig, IInv, CommandInv
  <2> QED
    BY <2>2, <2>3, <2>4, <2>5 DEF IInv, SettledInv
<1>7. CASE WriteConfig
  <2>1. /\ config' \in File /\ Paired(config)' /\ settled' \in Unknown..issued'
        /\ kpc' = "idle"
    BY <1>0, <1>7 DEF WriteConfig, Ends, IInv, TypeOK, PairInv, Paired, Unknown
  <2>2. TypeOK'
    BY <1>0, <1>7, <2>1, DaemonUntouched
    DEF WriteConfig, IInv, TypeOK, Number
  <2>3. PairInv'
    BY <1>0, <1>7, <2>1, DaemonUntouched
    DEF WriteConfig, IInv, TypeOK, PairInv, Paired, Number
  <2>4. CommandInv'
    BY <2>1 DEF CommandInv
  <2>5. SettledInv'
    <3>1. CASE UNCHANGED <<config, settled>>
      BY <1>7, <3>1 DEF WriteConfig, IInv, SettledInv
    <3>2. CASE config' = cfg /\ settled' = reg
      <4>1. /\ Loadable' /\ config'.token = reg /\ reg \in Nat
            /\ reg # 0 => config'.uuid = reg
            /\ reg = 0 => state' = Absent
        BY <1>0, <1>7, <3>2
        DEF WriteConfig, IInv, TypeOK, CommandInv, PairInv, Paired, Loadable
      <4>3. CASE reg = 0
        <5>1. Identity(config, state)' = Absent
          BY <4>1, <4>3 DEF Identity
        <5> QED
          BY <2>1, <3>2, <4>3, <5>1 DEF SettledInv, WouldBe, Empty, Absent
      <4>4. CASE reg # 0
        <5>1. Identity(config, state)' = config'
          BY <4>1, <4>4 DEF Identity
        <5> QED
          BY <2>1, <3>2, <4>1, <4>4, <5>1 DEF SettledInv, WouldBe, Empty
      <4> QED
        BY <4>3, <4>4
    <3> QED
      BY <1>7, <3>1, <3>2 DEF WriteConfig
  <2> QED
    BY <2>2, <2>3, <2>4, <2>5 DEF IInv
<1>8. CASE Killed
  <2>1. settled' = settled /\ settled = Unknown /\ kpc' = "idle"
    BY <1>8 DEF Killed, Ends, IInv, SettledInv
  <2>2. TypeOK'
    BY <1>0, <1>8, <2>1, DaemonUntouched
    DEF Killed, IInv, TypeOK, Unknown, files, Number
  <2>3. PairInv'
    BY <1>0, <1>8, DaemonUntouched
    DEF Killed, IInv, TypeOK, PairInv, Paired, files, Number
  <2> QED
    BY <2>1, <2>2, <2>3 DEF IInv, CommandInv, SettledInv
<1> QED
  BY <1>1, <1>2, <1>3, <1>4, <1>5, <1>6, <1>7, <1>8 DEF CommandStep

\* The watchdog keeps the invariant: it has a daemon, and knows its pid, just
\* in the places where it should.
LEMMA WatchdogIInv == IInv /\ (WatchdogStart \/ WatchdogStep) => IInv'
<1> SUFFICES ASSUME IInv, WatchdogStart \/ WatchdogStep PROVE IInv'
  OBVIOUS
<1> USE DEF files, command, watchdog, daemon, IInv, TypeOK
<1>1. CASE WatchdogStart
  BY <1>1, FilesUntouched DEF WatchdogStart
<1>2. CASE Check
  BY <1>2, FilesUntouched DEF Check
<1>3. CASE Delay
  BY <1>3, FilesUntouched DEF Delay
<1>4. CASE Spawn
  BY <1>4, FilesUntouched, FileFields DEF Spawn
<1>5. CASE SpawnFails
  BY <1>5, FilesUntouched DEF SpawnFails
<1>6. CASE StorePid
  BY <1>6, FilesUntouched DEF StorePid
<1>7. CASE Reaped
  BY <1>7, FilesUntouched DEF Reaped, Zombie
<1>8. CASE Grace
  BY <1>8, FilesUntouched DEF Grace
<1>9. CASE GraceEnds
  BY <1>9, FilesUntouched DEF GraceEnds
<1> QED
  BY <1>1, <1>2, <1>3, <1>4, <1>5, <1>6, <1>7, <1>8, <1>9 DEF WatchdogStep

\* A step that changes neither a file, nor a command's state, nor the number of
\* registrations keeps the parts of the invariant that are about these.
LEMMA CommandUntouched ==
  ASSUME IInv, UNCHANGED <<files, command, issued, settled>>
  PROVE  /\ CommandInv' /\ SettledInv'
         /\ Paired(config)' /\ Paired(state)' /\ Paired(cfg)'
BY DEF IInv, PairInv, Paired, CommandInv, SettledInv, WouldBe, Loadable,
       files, command

\* The daemon keeps the invariant: what it loads is a paired file, and it goes
\* on only if that has an identity.
LEMMA DaemonIInv ==
  IInv /\ (DaemonStep \/ DaemonStop \/ DaemonDies \/ Signal \/ SignalDaemon) => IInv'
<1> SUFFICES ASSUME IInv, DaemonStep \/ DaemonStop \/ DaemonDies \/ Signal \/ SignalDaemon
             PROVE  IInv'
  OBVIOUS
<1> USE CommandsAssumption
<1>0. /\ UNCHANGED <<files, command, issued, settled>>
      /\ issued \in Nat
  BY DEF DaemonStep, DaemonLoadConfig, DaemonIdentify, DaemonRun, DaemonStop, DaemonDies,
         Signal, SignalDaemon, IInv, TypeOK, Number
<1>1. CASE DaemonLoadConfig
  <2>1. id' \in File /\ Paired(id)' /\ dpc' \in {"config", "exit1"}
    BY <1>0, <1>1 DEF DaemonLoadConfig, IInv, TypeOK, PairInv, Paired
  <2>2. TypeOK'
    BY <1>0, <1>1, <2>1 DEF DaemonLoadConfig, IInv, TypeOK, files, command, watchdog
  <2> QED
    BY <1>0, <2>1, <2>2, CommandUntouched DEF IInv, PairInv
<1>2. CASE DaemonIdentify
  <2>1. id' \in File /\ Paired(id)'
    BY <1>0, <1>2, IdentityIsOne DEF DaemonIdentify, IInv, TypeOK, PairInv, Paired
  <2>2. dpc' \in {"exit1", "identified"} /\ (dpc' = "identified" => ~Empty(id'))
    BY <1>2 DEF DaemonIdentify
  <2>3. dpc' = "identified" => id'.token \in 1..issued'
    BY <1>0, <2>1, <2>2 DEF Empty, Paired
  <2>4. TypeOK'
    BY <1>0, <1>2, <2>1, <2>2, <2>3
    DEF DaemonIdentify, IInv, TypeOK, files, command, watchdog
  <2> QED
    BY <1>0, <2>1, <2>2, <2>4, CommandUntouched DEF IInv, PairInv, Empty
<1>3. CASE DaemonRun
  <2>2. TypeOK'
    BY <1>0, <1>3 DEF DaemonRun, IInv, TypeOK, files, command, watchdog
  <2>3. PairInv'
    BY <1>0, <1>3, CommandUntouched DEF DaemonRun, IInv, PairInv, Paired, Empty
  <2> QED
    BY <1>0, <2>2, <2>3, CommandUntouched DEF IInv
<1>4. CASE DaemonStop \/ DaemonDies
  <2>1. TypeOK'
    BY <1>4
    DEF DaemonStop, DaemonDies, IInv, TypeOK, files, command, watchdog
  <2> QED
    BY <1>0, <1>4, <2>1, FilesUntouched DEF DaemonStop, DaemonDies
<1>5. CASE Signal \/ SignalDaemon
  <2>1. /\ wpc' = wpc /\ child' = child /\ delayed' = delayed /\ shutdown' \in BOOLEAN
    BY <1>5 DEF Signal, SignalDaemon, IInv, TypeOK, watchdog
  <2>2. /\ asked' \in BOOLEAN /\ id' = id
        /\ dpc' = dpc \/ (dpc \in {"exec", "config", "identified"} /\ dpc' = "died")
    BY <1>5 DEF Signal, SignalDaemon, Terminate, IInv, TypeOK, watchdog
  <2>3. TypeOK'
    BY <1>0, <2>1, <2>2 DEF IInv, TypeOK, files, command
  <2> QED
    BY <1>0, <2>2, <2>3, FilesUntouched
<1> QED
  BY <1>1, <1>2, <1>3, <1>4, <1>5 DEF DaemonStep

\* IInv is an invariant of the specification: at every moment, whatever
\* commands were killed half way, whatever writes failed and whenever the
\* daemon reads the files, each file and each copy of one holds a token and
\* uuid of one registration, or no token.
THEOREM InductiveInvariant == Spec => []IInv
<1>1. IInv /\ [Next]_vars => IInv'
  <2> SUFFICES ASSUME IInv, [Next]_vars PROVE IInv'
    OBVIOUS
  <2>1. CASE Next
    BY <2>1, CommandIInv, WatchdogIInv, DaemonIInv DEF Next
  <2>2. CASE UNCHANGED vars
    <3>1. UNCHANGED <<files, issued, command, watchdog, daemon, settled>>
      BY <2>2 DEF vars
    <3>2. TypeOK'
      BY <3>1 DEF IInv, TypeOK, files, command, watchdog, daemon
    <3> QED
      BY <3>1, <3>2, FilesUntouched DEF daemon
  <2> QED
    BY <2>1, <2>2
<1> QED
  BY <1>1, InitIInv, PTL DEF Spec

-----------------------------------------------------------------------------
(* What follows from it *)

\* Types are kept, with both files possibly torn; there is a daemon exactly where the watchdog has one, and
\* the watchdog knows its pid while it waits for it.
THEOREM TypeCorrect == Spec => []TypeOK
BY InductiveInvariant, PTL DEF IInv

\* No daemon runs with the token of one registration and the uuid of another.
THEOREM IdentityNeverMixed == Spec => []IdentityWhole
<1>1. IInv => IdentityWhole
  BY DEF IInv, PairInv, Paired, IdentityWhole, Empty
<1> QED
  BY <1>1, InductiveInvariant, PTL

\* A command that has written config.yaml after its .runner, torn or whole, or
\* after the removal of .runner, decides who the next daemon is.
THEOREM CommandTakesEffect == Spec => []CommandSettles
<1>1. IInv => CommandSettles
  BY DEF IInv, SettledInv, CommandSettles
<1> QED
  BY <1>1, InductiveInvariant, PTL
=============================================================================
