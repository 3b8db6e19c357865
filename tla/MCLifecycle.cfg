SPECIFICATION FairSpec
CONSTANT MaxCommands = 4
INVARIANTS IdentityWhole CommandSettles
PROPERTIES SignalEndsAll CrashIsRestarted
