SPECIFICATION Spec

CONSTANTS
  t1 = t1  t2 = t2  a1 = a1  a2 = a2  a3 = a3
  Main = Main
  Free = Free
  NoFile = NoFile
  NoMod = NoMod
  Manager = "mmanager"
  SudoEvent = "OnMessage"
  Kind <- MCKind
  Subscribes <- MCSubscribes
  Returns <- MCReturns
  Threads = {t1, t2}
  Files = {"mmanager", "spotify", "ldap", "bare", "null", "absent"}
  Addr = {a1, a2, a3}
  Events = {"OnMessage", "OnCommand", "OnSlashCommand"}
  Config <- ConfigBoth
  MayThrow = {"spotify"}
  MayDecline = {"ldap"}
  Commands = {"load", "unload", "reload", "modules", "ping", "restart"}
  MaxCommands = 3
  StaleReads = {"intact", "null", "wild"}
SYMMETRY Symmetry

INVARIANT TypeOK
INVARIANT MutexGuardsLoader
INVARIANT RegistryLive
INVARIANT HandlersAccounted
INVARIANT HandlersComplete
INVARIANT NoDoubleRegistration
INVARIANT LibraryMapped
PROPERTY SnapshotLoaded
PROPERTY ImplementsRegistry
