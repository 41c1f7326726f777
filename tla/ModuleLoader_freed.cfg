SPECIFICATION Spec

CONSTANTS
  t1 = t1  t2 = t2  a1 = a1  a2 = a2  a3 = a3
  Main = Main
  Free = Free
  NoFile = NoFile
  NoMod = NoMod
  Manager = "mmanager"
  SudoEvent = "OnMessage"
  Kind <- MCKind
  Subscribes <- MCSubscribes
  Returns <- MCReturns
  Threads = {t1, t2}
  Files = {"mmanager", "spotify"}
  Addr = {a1, a2, a3}
  Events = {"OnMessage"}
  Config <- ConfigBoth
  MayThrow = {}
  MayDecline = {}
  Commands = {"unload"}
  MaxCommands = 1
  StaleReads = {"intact"}

INVARIANT NoUseAfterFree
