SPECIFICATION FairSpec

CONSTANTS
  t1 = t1  t2 = t2  a1 = a1  a2 = a2  a3 = a3
  Main = Main
  Free = Free
  NoFile = NoFile
  NoMod = NoMod
  Manager = "mmanager"
  SudoEvent = "OnMessage"
  Kind <- MCKind
  Subscribes <- MCSubscribes
  Returns <- MCReturns
  Threads = {t1, t2}
  Files = {"mmanager", "spotify"}
  Addr = {a1, a2, a3}
  Events = {"OnMessage"}
  Config <- ConfigManager
  MayThrow = {"spotify"}
  MayDecline = {}
  Commands = {"load", "unload", "reload", "modules"}
  MaxCommands = 2
  StaleReads = {"intact"}

PROPERTY DispatchEnds
