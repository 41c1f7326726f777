SPECIFICATION Spec

CONSTANTS
  t1 = t1  t2 = t2  one = one  two = two  d1 = d1  d2 = d2
  Free = Free
  Broken = Broken
  NoAccount = NoAccount
  NoDevice = NoDevice
  Bogus = Bogus
  DefaultAccount = one
  Accounts = {one, two}
  Devices = {d1, d2}
  Threads = {t1}
  Kinds = {"link", "accounts", "account", "devices", "device", "status", "sql"}
  MayBreak = TRUE
  MayFail = TRUE
  MaxMessages = 4
  MaxRestarts = 2

INVARIANT RowsOwn
PROPERTY AccountAnswerTrue
PROPERTY DeviceAnswerTrue
