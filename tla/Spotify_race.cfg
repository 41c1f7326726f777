SPECIFICATION Spec

CONSTANTS
  t1 = t1  t2 = t2  one = one  two = two  d1 = d1  d2 = d2
  Free = Free
  Broken = Broken
  NoAccount = NoAccount
  NoDevice = NoDevice
  Bogus = Bogus
  DefaultAccount = one
  Accounts = {one, two}
  Devices = {d1}
  Threads = {t1, t2}
  Kinds = {"link", "account"}
  MayBreak = FALSE
  MayFail = FALSE
  MaxMessages = 3
  MaxRestarts = 0

PROPERTY TokenOfDefault
