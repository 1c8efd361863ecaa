SPECIFICATION Spec
CONSTANTS
  Futures = {f1, f2, f3, f4}
  f1 = f1
  f2 = f2
  f3 = f3
  f4 = f4
  None = None
  Capacity = 2
SYMMETRY AnyOrder
INVARIANTS
  TypeOK
  NothingUnreadIsLost
  RegistrationsAreOwned
  NoSleepBesideRoom
  NoSleepBesideValue
