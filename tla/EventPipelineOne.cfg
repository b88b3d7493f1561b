SPECIFICATION FairSpec
CONSTANTS
  eSystem = eSystem
  eCreated = eCreated
  eRefused = eRefused
  eKnown = eKnown
  eUnknown = eUnknown
  u1 = u1
  u2 = u2
  w1 = w1
  w2 = w2
  Events = {eSystem, eCreated, eRefused}
  StreamOf <- MCStreamOf
  TypeOf <- MCTypeOf
  UserOf <- MCUserOf
  Users <- MCUsers
  KnownUsers <- MCKnownUsers
  Rejected <- MCRejected
  Workers <- OneWorker
  BatchSize = 2
  MaxLen = 2
  MaxFaults = 2
CHECK_DEADLOCK FALSE
INVARIANT RowsInStreamOrder
PROPERTY EveryEntrySettles
