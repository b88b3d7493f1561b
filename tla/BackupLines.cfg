CONSTANTS
  Tables = {"interface"}
  Flats = {"global"}
  Foreign = {"other"}
  Names = {"a", "b"}
  Keys = {"key"}
  Values = {0, 1}
  Good = 1
  Rules = {"mgmt", "tls"}
  SectionOf <- MCSectionOf
  KeyOf <- MCKeyOf
  MaxLines = 8
  Null = Null
SPECIFICATION Spec
INVARIANT VerdictsFollowTheBackup
CHECK_DEADLOCK FALSE
