SPECIFICATION Spec
CONSTANTS
  v1 = v1
  v2 = v2
  v3 = v3
  a = a
  b = b
  c = c
  d = d
  cis = cis
  bp = bp
  extra = extra
  None = None
  Releases = {v1, v2, v3}
  Benchmarks <- MCBenchmarks
  Rules = {a, b, c, d}
  Profiles = {cis, bp, extra}
INVARIANTS
  TypeOK
  ReferencesHold
  ServesItsRelease
  ProfilesOfOneRelease
  CredentialFromSecondStart
