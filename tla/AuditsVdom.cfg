SPECIFICATION Spec
CONSTANTS
  a1 = a1
  a2 = a2
  v1 = v1
  v2 = v2
  Telnet = Telnet
  Interfaces = Interfaces
  Admins = Admins
  Requests = {a1, a2}
  Vdoms0 = {v1, v2}
  NameOf <- MCNameOf
  Root = "root"
  Rules = {Telnet, Interfaces, Admins}
  EndpointOf <- MCEndpointOf
  ScopeOf <- MCScopeOf
  Units <- MCUnits
  Outcomes <- MCOutcomes
  Profile = {Telnet, Interfaces, Admins}
  Standard = {Admins}
  Null = Null
CHECK_DEADLOCK FALSE
INVARIANT
  LiveAuditsAskTheirVdom
