SPECIFICATION Spec
CONSTANTS
  d1 = d1
  s1 = s1
  s2 = s2
  NoDevice = NoDevice
  Device = {d1}
  Socket = {s1, s2}
  Loopback = {s2}
  MaxNonce = 2
  WriteOutcomes = {TRUE, FALSE}
INVARIANTS
  TypeOK
  FreshChallenge
  ChallengeUsedOnce
  ConnectedIsLive
PROPERTIES
  OnlyPairingAdds
  AuthDeadline
  GoneIsNoticed
