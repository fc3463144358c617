SPECIFICATION Spec
CONSTANTS
  s1 = s1
  s2 = s2
  Ctrl = Ctrl
  Shift = Shift
  C = C
  PrtSc = PrtSc
  Left = Left
  Play = Play
  Stop = Stop
  Socket = {s1, s2}
  Modifier = {Ctrl, Shift}
  Plain = {C}
  PcKey = {PrtSc}
  Button = {Left}
  Command = {Play}
  Request <- MCRequest
  MaxSequenceMs = 3
  MaxTextLen = 1
  MaxRequests = 2
  MaxKills = 1
INVARIANTS
  TypeOK
  NothingLatched
  ModifiersNotLost
  OkMeansInjected
  RefusedLeavesNothing
PROPERTIES
  Answered
CHECK_DEADLOCK FALSE
