SPECIFICATION Spec
CONSTANTS
  s1 = s1
  Socket = {s1}
  Capacity = 2
  MaxEvents = 4
INVARIANTS
  TypeOK
  AudienceRespected
  RecentNotLost
PROPERTIES
  FeedIsOrdered
  Drains
