SPECIFICATION Spec
CONSTANTS
  Durations <- MCDurations
  Playheads <- MCPlayheads
  Nothing = Nothing
  MaxTime = 30000
INVARIANTS
  TypeOK
  OnlyEndlessItemAborts
PROPERTIES
  TwoWaysBeyondTheEnd
  ClearedOnTheWayToTheEnd
  TickShowsTheItem
  ImplementsScreens
