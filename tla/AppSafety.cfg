SPECIFICATION AppSafetySpec
CONSTANTS
  Views = {v1, v2}
  FullViews = {f1, f2}
  Players = {p1, p2}
  Layers = {l1, l2}
  Urls = {elephants, blazes}
  VideoUri = elephants
  NewVideoUri = blazes
  MaxToggles = 2
  BuiltInUrl = builtIn
  Nil = nil
  MaxPending = 1
  MaxRequests = 1
SYMMETRY Symmetry
INVARIANTS
  ObserverRemovable
  OneObserver
  PictureOnStage
  OnlyFullScreenActionAborts
  OneSharedPlayer
  SessionInv
PROPERTIES
  HandoffKeepsPlayback
  ButtonStaysTrue
  PlaybackStaysObserved
  ReplacedPlayerNeverStarts
  ImplementsScreens
