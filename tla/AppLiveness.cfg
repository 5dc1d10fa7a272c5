SPECIFICATION AppSpec
CONSTANTS
  Views = {v1, v2}
  FullViews = {f1}
  Players = {p1, p2}
  Layers = {l1, l2}
  Urls = {elephants, blazes}
  VideoUri = elephants
  NewVideoUri = blazes
  MaxToggles = 2
  BuiltInUrl = builtIn
  Nil = nil
  MaxPending = 1
  MaxRequests = 0
PROPERTIES
  LayerComesBack
  MountedViewIsStarted
\* with every instance used up and nothing queued the session is at rest
CHECK_DEADLOCK FALSE
