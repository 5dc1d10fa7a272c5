SPECIFICATION ClientSpec
CONSTANTS
  Views = {v1, v2}
  FullViews = {f1}
  Players = {p1, p2}
  Layers = {l1, l2}
  Urls = {u1}
  BuiltInUrl = builtIn
  Nil = nil
  MaxPending = 1
  MaxRequests = 0
SYMMETRY Symmetry
INVARIANTS
  ControllerLeavesCleanly
  ControllerHoldsLayer
  LayerIsHomeOrBorrowed
\* with every view unmounted and nothing queued the session is at rest
CHECK_DEADLOCK FALSE
