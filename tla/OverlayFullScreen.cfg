SPECIFICATION Spec
CONSTANTS
  Screen = "controller"
  MaxOrphans = 2
INVARIANT CatcherReplacesOverlay
PROPERTY OverlayHidesItself
\* a dismissed controller with no timer left is at rest
CHECK_DEADLOCK FALSE
