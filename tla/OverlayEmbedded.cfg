SPECIFICATION Spec
CONSTANTS
  Screen = "view"
  MaxOrphans = 2
INVARIANTS
  TypeOK
  TableMatchesButtons
  VisibleOverlayIsTimed
PROPERTIES
  HidingClosesMenu
  OverlayHidesItself
