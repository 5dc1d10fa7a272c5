SPECIFICATION ClientSpec
CONSTANTS
  Views = {v1}
  FullViews = {f1, f2}
  Players = {p1, p2}
  Layers = {l1}
  Urls = {u1}
  BuiltInUrl = builtIn
  Nil = nil
  MaxPending = 1
  MaxRequests = 1
SYMMETRY Symmetry
INVARIANT TypeOK
PROPERTIES
  UrlGivenIsKept
  HandoffIsSilent
