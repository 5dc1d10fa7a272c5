SPECIFICATION AppSafetySpec
CONSTANTS
  Views = {v1}
  FullViews = {f1, f2}
  Players = {p1}
  Layers = {l1}
  Urls = {elephants, blazes}
  VideoUri = elephants
  NewVideoUri = blazes
  MaxToggles = 1
  BuiltInUrl = builtIn
  Nil = nil
  MaxPending = 1
  MaxRequests = 1
PROPERTY RequestedUrlIsPlayed
