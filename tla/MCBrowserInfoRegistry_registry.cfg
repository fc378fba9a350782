SPECIFICATION Spec
CONSTANTS
  Browser = {b1, b2, b3}
  View = {v1, v2, v3}
  None = None
  MaxInfos = 2
  MaxId = 5
SYMMETRY Symmetry
CHECK_DEADLOCK FALSE
INVARIANT OneInfoPerView
INVARIANT RendererKnowsItsBrowser
INVARIANT PopupIsPrepared
INVARIANT LookupFindsTheOpener
INVARIANT ShutdownReachesEveryBrowser
