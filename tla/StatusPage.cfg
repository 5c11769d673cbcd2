SPECIFICATION PageFairSpec
CONSTANTS
  Readers = {page, socket}
  Operations = {o1}
  Calls = {c1, c2}
  NoCall = NoCall
  MaxVersion = 1
  MaxGeneration = 2
  Page = page
  Socket = socket
  Click = o1
INVARIANTS
  PageInv
  FreshSnapshot
  OneCollectionPerGeneration
  RefreshedStaysFresh
PROPERTIES
  RefreshEnds
