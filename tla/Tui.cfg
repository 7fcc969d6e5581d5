SPECIFICATION Spec
CONSTANTS
  Contents <- MCContents
  Wide = {d2, k2}
  Heights = {2, 3, 4}
  MaxRow = 4
  MaxScroll = 12
  None = None
  Heading = Heading
  d1 = d1
  d2 = d2
  d3 = d3
  dd1 = dd1
  k1 = k1
  k2 = k2
  r1 = r1
INVARIANTS SelectionOfTab SelectionFollowed TerminalRestored
PROPERTIES ClickSelectsShown
CHECK_DEADLOCK FALSE
