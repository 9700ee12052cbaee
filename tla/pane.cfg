CONSTANTS
  p1 = p1
  p2 = p2
  Order <- TwoPlugins
  Clicks = {"start", "disable"}
  Outages = TRUE
  MaxVersion = 2
  MaxActions = 2
SPECIFICATION Spec
PROPERTIES
  SelectionKept
  TableForward
  TableCatchesUp
