SPECIFICATION Spec
CONSTANTS
  Teams = {red, blue}
  None = None
  Pages = {Page}
  Slots = {p, q}
  Texts = {Text}
  Blank = Blank
  MaxSaves = 2
  Tabs = {p, q}
  Life = 2
  Buffer = 1
  Skews = {0}
  MaxTime = 1
  MaxUses = 4
  Services = {p, q}
  Limit = 3
  MaxLag = 1
  MaxClock = 1
  MaxResults = 4
  MaxSteps = 4
SYMMETRY Symmetry
INVARIANTS
  SaveKeepsUnedited
  SavesInOrder
  ShownFits
  AlertsFit
CHECK_DEADLOCK FALSE
