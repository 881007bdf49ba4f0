\* The simulation up to the clicks named in MCClicks; the live console up to
\* the buttons in MCPresses on two batches, two tasks at a time.
SPECIFICATION Spec
CONSTANTS
  Cells = {3, 9}
  Lies <- MCLies
  Clicks <- MCClicks
  BatchIds = {b1, b2}
  FirstBatch = b1
  DefaultRows = cool
  UnsafeRows = warm
  HiddenRows = hidden
  EditedRows = edited
  Nothing = Nothing
  Slots = {1, 2}
  Presses <- MCPresses
  MaxEvents = 2
INVARIANTS
  TypeOK
  EditsBreakLaterBlocks
  ChainTellsState
  FingerprintFollowsTable
  FeedOnLedger
PROPERTIES
  CleanIsMeasured
CHECK_DEADLOCK FALSE
