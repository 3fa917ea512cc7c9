\* Up to three appends of two events, any of them failing, and two edits.
CONSTANTS
  Event = {plain, odd}
  Separated = {}
  MaxAppends = 3
  MaxEdits = 2
SPECIFICATION Spec
INVARIANT VerifiedIsComplete
INVARIANT HashBindsHistory
CHECK_DEADLOCK FALSE
