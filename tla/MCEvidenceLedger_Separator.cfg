\* One of the two events has a line separator in its text.
CONSTANTS
  Event = {plain, odd}
  Separated = {odd}
  MaxAppends = 3
  MaxEdits = 0
SPECIFICATION Spec
INVARIANT UntouchedVerifies
CHECK_DEADLOCK FALSE
