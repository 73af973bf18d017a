SPECIFICATION Spec
CONSTANTS
  Byte = {0, 1}
  Zero = 0
  Junk = 2
  Size = 3
  Options = {{}, {"CONTIGUOUS"}, {"MALLOC"}, {"MALLOC", "CONTIGUOUS"}}
  MaxLen = 4
INVARIANTS ReadsOldest
CHECK_DEADLOCK FALSE
