SPECIFICATION Spec
CONSTANTS
  Procs = {p, q}
  Bytes = {1, 2}
  ABLOCKSIZE = 2
  BlockNums = 3
  FirstContents <- First
  MaxSize = 4
  MaxBytes = 3
INVARIANTS TypeOK ReadsOwnWrites EitherEndHasRoom
PROPERTIES IsAtomic
