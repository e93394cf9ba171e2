CONSTANTS
  NumFixes = 6
SPECIFICATION Spec
CHECK_DEADLOCK FALSE
INVARIANTS PassesChronological JitterIsOnePass NothingInvented PassesEndWhereParted
