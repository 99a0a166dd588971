\* Two instances and two releases with two actions.
SPECIFICATION Spec
CONSTANTS
  i1 = i1
  i2 = i2
  e1 = e1
  e2 = e2
  Instances = {i1, i2}
  Serving = {i1}
  Rels = {1, 2}
  Filled = {1}
  Entries = {e1, e2}
  MaxActions = 2
  MaxUpsets = 1
INVARIANTS RunsOnce EndsTruthfully
PROPERTIES AnnouncedAfterwards DueAreRun
CHECK_DEADLOCK FALSE
