\* A reader with a backlog of more than a batch.
SPECIFICATION Spec
CONSTANTS
  i1 = i1
  i2 = i2
  i3 = i3
  Instances = {i1, i2}
  QUEUE = 2
  BATCH = 1
  MaxEvents = 3
  MaxFailures = 1
  MaxPrunes = 0
INVARIANTS CatchesUp
