\* Two instances, a batch of one row: gaps, a full queue, failed statements and restarts in between.
SPECIFICATION Spec
CONSTANTS
  i1 = i1
  i2 = i2
  i3 = i3
  Instances = {i1, i2}
  QUEUE = 1
  BATCH = 1
  MaxEvents = 3
  MaxFailures = 2
  MaxPrunes = 1
INVARIANTS Accounted
PROPERTIES GivesUpGapsOnly ImplementsFeed EverythingIsRead
