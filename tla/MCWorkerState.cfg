SPECIFICATION FairSpec
CONSTANTS
  Tabs = {t1, t2}
  Tables = {x}
  MaxVersion = 1
INVARIANTS ReadYourWrites
PROPERTIES RowsArrive ImplementsFeed
CHECK_DEADLOCK FALSE
