\* Up to three workflows that meet in an order or in a lot, while others
\* change the records once.
SPECIFICATION FairSpec
CONSTANTS
  w1 = w1
  w2 = w2
  w3 = w3
  l1 = l1
  p1 = p1
  p2 = p2
  o1 = o1
  None = None
  Lots = {l1}
  Productions = {p1, p2}
  Originals = {o1}
  Workflows = {w1, w2, w3}
  Situations <- MCSituations
  MaxDisturbances = 1
INVARIANTS
  TypeOK
  LotsCovered
  SupplyKept
  NoticesTrue
PROPERTIES
  BooksBalance
  Settles
CHECK_DEADLOCK FALSE
