SPECIFICATION Spec
CONSTANTS
  r1 = r1
  r2 = r2
  c1 = c1
  c2 = c2
  w1 = w1
  submit1 = submit1
  claim1 = claim1
  publish1 = publish1
  submit2 = submit2
  queued = queued
  routed = routed
  claimed = claimed
  published = published
  other = other
  NoRow = NoRow
  Txs = {submit1, claim1, publish1, submit2}
  Rows = {queued, routed, claimed, published, other}
  TxOf <- MCTxOf
  Runs = {r1, r2}
  RunOf <- MCRunOf
  SubmitOf <- MCSubmitOf
  Clients = {c1, c2}
  ClientOf <- MCClientOf
  Walks = {w1}
  Limits = {1}
  MaxPage = 2
PROPERTY
  PagesComplete
CHECK_DEADLOCK FALSE
