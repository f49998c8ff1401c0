SPECIFICATION Spec
CONSTANTS
  Null = Null
  RxMax = 12
  Nodes = {n1, n2}
  Headers <- AHeaders
  Statuses = {101, 301, 404}
  Payloads <- ThePayloads
  MaxHeaders = 3
INVARIANTS TypeOK StoreRight LookupRight IteratorRight RequestRight
PROPERTIES VerdictRight
