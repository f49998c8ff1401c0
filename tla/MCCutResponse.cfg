SPECIFICATION Spec
CONSTANTS
  Null = Null
  RxMax = 12
  Nodes = {n1}
  Headers <- AHeaders
  Statuses = {101, 301, 404}
  Payloads <- ThePayloads
  MaxHeaders = 3
INVARIANTS ListedWhole
