SPECIFICATION Spec
CONSTANTS
  Workers = {w1, w2}
  Readers = {r1}
  MaxRequests = 4
INVARIANTS
  RequestsBalance
  ReportIsBracketed
