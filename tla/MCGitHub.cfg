SPECIFICATION Spec
CONSTANTS
  Deliveries = {d1, d2}
  Attempts = {t1, t2}
  Calls = {c1, c2}
  People = {p1, p2}
  Nobody = nobody
  Merges = {sha}
SYMMETRY Interchangeable
INVARIANTS DeliveryOnce ClosedIsPaid AwardedOnce
CHECK_DEADLOCK FALSE
