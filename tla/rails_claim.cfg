SPECIFICATION RtpSpec
CONSTANTS
  Payments = {"p1", "p2"}
  Amount <- Amounts
  Opening <- OpeningRow
  Clerks = {v1, v2}
  MaxOutages = 0
  MaxCalls = 0
  ConsentIds = {c1}
  Requests = {q1, q2}
  MaxPairs = 2
  Subs = {s1}
  Events = {e1, e2}
  MaxAttempts = 3
  Delays <- RetryDelays
  MaxCrashes = 1
  Callers = {k1, k2, k3}
  FailureThreshold = 3
  Window = 4
  Recovery = 2
  MaxRetries = 3
  AttemptTimeout = 1
  MaxFailures = 4
  EventCalls = {d1, d2, d3}
  KeyedCalls = {r1, r2, r3}
  Windows = {w1, w2}
  DisputeMoves = {"NEEDS_RESPONSE", "WARNING_CLOSED", "WON"}
  MaxEvents = 3
  MaxMishaps = 1
PROPERTIES
  RtpSettles
CHECK_DEADLOCK FALSE
