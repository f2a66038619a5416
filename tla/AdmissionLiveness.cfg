\* Two requests for one seat, one token more than seats, work that may hang for ever.
CONSTANTS
  Requests = {r1, r2}
  Probes = {p1}
  Limit = 1
  Tokens = 2
SPECIFICATION FairSpec
PROPERTIES
  SeatsReturn
  HealthServed
