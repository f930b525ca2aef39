\* Two profiles that compete for one record, two workers in turn, two scopes of
\* which a record can hold one.
SPECIFICATION Spec
CONSTANTS
  p1 = p1
  p2 = p2
  g1 = g1
  g2 = g2
  s1 = s1
  s2 = s2
  Profiles = {p1, p2}
  Generations = {g1, g2}
  Scopes = {s1, s2}
  Policy = Policy
  Nobody = Nobody
  MaxRecords = 1
  MaxScopes = 1
  MaxExpiry = 2
  Decisions <- SomeDecisions
SYMMETRY Symmetry
INVARIANTS NoRestrictionForgotten PendingWhileLive
PROPERTIES RenewalRespectsRestrictions
