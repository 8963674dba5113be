SPECIFICATION Spec
CONSTANTS
  EventIds = {e1, e2, e3}
  EventTypes = {t0, t1}
  Outcomes = {ok, no}
  NoOutcome = none
  NoType = t0
  MaxEntries = 2
  SeqMax = 4
  ClientIds = {c1, c2, c3}
  MaxWindows = 1
SYMMETRY PeerSymmetry
INVARIANTS FrontierExact NoSettledReopened CachedOutcomeFaithful NeverWedged
