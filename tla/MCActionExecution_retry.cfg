SPECIFICATION Spec
CONSTANTS
  Decisions = {d1}
  Keys = {k1, k2}
  ClientIds = {x1}
  Derived = Derived
  Routes = {north, south}
  InitialRoute = InitialRoute
  Keep = Keep
  Calls = {p1, p2}
  MaxActions = 2
  MaxSignOffs = 1
SYMMETRY Symmetry
CHECK_DEADLOCK FALSE
INVARIANTS
  TypeOK
PROPERTY
  RefinesLedger
