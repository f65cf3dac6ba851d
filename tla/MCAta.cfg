SPECIFICATION Spec
CONSTANTS
  Sectors = {1, 2}
  Lbas = {1, 2, 3}
  Data = {0, 1}
  ReadyPolls = 2
  DrqPolls = 2
INVARIANT TypeOK
PROPERTIES ImplementsDrive RefusesAfterError Returns
