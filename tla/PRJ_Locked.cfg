SPECIFICATION Spec
CONSTANTS
  a1 = a1
  a2 = a2
  m1 = m1
  Applications <- OneApplication
  Movers <- NoMover
  MayCrash = TRUE
PROPERTIES
  RefinesLifecycle
