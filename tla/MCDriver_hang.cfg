SPECIFICATION DriverSpec
CONSTANTS
  Generators = {g1, g2}
  Duration = 1
  Second = 2
  IntMax = 7
  MaxTime = 4
  MaxQueue = 2
  MayThrow = TRUE
PROPERTY Termination
CHECK_DEADLOCK FALSE
