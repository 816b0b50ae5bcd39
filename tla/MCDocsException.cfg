CONSTANTS
  f1 = f1
  f2 = f2
  f3 = f3
  Null = Null
  Frames <- ThreePlaces
  MaxYields = 5
  InMain = TRUE
SPECIFICATION Spec
PROPERTY BodyExceptionIsRethrown
