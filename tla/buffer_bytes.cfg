SPECIFICATION Spec
CONSTANTS
  Byte = {b0, b1}
  Headrooms <- SmallHeadrooms
  Lengths <- AllLengths
  Modulus = 7
INVARIANTS
  TypeOK
  Layout
PROPERTIES
  DequeSpec
