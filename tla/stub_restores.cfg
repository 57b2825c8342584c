SPECIFICATION Spec
CONSTANTS
  Vectors <- AllVectors
INVARIANT ReturnRestores
