SPECIFICATION Spec
CONSTANTS
  NONE = NONE
  Tags = {a, b}
  Clients = {c1}
  Capacity = 1
  JevOn = FALSE
PROPERTIES
  PinNotOverwritten
