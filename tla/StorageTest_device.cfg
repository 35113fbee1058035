SPECIFICATION Spec
CONSTANTS
  Scripts <- MCOne
  Device <- MCDevice
INVARIANTS PassWroteToDevice
CHECK_DEADLOCK FALSE
