SPECIFICATION Spec
CONSTANTS
  Cpu = {c1, c2}
  DevNo <- Numbers
  NULL = NULL
  Program <- Programs
INVARIANTS
  WaiterServed
  OneWaiterPerOperation
PROPERTY
  DeviceWakes
CHECK_DEADLOCK FALSE
