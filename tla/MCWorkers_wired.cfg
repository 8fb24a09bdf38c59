\* The sweeps of the service as Nest builds it.
CONSTANT Null = Null
SPECIFICATION WiredSpec
PROPERTY HoldsLapse
CHECK_DEADLOCK FALSE
