\* Every worker in a scene of its own, with the fairness of its schedule.
CONSTANT Null = Null
SPECIFICATION Spec
PROPERTIES StaleClaimsReleased LapsedLosesAccess EveryDeliverySettles UnmatchedReverts
CHECK_DEADLOCK FALSE
