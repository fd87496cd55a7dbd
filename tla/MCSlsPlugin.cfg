CHECK_DEADLOCK FALSE
CONSTANTS
  Config <- MCConfig
SPECIFICATION Spec
INVARIANTS
  TypeOK
  InstanceReleased
  BridgeHasContext
  EndpointsAgree
