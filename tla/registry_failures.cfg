\* Every hook may raise; none registers a handler but in the rollback.
SPECIFICATION RegistrySpec
CONSTANTS
  Handlers = {h1, h2, h3}
  RegistersIn = {"rollback"}
  UnregistersIn = {"deactivate", "clear"}
  ActivateRaises = TRUE
  DeactivateRaises = TRUE
  ForgetRaises = TRUE
  MaxIds = 4
INVARIANTS RoutesFollowRegistry
CHECK_DEADLOCK FALSE
