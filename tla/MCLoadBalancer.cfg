CONSTANTS
  NoRecord = NoRecord
  Acceptor = {a1, a2, a3}
  Conn = {c1, c2}
  Key = {1}
  Secret = {"good", "bad"}
  Token <- MCToken
  Preauthed <- OneRoute
  Request <- MCRequest
  Configs <- TwoConfigs
  SecretOf <- MCSecretOf
  NodeRegister <- MCNodeRegister
  MaxRestarts = 1
SPECIFICATION FairSpec
CHECK_DEADLOCK FALSE
INVARIANTS
  TypeOK
  MutexHeld
  RegisteredOnce
  OnlyAuthorised
  NoThreadStuck
PROPERTIES
  RoutesAtomically
  PoisonStopsAll
  MutexReleased
