CONSTANTS
  NoRecord = NoRecord
  Acceptor = {a1}
  Conn = {c1, c2}
  Key = {1}
  Secret = {"good", "bad"}
  Token <- MCToken
  Preauthed <- MCPreauthed
  Request <- MCRequest
  Configs <- TwoConfigs
  SecretOf <- MCSecretOf
  NodeRegister <- MCNodeRegister
  MaxRestarts = 1
SPECIFICATION Spec
CHECK_DEADLOCK FALSE
INVARIANTS
  ConfiguredDomain
