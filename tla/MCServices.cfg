CONSTANTS
  Client = {a1}
  Conn = {c1, c2, c3}
  Secret = {"s", "l"}
  Token <- MCToken
  Preauthed <- MCPreauthed
  Request <- MCRequest
  Configs <- MCConfigs
  SecretOf <- MCSecretOf
SPECIFICATION Spec
SYMMETRY Symmetry
INVARIANTS
  NoHiddenEntry
PROPERTIES
  ImplementsRouter
