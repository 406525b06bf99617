CONSTANTS
  Client = {a1}
  Conn = {c1, c2, c3}
  Secret = {"s", "l"}
  Token <- MCToken
  Preauthed <- SubPreauthed
  Request <- SubRequest
  Configs <- SubConfigs
  SecretOf <- MCSecretOf
SPECIFICATION Spec
PROPERTIES
  SubdomainsAreServed
