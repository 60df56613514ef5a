SPECIFICATION KeysSpec
CONSTANTS
  K = K
  E1 = E1
  E2 = E2
  P = P
  Q = Q
  P1 = P1
  P2 = P2
  Kid = {K, E1, E2}
  EphemeralKid = {E1, E2}
  Pem = {P, Q, P1, P2}
  Configured <- MCConfigured
  Throwaway <- MCThrowaway
  Instance = {i1, i2}
  Thread = {w1, w2}
  None = None
INVARIANTS KeysTypeOK TokensVerify
CHECK_DEADLOCK FALSE
