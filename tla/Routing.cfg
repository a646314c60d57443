SPECIFICATION Spec
CONSTANTS
  a1 = a1
  a2 = a2
  m1 = m1
  m2 = m2
  Accounts <- AccountList
  Token <- OwnTokens
  Strange = strange
  Requests = {r1}
  Models = {m1, m2}
  Quotas <- SomeQuotas
  Keys = {k1, k2}
  DefaultKey = k1
  MaxKeyCalls = 2
  MaxCrashes = 1
  MaxWrites = 1
  None = None
  Torn = Torn
INVARIANTS TypeOK KeysHoldUnlessTorn RefusedOnlyWhenExhausted KeyNotUsedAsToken
CHECK_DEADLOCK FALSE
