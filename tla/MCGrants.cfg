SPECIFICATION Spec
CONSTANTS
  r1 = r1
  r2 = r2
  r3 = r3
  r4 = r4
  p1 = p1
  p2 = p2
  Nobody = Nobody
  Request = {r1, r2, r3, r4}
  Replica = {p1, p2}
  Home <- TwoReplicas
  GraceOn = TRUE
  MaxTokens = 3
  MaxEvents = 1
INVARIANT TypeOK
INVARIANT OneTokenPerGeneration
INVARIANT RevokedIsFinal
INVARIANT ReuseEndsGrant
INVARIANT GraceKeeps
CHECK_DEADLOCK FALSE
