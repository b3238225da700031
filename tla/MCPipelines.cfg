SPECIFICATION Spec
CONSTANTS
  a1 = a1
  a2 = a2
  a3 = a3
  x1 = x1
  r1 = r1
  r2 = r2
  Starter = Starter
  Nobody = Nobody
  Responder = {a1, a2}
  Canceller = {x1}
  Reaper = {r1, r2}
  Steps = 2
  Gather <- Second
  MaxEvents = 2
INVARIANT TypeOK
INVARIANT OneWinnerPerVersion
INVARIANT NoSilentEnd
PROPERTY CallerAnswered
PROPERTY RowEnds
CHECK_DEADLOCK FALSE
