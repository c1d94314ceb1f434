SPECIFICATION AccountSpec
CONSTANTS
  Request = {r1, r2, r3, r4}
  First = First
  Cooldown = 1
  TTL = 3
  MaxActive = 2
  LastTick = 3
  MaxRestarts = 1
INVARIANTS PasswordChangeEndsSessions LinkUsedOnce LinksRationed
SYMMETRY RequestsAlike
