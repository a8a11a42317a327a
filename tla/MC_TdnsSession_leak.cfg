SPECIFICATION Spec
CONSTANTS
  admin = admin
  p1 = p1
  p2 = p2
  t1 = t1
  t2 = t2
  Passwords <- AllPasswords
  Factory = admin
  Tokens <- AllTokens
  NoToken = NoToken
  MaxFaults = 0
  MaxEdits = 0
INVARIANT
  CallLogsOut
