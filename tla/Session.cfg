SPECIFICATION Spec
CONSTANTS
  f1 = f1
  f2 = f2
  u1 = u1
  u2 = u2
  Fd <- MCFd
  User <- MCUser
  MaxApp = 2
  Bounds <- MCBounds
SYMMETRY Symmetry
INVARIANTS
  ClientsCounted
  KeysAgree
  NoResidue
  AgentReleased
CHECK_DEADLOCK FALSE
