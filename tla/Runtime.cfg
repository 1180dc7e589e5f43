SPECIFICATION Spec
CONSTANTS
  a = a
  b = b
  Services = {a, b}
  Root = {a}
  Launcher = launcher
  Mortal = {a, b}
  MaxCall <- MCMaxCall
  MaxFork <- MCMaxFork
  MaxCo = 4
INVARIANTS
  CallsTracked
  NobodyForgotten
PROPERTIES
  CallSettles
CHECK_DEADLOCK FALSE
