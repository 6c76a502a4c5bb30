SPECIFICATION Spec
CONSTANTS
  Handlers = {h1, h2}
  Pollers = {q1, q2}
  PIDs = {p1, p2}
  Methods = {m1, m2}
  RingSize = 1
  MaxCalls = 2
SYMMETRY MonitorSymmetry
INVARIANTS
  TypeOK
  CountsAgree
  RingIsTail
  AnswerConsistent
PROPERTY PeakFallsByRace
