\* Sessions, token chains, and everything that ends them.
CONSTANTS
  s1 = s1  s2 = s2  c1 = c1  c2 = c2
  p1 = p1  p2 = p2
  Nil = Nil
  Sids = {s1, s2}
  Clients = {c1, c2}
  Procs = {p1, p2}
  MaxTokens = 3
  Scenes <- AllScenes
SPECIFICATION Spec
CHECK_DEADLOCK FALSE
SYMMETRY Symmetry
INVARIANTS
  TypeOK ChainSound ReplayEndsSession
PROPERTIES
  ImplementsFamily EndedGetsNothing BarredGetsNothing
