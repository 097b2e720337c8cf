SPECIFICATION AnyWidthSpec
CONSTANTS
  t1 = t1
  t2 = t2
  t3 = t3
  one = one
  two = two
  Procs = {"p1", "p2"}
  Threads = {t1, t2, t3}
  ProcOf <- MCProcOf
  Sources = {"plain", "addresses", "array"}
  Unkeyable = {"array"}
  Dynamic = {"addresses"}
  Values = {one, two}
  Widths = {16, 32}
  MaxSettings = 1
  None = None
  Torn = Torn
INVARIANTS
  HitsMatchFresh
