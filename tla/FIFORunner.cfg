SPECIFICATION FairSpec
CONSTANTS
  a = a
  b = b
  c = c
  d = d
  Null = Null
  Task = {a, b, c, d}
  Hook = {d}
  Alive = {a, b, c}
  Priority <- TwoSegments
  MaxTicks = 3
  MaxHangs = 1
INVARIANTS NextInRange NoneForgotten RunningTaskLinked IndInv
PROPERTIES OncePerPass ImplementsTaskRunner NoStarvation
