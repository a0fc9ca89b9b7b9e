SPECIFICATION Spec
CONSTANTS
  t1 = t1  t2 = t2
  h1 = h1  h2 = h2  h3 = h3  h4 = h4
  o1 = o1  o2 = o2
  Threads = {t1, t2}
  Handles = {h1, h2, h3, h4}
  Objects = {o1, o2}
  Null = Null
  Unborn = Unborn
  Lax = {}
SYMMETRY Interchangeable
INVARIANTS RefCountExact NoUseAfterFree NoLeak
PROPERTIES OwnershipSpec
