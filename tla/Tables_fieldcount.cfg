SPECIFICATION Spec
CONSTANTS
  k1 = k1  k2 = k2  k3 = k3
  v = v  w = w
  Keys = {k1, k2, k3}
  Values = {v, w}
  Hash <- HashExample
  Lax = {}
  NoKey = NoKey
  NoValue = NoValue
  NoIter = NoIter
  Maps = {a, b}
  GroupSize = 2
  Sparsity = 2
  Pairs <- PairsExample
  Reserves = {3}
  Objects = {a, b}
  Block = 2
  PerBucket = 1
  FirstCapacity = 1
  Fields <- PairsExample
  MaxElements = 3
  MaxTogether = 4
  MaxErased = 1
SYMMETRY Interchangeable
INVARIANT FieldCountAsDocumented
