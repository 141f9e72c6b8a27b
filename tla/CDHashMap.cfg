\* Three keys, so that an element can leave the middle of the ring; two values,
\* so that an element is assigned at several levels.
CONSTANTS
  Key = {k1, k2, k3}
  Data = {d0, d1}
  Default = d0
  Addr = {a1, a2, a3}
  Nil = nil
  MaxLevel = 2
SPECIFICATION HashMapSpec
SYMMETRY Symmetry
INVARIANTS
  RingMatchesTable
PROPERTY
  ImplementsMap
