\* Two objects and three levels: lists with more than one node, versions that
\* skip levels, objects that join the middle of a level, and values that tell a
\* restored version from a stale one.  (Lists of any length: ContextProofs.)
CONSTANTS
  Obj = {o1, o2}
  Data = {t0, v1}
  Default = t0
  Absent = absent
  Head = head
  Nil = nil
  MaxLevel = 3
SPECIFICATION FairSpec
INVARIANTS
  TypeOK
  WellLinked
  NoDangling
PROPERTIES
  ImplementsStore
  UnwindTerminates
