SPECIFICATION Spec
CONSTANTS
  Cons = Cons
  Pair = Pair
  Klass = {Cons, Pair}
  InstanceSize <- MCSize
  RefOffsets <- MCOffsets
  Spill <- MCSpill
  Id = {i1, i2, i3}
  Word = {w1, w2}
  Interior = {p1}
  SemiSize = 4
  Null = Null
  Malloced = Malloced
  NoKlass = NoKlass
  Garbage = Garbage
CHECK_DEADLOCK FALSE
PROPERTIES AssignsOneField
