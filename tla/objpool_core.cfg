\* Three places for slabs of two objects; one dump of a pool.
CONSTANTS
  ObjNum = 2
  Places = {p1, p2, p3}
  MaxDumps = 1
  Null = Null
  Wild = Wild
SYMMETRY PlaceSymmetry
SPECIFICATION ObjPoolSpec
INVARIANTS ObjPoolExact
PROPERTY GrowsOnlyWhenFull
