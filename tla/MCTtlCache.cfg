\* Four keys compete for three places.
CONSTANTS
  Keys = {k1, k2, k3, k4}
  Values = {v1, v2}
  MaxEntries = 3
  Ttl = 5
  Absent = Absent
SPECIFICATION Spec
INVARIANTS
  TypeOK
  SizeBounded
PROPERTY RecentSpec
SYMMETRY Names
