CONSTANTS
  h1 = h1
  seeding = seeding
  Torrent = {h1}
  State = {seeding}
  Absent = Absent
  Interval = 1
  History = 4
  Bounds <- MCBounds
  Scale = 60
SPECIFICATION Spec
INVARIANTS
  StreamInv
  TrafficIsHonest
PROPERTIES
  SnapshotIsTrue
CHECK_DEADLOCK FALSE
