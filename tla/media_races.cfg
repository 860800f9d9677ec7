SPECIFICATION MediaSpec
CONSTANTS
  t1 = t1
  t2 = t2
  MaxKeys = 2
  MaxAlbums = 1
  Task = {t1, t2}
  Ops = {"photo", "avatar", "audio", "assign", "convert", "deletePhoto", "deleteTrack", "deleteAlbum", "deleteAccount"}
  MaxDoubts = 1
  Nil = Nil
SYMMETRY Symmetry
INVARIANTS
  OrphansOnlyFromRaces
  AvatarServed
  RowsHaveObjects
CHECK_DEADLOCK FALSE
