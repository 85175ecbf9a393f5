\* Three files with two torrents, one of which is stopped and added again; two starts.
CONSTANTS
  f1 = f1
  f2 = f2
  f3 = f3
  File <- Files
  InfoHash <- HashOf
  Client = {k1, k2}
  NoFile = NoFile
  Pieces = 1
  MaxBytes = 1
  MaxLaunches = 2
SPECIFICATION Spec
CHECK_DEADLOCK FALSE
INVARIANTS
  NoTorrentTwice
  SavedListIsShown
  TorrentsAreKept
PROPERTIES
  ProgressIsKept
