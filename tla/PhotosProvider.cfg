CONSTANTS
  AlbumSeq <- MCAlbumSeq
  Share <- MCShare
  AlbumPhotos <- MCAlbumPhotos
  Pushable <- MCPushable
  Day <- MCDay
  Initially <- MCInitially
  Limit = 2
  PageSize = 1
  MaxPages = 1
  BatchSize = 1
  MaxChanges = 1
  MaxFaults = 1
  MaxRestarts = 1
  MaxPushes = 1
SPECIFICATION FairSpec
INVARIANTS
  OnePhotoPerSlot
  DiskFollows
PROPERTIES
  CatchesUp
  EverySlotShown
