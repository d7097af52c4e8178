SPECIFICATION MCSpec
CONSTANTS
  MaxHeight = 4
  MaxUploads = 2
  Batch = 2
  CacheSection = 2
  ResultSection = 1
  AllowUnsigned = FALSE
  Asked = {3}
  MaxCrashes = 1
  MaxView = 3
  MaxListeners = 2
  MaxStops = 2
INVARIANTS
  CursorSkipsNothing UploadsAreAccounted NothingWaitsInVain
  MarkerIsUploaded WaitersAreServed
PROPERTIES
  WhatIsStoredIsUploaded GetIsAnswered
