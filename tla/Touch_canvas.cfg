CONSTANTS
  Ids <- MCIds
  Points <- MCPoints
  NoTouch = NoTouch
  NTouch = 1
  R = 1
  DefaultW = 4
  Sizes <- MCSizes
  MaxFrames = 2
  MaxRequests = 2
  MaxConfigures = 2
SPECIFICATION FairSpec
INVARIANTS NothingForgotten NoLostFrame DrawsFree TruePicture
PROPERTIES PictureCatchesUp
CHECK_DEADLOCK FALSE
