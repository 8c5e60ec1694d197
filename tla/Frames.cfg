\* Frames with length fields right and wrong, cut at many places, and frames made from lists,
\* names and fields that must be read back.
SPECIFICATION FairSpec
CONSTANTS
  InputFrames <- MCFrames
  MaxVisited = 12
INVARIANTS
  SlicesInFrame
  SameFlow
  RawKeyed
  RadiotapRead
  ListsRead
  NamesRead
PROPERTIES
  ReadingEnds
CHECK_DEADLOCK FALSE
