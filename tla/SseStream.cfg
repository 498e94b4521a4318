SPECIFICATION FairSpec
CONSTANT
  Feeds <- AllFeeds
INVARIANT StreamReflectsWire
PROPERTIES ReaderEnds ImplementsContract
