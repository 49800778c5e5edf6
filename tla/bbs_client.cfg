\* Four BBSs, cut into chunks in every way, with a user who types and quits.
CONSTANTS
  Scripts <- SmallScripts
  MaxKeys = 2
  MaxResizes = 1
SPECIFICATION FairSpec
INVARIANTS
  TypeOK
  TextInOrder
  OfferTaken
  TerminalRestored
PROPERTIES
  SessionOwnsLine
  HangupEnds
  QuitEnds
CHECK_DEADLOCK FALSE
