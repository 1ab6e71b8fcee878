SPECIFICATION Spec
CHECK_DEADLOCK FALSE
CONSTANTS
  Nil = Nil
  Err = Err
  WordBits = 16
  TagBits = 8
  CommandLines <- SomeCommandLines
  States <- SomeStates
  UserKeys <- SomeKeys
  UserValues <- SomeValues
  Frames <- SomeFrames
  NewerFields <- UnknownFields
ACTION_CONSTRAINT FrameLast
INVARIANTS RoundTrip SizeExact CutIsNotTaken ReadBack  ClientsComplete
