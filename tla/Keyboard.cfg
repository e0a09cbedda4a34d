CONSTANTS
  KB_IN_BYTES = 5
  KEYS <- SomeKeys
  MaxTyped = 3
SPECIFICATION FairSpec
INVARIANTS InStep ModifiersFollow
PROPERTIES RingIsQueue TypedAsMeant EveryKeyHandled
CHECK_DEADLOCK FALSE
