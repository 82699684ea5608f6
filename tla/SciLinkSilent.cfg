SPECIFICATION LinkSpec
CONSTANTS
  Streams = {1, 2, 3, 4, 5}
  Loads <- MCTwoBreaks
PROPERTY Rejoins
CHECK_DEADLOCK FALSE
