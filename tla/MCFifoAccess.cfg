SPECIFICATION FifoSpec
CONSTANTS
  FifoSize = 6
  MaxRounds = 2
INVARIANTS
  PacketTaken
  PacketGiven
  FifoFits
CHECK_DEADLOCK FALSE
