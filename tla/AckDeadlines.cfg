SPECIFICATION DeadlineSpec
CONSTANTS
  a1 = a1
  unset = unset
  words = words
  negative = negative
  never = never
  shortest = shortest
  longest = longest
  longer = longer
  v1 = v1
  Ack <- MCAck
  RunNode <- MCRunNode
  Timed <- MCTimed
  Value <- MCValue
  NoNode = NoNode
  AckTimeout <- MCAckTimeout
  Blank = Blank
  Text = Text
  DefaultMs = 3
  TIMEOUT_MAX = 5
  MaxWaited = 8
INVARIANTS
  NotBeforeItsTime
CHECK_DEADLOCK FALSE
