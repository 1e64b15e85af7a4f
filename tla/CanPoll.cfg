CONSTANTS
  NumPids = 3
  Width = 2
  RingSize = 3
  MaxLine = 4
  Answers <- MCAnswers
SPECIFICATION PollSpec
INVARIANTS
  PollTypeOK
  LeftoversDropped
PROPERTY
  PollReturns
