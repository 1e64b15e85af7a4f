CONSTANTS
  Topics <- MCTopics
  BootTopics <- MCBootTopics
  Descriptions <- MCDescriptions
  Sids <- MCSids
  MaxNumber = 4
SPECIFICATION Spec
INVARIANTS
  TypeOK
  ResumesWhereItStopped
PROPERTY
  StaleNoticed
