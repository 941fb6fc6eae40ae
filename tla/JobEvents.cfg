CONSTANTS
  Jobs = {j}
  Publishers = {a}
  Streams = {s1, s2}
  None = None
  Buffer = 1
  Wire = 1
  MaxFetches = 1
  MaxWrites = 2
  MaxFaults = 1
SPECIFICATION FairSpec
INVARIANTS
  TypeOK
  ChannelsAreSound
  StalePagesAreWarned
PROPERTIES
  PagesConverge
  PublishersReturn
  LostStreamsEnd
CHECK_DEADLOCK FALSE
