CONSTANTS
  Jobs = {j}
  Publishers = {a}
  Streams = {s1, s2}
  None = None
  Buffer = 1
  Wire = 1
  MaxFetches = 1
  MaxWrites = 2
  MaxFaults = 0
SPECIFICATION Spec
PROPERTY ReconnectResynchronises
