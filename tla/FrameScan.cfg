\* Two frames, two accidents on the line.
CONSTANTS
  Marker = 9
  MaxPayload = 7
  Payloads <- MCPayloads
  Damaged = {0, 7, 8, 9}
  MaxSent = 2
  MaxHits = 2
  None = None
SPECIFICATION Spec
INVARIANTS
  NothingForged IntactFramesRead DecodersAgree
PROPERTIES
  ScanEnds
\* A scan ends.
CHECK_DEADLOCK FALSE
