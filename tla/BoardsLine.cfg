\* Both boards wired: the IRQ line as a level.
CONSTANTS
  OctetMod = 8
  ProfileIdMax = 2
  U32Max = 4095
  TickMod = 4096
  MaxCount = 3
  Profiles <- DeclaredProfiles
  Latencies <- MCLatencies
  HasDelay = FALSE
  Wirings <- BothWired
  MaxServices = 3
SPECIFICATION BoardsFairSpec
PROPERTIES
  LineReleased
\* The host's run ends.
CHECK_DEADLOCK FALSE
