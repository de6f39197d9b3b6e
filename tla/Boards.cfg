\* Each declared profile and one with declared timeouts, with skeleton or wired HALs.
CONSTANTS
  OctetMod = 8
  ProfileIdMax = 2
  U32Max = 4095
  TickMod = 4096
  MaxCount = 3
  Profiles <- MCProfiles
  Latencies <- MCLatencies
  HasDelay = FALSE
  Wirings <- AllWirings
  MaxServices = 3
SPECIFICATION BoardsSpec
INVARIANTS
  VerdictsAreLate
  BoardsAgree
  CountersReadBack
\* The host's run ends; so does the slave's, by its bound.
CHECK_DEADLOCK FALSE
