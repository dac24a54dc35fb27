\* One connection of two bytes, a stop and another code: a stop read before,
\* after or together with another command, at every point of start and exit.
CONSTANTS
  Clients = {c1}
  NoClient = NoClient
  Codes = {1, 2}
  ChunkSize = 2
  Backlog = 0
  MaxSent = 2
SPECIFICATION FairSpec
PROPERTIES
  StopHonoured
  ShutdownCompletes
