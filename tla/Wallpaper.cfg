\* Two connections of one byte each, a stop and another code: refusals, stops
\* overtaken by other commands, and every failure and kill occur.
CONSTANTS
  Clients = {c1, c2}
  NoClient = NoClient
  Codes = {1, 2}
  ChunkSize = 2
  Backlog = 1
  MaxSent = 1
SPECIFICATION Spec
SYMMETRY Symmetry
INVARIANTS
  TypeOK
  SocketOutlivesThread
  PollDeathStops
  CommandsAsSent
  NoFrameAfterStop
  NothingLeftToRelease
PROPERTIES
  UsesSocket
  ImplementsService
  ImplementsLife
  ImplementsResources
