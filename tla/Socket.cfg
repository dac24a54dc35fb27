\* Two connections of two bytes each: one holds the slot while the other waits
\* or is refused, and reads are cut anywhere.  Symmetry is not used with liveness.
CONSTANTS
  Clients = {c1, c2}
  NoClient = NoClient
  Codes = {1}
  ChunkSize = 2
  Backlog = 1
  MaxSent = 2
SPECIFICATION FairSocketSpec
INVARIANTS
  SocketTypeOK
  BytesInOrder
  OneClientDescriptor
  ReadNeverBlocks
PROPERTIES
  QueueDrains
  ServedClientIsRead
