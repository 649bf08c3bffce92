CONSTANTS
  HeaderSize = 2
  MaxPayload = 2
  BufferSize = 5
  MaxPackets = 3
  Packet <- MCPacket
SPECIFICATION Spec
INVARIANT NothingWaits
PROPERTY ImplementsStream
CHECK_DEADLOCK FALSE
