\* Two senders; packets of up to two bytes, so that writes can be partial and
\* Send may offer an empty packet.
CONSTANTS
  s1 = s1  s2 = s2
  Senders = {s1, s2}
  QueueSize = 1
  MaxRetries = 1
  MaxSize = 2
  MaxPackets = 3
  NoPacket = NoPacket
SPECIFICATION FairSpec
INVARIANTS Accounting StreamIntact InOrder
PROPERTIES DropOldest BeanEnds SendReturns
CHECK_DEADLOCK FALSE
