SPECIFICATION FairSpec
CONSTANTS
  Sessions = {s1}
  TunCapacity = 1
INVARIANTS TypeOK EncryptAwake WriterAwake
PROPERTIES DatagramTried WorkersEnd
