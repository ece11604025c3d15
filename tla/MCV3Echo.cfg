SPECIFICATION EchoLiveSpec
CONSTANTS
  SimpleClients = {s1, s2}
  OtherPeers = {o1}
  Fds = {4, 5, 6}
  NOBODY = NOBODY
  Rounds = 2
  BufferSize = 3
  UINT16 = 2
  RcvBuf = 2
  SndBuf = 3
  ReplyLength = 2
  CallsMayFail = TRUE
INVARIANTS
  EchoInv
  OneWholeReply
PROPERTIES
  EveryoneServed
