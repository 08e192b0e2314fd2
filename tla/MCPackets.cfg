CONSTANTS
  short = short
  long = long
  Message = {short, long}
  MsgSize <- MsgSizes
  DestSize <- DestSizes
  HeaderSize = 3
  Payload = 2
  SeqSpace = 4
  MaxSends = 2
  Repeatable <- AnyOf
  MaxRepeats = 1
  MaxStrays = 1
SPECIFICATION FairSpec
INVARIANTS TypeOK ForwardedWhole Conserved
PROPERTIES Drains ImplementsChannel
\* Once everything was sent, lost or received there is nothing left to do.
CHECK_DEADLOCK FALSE
