\* Two senders and two buffers (48 in the code), so that they run out.
SPECIFICATION FairSpec
CONSTANTS
  s1 = s1  s2 = s2
  Net = Net
  Senders <- MCSenders
  TCP_BUFFER_NUM = 2
  MaxSegments = 2
  MaxCalls = 4
INVARIANT BuffersConserved
PROPERTY SendReturns
CHECK_DEADLOCK FALSE
