\* One buffer: a sender runs out of it while the net thread is about to send.
SPECIFICATION FairSpec
CONSTANTS
  s1 = s1  s2 = s2
  Net = Net
  Senders <- MCOneSender
  TCP_BUFFER_NUM = 1
  MaxSegments = 2
  MaxCalls = 3
PROPERTY ConnectionReset
CHECK_DEADLOCK FALSE
