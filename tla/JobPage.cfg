\* Three states, two connections, queues of one: a queue overflows, a connection is lost
\* and the HTTP answer is late.
SPECIFICATION FairSpec
CONSTANTS
  LastState = 3
  Streaming = 2
  QueueSize = 1
  MaxConns = 2
PROPERTIES PageShowsTheEnd
\* The page rests when the job has ended.
CHECK_DEADLOCK FALSE
