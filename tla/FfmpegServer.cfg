\* A client over UDP and one over its RTSP connection; video and audio.
CONSTANTS
  Threads = {t1, t2}
  Interleaved = {t1}
  Fds = {4, 5}
  Channels = {video, audio}
  Nobody = 0
SPECIFICATION FairSpec
INVARIANTS StreamInUse NoStaleContext EncodersFollowClients PlayingServed
 
\* The process may crash, and every thread may wait for a mutex left locked.
CHECK_DEADLOCK FALSE
