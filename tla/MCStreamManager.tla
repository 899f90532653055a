--------------------------- MODULE MCStreamManager ---------------------------
(* The module TLC checks; the Stream*.cfg files choose the limits.         *)
EXTENDS StreamManager

\* Clients that leave, or a failure of ffmpeg, but not both: an error that
\* is in the channel when its client leaves may block the monitor for good.
LeaveOrFail ==
  {{"leave"}, {"ffmpeg", "start", "race", "delete"}, {"shutdown", "late"}}
=============================================================================
