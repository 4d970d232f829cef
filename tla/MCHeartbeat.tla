---------------------------- MODULE MCHeartbeat ----------------------------
(* A unit of time is five seconds: the default interval of 30 s is 6, the  *)
(* timeout of 35 s is 7, the slack is 1.                                   *)
EXTENDS Heartbeat

Both == {"host", "client"}
Nobody == {}
==============================================================================
