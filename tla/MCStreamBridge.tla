---------------------------- MODULE MCStreamBridge ----------------------------
(* StreamBridge with every stream id in the same DashMap shard: the case in   *)
(* which a guard held for one stream delays the worker of another.            *)
EXTENDS StreamBridge

OneShard(s) == 0
=============================================================================
