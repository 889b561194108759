---------------------------- MODULE MCGeeRegistry ----------------------------
(* Two servers on a registry with a TTL of 3 units, the default heartbeat  *)
(* period being defaultTimeout - 1 = 2 units; a server passes 0 (the        *)
(* default, as main.go does) or 1.  Seven units of time are enough for two  *)
(* expiries and for re-registration after a sweep.                          *)
EXTENDS GeeRegistry

MCServers == {"s1", "s2"}
MCDurations == {0, 1}
=============================================================================
