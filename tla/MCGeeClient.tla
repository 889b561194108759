---------------------------- MODULE MCGeeClient ----------------------------
(* Three callers on one client, one of them with a cancellable context.    *)
EXTENDS GeeClient

MCCalls == {"c1", "c2", "c3"}
MCCtxCalls == {"c1"}
=============================================================================
