---------------------------- MODULE MCGeeXClient ----------------------------
(* Two servers registered under ports 1 and 2; server 2 runs the slow    *)
(* method (Foo.Sleep of main.go) in some runs and then never answers    *)
(* before the deadline.                                                  *)
EXTENDS GeeXClient

MCAddrs == {1, 2}
MCMayHang == {2}
=============================================================================
