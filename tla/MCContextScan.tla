----------------------------- MODULE MCContextScan -----------------------------
(* An instance of ContextScan for TLC: one shape of communications, since  *)
(* only the servers matter here.                                           *)
EXTENDS ContextScan

MCShapes == {[protocol |-> "tcp", port |-> 502]}
=============================================================================
