---------------------------- MODULE MCPcapClient ----------------------------
(* Two captures, two jobs of the server and two flows at a time. *)
EXTENDS PcapClient

FileSymmetry == Permutations(Files)
=============================================================================
