--------------------------- MODULE MCTunnelClient ---------------------------
(* Small values of the constants of TunnelClient for TLC. *)
EXTENDS TunnelClient, TLC

CONSTANTS t1, t2, read, first, second

MCSetter == {<<first, second>>}
MCSymmetry == Permutations(Sender)
=============================================================================
