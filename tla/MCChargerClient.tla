-------------------------- MODULE MCChargerClient --------------------------
(* Small values of the constants of ChargerClient for TLC. *)
EXTENDS ChargerClient, TLC

CONSTANTS c1, c2, c3, r1, r2

\* Two requests of one register that differ in their flag only, as ALARMS reads do.
K(r, f) == [reg |-> r, flag |-> f]
MCRequestKey == {K(r1, 0), K(r1, 1)}
OneRequestKey == {K(r1, 0)}

\* A string write of two chunks: the second carries a sequence number where a
\* request carries its flag.
MCSetter == {<<K(r1, 2), K(r1, 3)>>}
MCHistoryKey == {K(r2, 0)}
NoSetter == {}
NoHistory == {}

MCSymmetry == Permutations(Caller)
=============================================================================
