----------------------------- MODULE Transport -----------------------------
(***************************************************************************)
(* The contract of transports/base.py as the client relies on it: whose    *)
(* callbacks are installed, when the link counts as up and when            *)
(* on_disconnect is called.  BleLink implements it, and so does the OCPP   *)
(* tunnel as SpinEvCharger uses it (TunnelClient); ChargerClient is        *)
(* written against it (Connect, Drop, Disconnect).                         *)
(***************************************************************************)
EXTENDS Naturals

CONSTANT Nobody

VARIABLES wanted,   \* whose callbacks are installed, or Nobody
          up,       \* is_connected
          reports   \* how often on_disconnect was called

vars == <<wanted, up, reports>>

Init == wanted = Nobody /\ up = FALSE /\ reports = 0

\* async_connect begins.
Ask == ~up /\ wanted' # Nobody /\ UNCHANGED <<up, reports>>

\* From then on payloads go to on_frame: the callbacks are there.
Open == ~up /\ wanted' # Nobody /\ up' = TRUE /\ UNCHANGED reports

\* The link drops on its own, or one that was being opened does.
Lose ==
    /\ wanted # Nobody
    /\ up' = FALSE
    /\ reports' = reports + 1
    /\ wanted' \in {wanted, Nobody}

\* async_disconnect: nothing is reported, and the callbacks are gone.
Close == wanted' = Nobody /\ up' = FALSE /\ UNCHANGED reports

Next == Ask \/ Open \/ Lose \/ Close

Spec == Init /\ [][Next]_vars

\* What the contract rules out by "connecting an already connected transport
\* does nothing": the callbacks of a link that is up become another's.
Replace == up /\ wanted # Nobody /\ wanted' # Nobody /\ UNCHANGED <<up, reports>>
=============================================================================
