----------------------------- MODULE OcppTunnel -----------------------------
(***************************************************************************)
(* OcppTunnelTransport (transports/ocpp.py) by itself, whoever uses it:    *)
(* callbacks that are installed and removed, and sends that are open for a *)
(* whole DataTransfer.  The central system that carries a DataTransfer and *)
(* reports drops of the charger's connection is external: it answers,      *)
(* refuses, loses or never ends a transfer, and reports drops whenever it  *)
(* likes.  TunnelClient puts SpinEvCharger on top.                         *)
(***************************************************************************)
EXTENDS Naturals

CONSTANTS Callbacks,    \* pairs of on_frame and on_disconnect, one per client
          Nobody,       \* no callbacks
          Sender,       \* tasks that call async_send
          MaxConnects   \* bound: how often async_connect is called

ASSUME TunnelAssumption == Nobody \notin Callbacks /\ MaxConnects \in Nat

VARIABLES
    listener,  \* _on_frame and _on_disconnect (always both): whose they are
    connects,  \* async_connects so far
    reports,   \* how often an on_disconnect was called
    pc,        \* where each send stands
    accepted,  \* the charger accepted its frame
    outcome    \* how each last send ended

sends == <<pc, accepted, outcome>>
tunnel == <<listener, connects, reports, sends>>

Outcome == {"ok", "error", "timeout", "protocol", "unsupported", "value", "cancelled"}

TunnelTypeOK ==
    /\ listener \in Callbacks \cup {Nobody}
    /\ connects \in 0..MaxConnects
    /\ reports \in Nat
    /\ pc \in [Sender -> {"idle", "transfer"}]
    /\ accepted \in [Sender -> BOOLEAN]
    /\ outcome \in [Sender -> Outcome \cup {"none"}]

TunnelInit ==
    /\ listener = Nobody /\ connects = 0 /\ reports = 0
    /\ pc = [s \in Sender |-> "idle"]
    /\ accepted = [s \in Sender |-> FALSE]
    /\ outcome = [s \in Sender |-> "none"]

-----------------------------------------------------------------------------

IsConnected == listener # Nobody

\* async_connect does not ask whether it is connected: callbacks that are
\* installed are overwritten.
Connect(c) ==
    /\ connects < MaxConnects
    /\ connects' = connects + 1
    /\ listener' = c
    /\ UNCHANGED <<reports, sends>>

Disconnect ==
    /\ listener' = Nobody
    /\ UNCHANGED <<connects, reports, sends>>

\* The callbacks are taken and cleared, then called; the variant leaves them.
CallbacksKept == listener
CallbacksCleared == Nobody

NotifyDisconnected ==
    /\ listener' = CallbacksCleared
    /\ reports' = IF IsConnected THEN reports + 1 ELSE reports
    /\ UNCHANGED <<connects, sends>>

Return(s, o) ==
    /\ pc' = [pc EXCEPT ![s] = "idle"]
    /\ outcome' = [outcome EXCEPT ![s] = o]
    /\ UNCHANGED <<listener, connects, reports, accepted>>

\* Not connected, not a register frame, or a streamed read: refused unsent.
SendRefused(s, o) ==
    /\ pc[s] = "idle"
    /\ o \in IF IsConnected THEN {"value", "unsupported"} ELSE {"error"}
    /\ Return(s, o)

SendBegins(s) ==
    /\ pc[s] = "idle" /\ IsConnected
    /\ pc' = [pc EXCEPT ![s] = "transfer"]
    /\ accepted' = [accepted EXCEPT ![s] = FALSE]
    /\ UNCHANGED <<listener, connects, reports, outcome>>

\* The charger has the frame and acts on it; its answer is on the way.
Accepts(s) ==
    /\ pc[s] = "transfer" /\ ~accepted[s]
    /\ accepted' = [accepted EXCEPT ![s] = TRUE]
    /\ UNCHANGED <<listener, connects, reports, pc, outcome>>

\* data_transfer raises, the frame accepted or not.
TransferFails(s) ==
    /\ pc[s] = "transfer"
    /\ \E o \in {"timeout", "error"} : Return(s, o)

\* The task is cancelled in it: CancelledError passes every except clause.
SendCancelled(s) ==
    /\ pc[s] = "transfer"
    /\ Return(s, "cancelled")

\* What a refusal is reported as; the variant hands the charger's word on.
RefusalRaw == "rejected"
Refusal == "protocol"

\* The answer: a status other than Accepted, or data that is no text, no hex
\* or no register frame.
AnswerRefused(s) ==
    /\ pc[s] = "transfer"
    /\ Return(s, Refusal)

\* A charger answers Accepted to a frame it has accepted; here without data.
AnswerEmpty(s) ==
    /\ pc[s] = "transfer" /\ accepted[s]
    /\ Return(s, "ok")

\* A register frame: it goes to the on_frame that is installed by now, if any,
\* before async_send returns.
AnswerHeard(s) ==
    /\ pc[s] = "transfer" /\ accepted[s]
    /\ Return(s, "ok")

TunnelNext ==
    \/ (\E c \in Callbacks : Connect(c)) \/ Disconnect \/ NotifyDisconnected
    \/ \E s \in Sender :
        \/ \E o \in Outcome : SendRefused(s, o)
        \/ SendBegins(s) \/ Accepts(s) \/ TransferFails(s) \/ SendCancelled(s)
        \/ AnswerRefused(s) \/ AnswerEmpty(s) \/ AnswerHeard(s)

TunnelSpec == TunnelInit /\ [][TunnelNext]_tunnel

-----------------------------------------------------------------------------

\* The contract of transports/base.py: a connection is reported lost once, and
\* not after a disconnect.
Contract == INSTANCE Transport WITH wanted <- listener, up <- IsConnected
KeepsContract == Contract!Spec

\* What the transport does whoever uses it: that contract, but for a second
\* async_connect, which replaces the callbacks of the first.
KeepsContractOrReplaces ==
    Contract!Init /\ [][Contract!Next \/ Contract!Replace]_(Contract!vars)
=============================================================================
