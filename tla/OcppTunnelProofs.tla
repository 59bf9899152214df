-------------------------- MODULE OcppTunnelProofs --------------------------
(***************************************************************************)
(* Proofs about the OCPP tunnel by itself, for any number of clients,      *)
(* sends and connects: types, and how far it keeps the contract of         *)
(* transports/base.py when nobody asks is_connected before connecting.     *)
(***************************************************************************)
EXTENDS OcppTunnel, TLAPS

\* A send returns.
LEMMA ReturnTyped ==
    ASSUME TunnelTypeOK, NEW s \in Sender, NEW o \in Outcome, Return(s, o)
    PROVE  TunnelTypeOK'
  BY DEF TunnelTypeOK, Return

LEMMA SendTyped ==
    ASSUME TunnelTypeOK, NEW s \in Sender,
           \/ \E o \in Outcome : SendRefused(s, o)
           \/ TransferFails(s) \/ SendCancelled(s) \/ AnswerRefused(s)
           \/ AnswerEmpty(s) \/ AnswerHeard(s)
    PROVE  TunnelTypeOK' /\ UNCHANGED <<listener, connects, reports>>
  <1>1. \E o \in Outcome : Return(s, o)
    BY DEF SendRefused, TransferFails, SendCancelled, AnswerRefused, Refusal, AnswerEmpty,
           AnswerHeard, Outcome
  <1> QED BY <1>1, ReturnTyped DEF Return

LEMMA LinkTyped ==
    ASSUME TunnelTypeOK,
           (\E c \in Callbacks : Connect(c)) \/ Disconnect \/ NotifyDisconnected
    PROVE  TunnelTypeOK'
  <1>1. connects' \in 0..MaxConnects /\ listener' \in Callbacks \cup {Nobody}
    BY TunnelAssumption DEF TunnelTypeOK, Connect, Disconnect, NotifyDisconnected,
                            CallbacksCleared
  <1>2. reports' \in Nat /\ UNCHANGED sends
    BY DEF TunnelTypeOK, Connect, Disconnect, NotifyDisconnected
  <1> QED BY <1>1, <1>2 DEF TunnelTypeOK, sends

LEMMA BeginTyped ==
    ASSUME TunnelTypeOK, NEW s \in Sender, SendBegins(s) \/ Accepts(s)
    PROVE  TunnelTypeOK' /\ UNCHANGED <<listener, connects, reports>>
  BY DEF TunnelTypeOK, SendBegins, Accepts

\* Every field keeps its type, whatever order connects, drops and answers take.
THEOREM TunnelTypeCorrect == TunnelSpec => []TunnelTypeOK
  <1>1. TunnelInit => TunnelTypeOK
    BY TunnelAssumption DEF TunnelInit, TunnelTypeOK
  <1>2. TunnelTypeOK /\ [TunnelNext]_tunnel => TunnelTypeOK'
    <2>1. TunnelTypeOK /\ UNCHANGED tunnel => TunnelTypeOK'
      BY DEF TunnelTypeOK, tunnel, sends
    <2> QED BY <2>1, LinkTyped, SendTyped, BeginTyped DEF TunnelNext
  <1> QED BY <1>1, <1>2, PTL DEF TunnelSpec

\* Connects, disconnects and drops are what the contract says of them, but for
\* a connect while connected, which takes the callbacks over.
LEMMA LinkKeeps ==
    ASSUME (\E c \in Callbacks : Connect(c)) \/ Disconnect \/ NotifyDisconnected
    PROVE  [Contract!Next \/ Contract!Replace]_(Contract!vars)
  <1>1. CASE \E c \in Callbacks : Connect(c)
    <2>1. listener' # Nobody /\ IsConnected' = TRUE /\ reports' = reports
      BY <1>1, TunnelAssumption DEF Connect, IsConnected
    <2>2. CASE IsConnected
      <3>1. IsConnected' = IsConnected
        BY <2>1, <2>2 DEF IsConnected
      <3> QED BY <2>1, <2>2, <3>1 DEF Contract!Replace, IsConnected
    <2>3. CASE ~IsConnected
      BY <2>1, <2>3 DEF Contract!Next, Contract!Open
    <2> QED BY <2>2, <2>3
  <1>2. CASE Disconnect
    <2>1. listener' = Nobody /\ IsConnected' = FALSE /\ reports' = reports
      BY <1>2 DEF Disconnect, IsConnected
    <2> QED BY <2>1 DEF Contract!Next, Contract!Close
  <1>3. CASE NotifyDisconnected
    <2>1. listener' = Nobody /\ IsConnected' = FALSE
      BY <1>3 DEF NotifyDisconnected, CallbacksCleared, IsConnected
    <2>2. CASE IsConnected
      <3>1. reports' = reports + 1
        BY <1>3, <2>2 DEF NotifyDisconnected
      <3> QED BY <2>1, <2>2, <3>1 DEF Contract!Next, Contract!Lose, IsConnected
    <2>3. CASE ~IsConnected
      <3>1. listener' = listener /\ reports' = reports /\ IsConnected' = IsConnected
        BY <1>3, <2>1, <2>3 DEF NotifyDisconnected, IsConnected
      <3> QED BY <3>1 DEF Contract!vars
    <2> QED BY <2>2, <2>3
  <1> QED BY <1>1, <1>2, <1>3

\* The contract the tunnel keeps by itself is narrower than base.py's: a drop
\* is reported once, a disconnect is silent, but a second async_connect is not
\* without effect: the callbacks of the first are replaced, so that client is
\* told of nothing any more.
THEOREM ImplementsNarrowContract == TunnelSpec => KeepsContractOrReplaces
  <1>1. TunnelInit => Contract!Init
    <2>1. TunnelInit => IsConnected = FALSE
      BY DEF TunnelInit, IsConnected
    <2> QED BY <2>1 DEF TunnelInit, Contract!Init
  <1>2. TunnelTypeOK /\ [TunnelNext]_tunnel
          => [Contract!Next \/ Contract!Replace]_(Contract!vars)
    <2> SUFFICES ASSUME TunnelTypeOK, [TunnelNext]_tunnel
                 PROVE  [Contract!Next \/ Contract!Replace]_(Contract!vars)
      OBVIOUS
    <2>1. ASSUME UNCHANGED <<listener, connects, reports>>
          PROVE  UNCHANGED Contract!vars
      BY <2>1 DEF Contract!vars, IsConnected
    <2>2. CASE UNCHANGED tunnel
      BY <2>1, <2>2 DEF tunnel
    <2>3. ASSUME NEW s \in Sender,
                 \/ \E o \in Outcome : SendRefused(s, o)
                 \/ SendBegins(s) \/ Accepts(s) \/ TransferFails(s) \/ SendCancelled(s)
                 \/ AnswerRefused(s) \/ AnswerEmpty(s) \/ AnswerHeard(s)
          PROVE  UNCHANGED Contract!vars
      BY <2>1, <2>3, SendTyped, BeginTyped
    <2> QED BY <2>2, <2>3, LinkKeeps DEF TunnelNext
  <1> QED BY <1>1, <1>2, TunnelTypeCorrect, PTL DEF TunnelSpec, KeepsContractOrReplaces

=============================================================================
