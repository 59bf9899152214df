------------------------- MODULE TunnelClientProofs -------------------------
(***************************************************************************)
(* Proofs about TunnelClient: what SpinEvCharger may rely on over the OCPP *)
(* tunnel, for any number of tasks, calls, keys and connects.              *)
(***************************************************************************)
EXTENDS TunnelClient, OcppTunnelProofs, TLAPS

\* The invariant of one task's call; the numbers of calls are for all of them.
TaskInv(t) ==
    /\ Inside(t) <=> holder = t
    /\ pc[t] = "transfer" => at[t] = "sending" /\ call[t].begun
    /\ call[t].serial <= calls
    /\ at[t] # "idle" => /\ call[t].serial # 0
                         /\ [kind |-> call[t].kind, frames |-> call[t].frames] \in Job
    /\ pc[t] = "transfer" => carries[t] = [of |-> call[t].serial, key |-> Frame(t)]
    /\ at[t] = "queued" => call[t].hand = 0 /\ call[t].taken = 0
    /\ at[t] = "awaiting" => call[t].begun /\ outcome[t] = "ok" /\ call[t].kind = "request"
    /\ Inside(t) =>
         /\ call[t].hand \in 1..Len(call[t].frames)
         /\ call[t].fut # "none"
         /\ ~call[t].begun => call[t].taken = call[t].hand - 1
         /\ call[t].begun /\ pc[t] = "transfer" /\ ~accepted[t]
              => call[t].taken = call[t].hand - 1
         /\ call[t].begun /\ Taken(t) => call[t].taken = call[t].hand
         /\ call[t].fut = "result" => /\ call[t].kind = "request" /\ SendDone(t)
                                      /\ outcome[t] = "ok" /\ call[t].answer = call[t].serial
         /\ call[t].cut => call[t].fut # "pending"
    /\ at[t] = "idle" /\ ended[t] = "ok" =>
         /\ call[t].taken = Len(call[t].frames)
         /\ call[t].kind = "request" => call[t].answer = call[t].serial

Numbered == \A t \in Sender : \A u \in Sender \ {t} :
                call[t].serial = call[u].serial => call[t].serial = 0

LEMMA Split == IInv <=> TypeOK /\ (\A t \in Sender : TaskInv(t)) /\ Numbered
  <1>1. ASSUME IInv PROVE \A t \in Sender : TaskInv(t)
    <2> SUFFICES ASSUME NEW t \in Sender PROVE TaskInv(t)
      OBVIOUS
    <2>1. HolderInv /\ CallInv /\ FrameInv /\ FutureInv /\ OkMeansHandled
      BY <1>1 DEF IInv
    <2> QED BY ONLY <2>1, t \in Sender
            DEF TaskInv, HolderInv, CallInv, FrameInv, FutureInv, OkMeansHandled
  <1>2. IInv => TypeOK /\ Numbered
    BY DEF IInv, CallInv, Numbered
  <1>3. ASSUME TypeOK, \A t \in Sender : TaskInv(t), Numbered PROVE IInv
    <2>1. HolderInv
      BY <1>3 DEF TaskInv, HolderInv
    <2>2. CallInv
      BY <1>3 DEF TaskInv, Numbered, CallInv
    <2>3. FrameInv
      BY <1>3 DEF TaskInv, FrameInv
    <2>4. FutureInv
      BY <1>3 DEF TaskInv, FutureInv
    <2>5. OkMeansHandled
      BY <1>3 DEF TaskInv, OkMeansHandled
    <2> QED BY <1>3, <2>1, <2>2, <2>3, <2>4, <2>5 DEF IInv
  <1> QED BY <1>1, <1>2, <1>3

\* The same of a next state.
LEMMA JoinedNext ==
    ASSUME TypeOK', \A t \in Sender : TaskInv(t)', Numbered'
    PROVE  IInv'
  <1>1. HolderInv'
    BY DEF TaskInv, HolderInv
  <1>2. CallInv'
    BY DEF TaskInv, Numbered, CallInv
  <1>3. FrameInv'
    BY DEF TaskInv, FrameInv
  <1>4. FutureInv'
    BY DEF TaskInv, FutureInv
  <1>5. OkMeansHandled'
    BY DEF TaskInv, OkMeansHandled
  <1> QED BY <1>1, <1>2, <1>3, <1>4, <1>5 DEF IInv

\* A step that leaves task u and its send alone.
Kept(u) == /\ at'[u] = at[u] /\ call'[u] = call[u] /\ ended'[u] = ended[u]
           /\ pc'[u] = pc[u] /\ accepted'[u] = accepted[u] /\ outcome'[u] = outcome[u]
           /\ carries'[u] = carries[u]

LEMMA KeptInv ==
    ASSUME TypeOK, TypeOK', NEW u \in Sender, TaskInv(u), Kept(u), calls <= calls',
           holder' = u <=> holder = u
    PROVE  TaskInv(u)'
  <1>1. call[u].serial \in Nat /\ calls \in Nat /\ calls' \in Nat
    BY ClientAssumption DEF TypeOK, CallState
  <1>2. call'[u].serial <= calls'
    BY <1>1 DEF TaskInv, Kept
  <1> QED BY <1>2 DEF TaskInv, Kept, Inside, Frame, Taken, SendDone

\* A step of one task.
LEMMA StepKeeps ==
    ASSUME IInv, TypeOK', NEW t \in Sender, TaskInv(t)', calls <= calls',
           \A u \in Sender \ {t} : Kept(u) /\ (holder' = u <=> holder = u),
           call'[t].serial = call[t].serial \/ call'[t].serial > calls
    PROVE  IInv'
  <1>1. TypeOK /\ (\A u \in Sender : TaskInv(u)) /\ Numbered
    BY Split
  <1>2. ASSUME NEW u \in Sender PROVE TaskInv(u)'
    BY <1>1, KeptInv
  <1>3. \A u \in Sender : call[u].serial \in Nat /\ call[u].serial <= calls /\ calls \in Nat
    <2>1. calls \in Nat /\ \A u \in Sender : call[u].serial \in Nat
      BY <1>1, ClientAssumption DEF TypeOK, CallState
    <2>2. \A u \in Sender : call[u].serial <= calls
      BY <1>1 DEF TaskInv
    <2> QED BY <2>1, <2>2
  <1>4. \A u \in Sender : call'[u].serial \in Nat
    BY ClientAssumption DEF TypeOK, CallState
  <1>5. Numbered'
    <2> SUFFICES ASSUME NEW u \in Sender, NEW v \in Sender \ {u},
                        call'[u].serial = call'[v].serial
                 PROVE  call'[u].serial = 0
      BY DEF Numbered
    <2>1. CASE u # t /\ v # t
      BY <1>1, <2>1 DEF Numbered, Kept
    <2>2. CASE call'[t].serial = call[t].serial
      BY <1>1, <2>2 DEF Numbered, Kept
    <2>3. CASE call'[t].serial > calls /\ (u = t \/ v = t)
      BY <1>3, <1>4, <2>3 DEF Kept
    <2> QED BY <2>1, <2>2, <2>3
  <1> QED BY <1>2, <1>5, JoinedNext

\* What a call has to send.
LEMMA JobIs ==
    ASSUME NEW j \in Job
    PROVE  /\ j.kind \in {"request", "write"} /\ j.frames \in Seq(Key)
           /\ Len(j.frames) \in Nat \ {0}
           /\ j.kind = "request" => Len(j.frames) = 1
  <1>1. ASSUME NEW k \in RequestKey \cup HistoryKey, j.frames = <<k>>
        PROVE  j.frames \in Seq(Key) /\ Len(j.frames) = 1 /\ Len(j.frames) \in Nat \ {0}
    BY <1>1, ClientAssumption
  <1>2. ASSUME j.frames \in Setter
        PROVE  j.frames \in Seq(Key) /\ Len(j.frames) \in Nat \ {0}
    BY <1>2, ClientAssumption
  <1>3. \/ j.kind = "request" /\ \E k \in RequestKey : j.frames = <<k>>
        \/ j.kind = "write" /\ (j.frames \in Setter \/ \E k \in HistoryKey : j.frames = <<k>>)
    BY DEF Job
  <1>4. CASE j.kind = "request"
    BY <1>1, <1>3, <1>4, Zenon
  <1>5. CASE j.kind = "write"
    <2>1. j.frames \in Seq(Key) /\ Len(j.frames) \in Nat \ {0}
      BY <1>1, <1>2, <1>3, <1>5, Zenon
    <2> QED BY <1>5, <2>1
  <1> QED BY <1>3, <1>4, <1>5

LEMMA InitInv == Init => IInv
  <1> SUFFICES ASSUME Init PROVE IInv
    OBVIOUS
  <1>1. TunnelTypeOK
    BY TunnelAssumption DEF Init, TunnelInit, TunnelTypeOK
  <1>2. TypeOK
    BY <1>1, ClientAssumption DEF Init, TypeOK, NoCall, CallState
  <1>3. \A t \in Sender : TaskInv(t)
    BY ClientAssumption DEF Init, TunnelInit, TaskInv, NoCall, Inside
  <1>4. Numbered
    BY DEF Init, Numbered, NoCall
  <1> QED BY <1>2, <1>3, <1>4, Split

-----------------------------------------------------------------------------
(* Steps of a call *)

\* What all steps of one task have in common: the others keep what they have.
LEMMA Apart ==
    ASSUME TypeOK, NEW t \in Sender,
           UNCHANGED tunnel \/ SendCancelled(t)
    PROVE  /\ TunnelTypeOK' /\ accepted' = accepted
           /\ \A u \in Sender \ {t} : pc'[u] = pc[u] /\ outcome'[u] = outcome[u]
  <1>1. CASE UNCHANGED tunnel
    BY <1>1 DEF TypeOK, TunnelTypeOK, tunnel, sends
  <1>2. CASE SendCancelled(t)
    <2>1. TunnelTypeOK'
      BY <1>2, SendTyped DEF TypeOK
    <2> QED BY <1>2, <2>1 DEF SendCancelled, Return, TypeOK, TunnelTypeOK
  <1> QED BY <1>1, <1>2

\* A call that ends: well only if it was handled, and with its send closed.
LEMMA LeaveKeeps ==
    ASSUME IInv, NEW t \in Sender, NEW o \in Outcome \cup {"none"}, Leave(t, o), Inside(t),
           UNCHANGED tunnel \/ SendCancelled(t), pc'[t] = "idle",
           o = "ok" => /\ call[t].taken = Len(call[t].frames)
                       /\ call[t].kind = "request" => call[t].answer = call[t].serial
    PROVE  IInv'
  <1>1. TypeOK /\ TaskInv(t)
    BY Split
  <1>2. /\ TunnelTypeOK' /\ accepted' = accepted
        /\ \A u \in Sender \ {t} : pc'[u] = pc[u] /\ outcome'[u] = outcome[u]
    BY <1>1, Apart
  <1>3. call'[t] = [call[t] EXCEPT !.fut = "none"] /\ call[t] \in CallState
    BY <1>1 DEF Leave, TypeOK
  <1>4. TypeOK'
    <2>1. call'[t] \in CallState
      BY <1>3 DEF CallState
    <2>2. call' \in [Sender -> CallState]
      BY <1>1, <2>1 DEF Leave, TypeOK
    <2> QED BY <1>1, <1>2, <2>2 DEF Leave, TypeOK
  <1>5. TaskInv(t)'
    <2>1. /\ call'[t].serial = call[t].serial /\ call'[t].kind = call[t].kind
          /\ call'[t].frames = call[t].frames /\ call'[t].taken = call[t].taken
          /\ call'[t].answer = call[t].answer
      BY <1>3 DEF CallState
    <2>2. at'[t] = "idle" /\ ended'[t] = o /\ holder' = None /\ calls' = calls
      BY <1>1 DEF Leave, TypeOK
    <2> QED BY <1>1, <2>1, <2>2, ClientAssumption DEF TaskInv, Inside
  <1>6. \A u \in Sender \ {t} : Kept(u) /\ (holder' = u <=> holder = u)
    <2>1. holder = t /\ holder' = None
      BY <1>1 DEF TaskInv, Leave
    <2> QED BY <1>1, <1>2, <2>1, ClientAssumption DEF Leave, Kept, TypeOK
  <1>7. call'[t].serial = call[t].serial /\ calls' = calls
    BY <1>3 DEF Leave, CallState
  <1> QED BY <1>1, <1>4, <1>5, <1>6, <1>7, StepKeeps, ClientAssumption DEF TypeOK

\* A frame is taken in hand.
LEMMA SendsKeeps ==
    ASSUME IInv, NEW t \in Sender, NEW c \in CallState, Sends(t, c),
           UNCHANGED <<tunnel, ended, carries>>, holder' = t, holder \in {None, t},
           pc[t] = "idle", [kind |-> c.kind, frames |-> c.frames] \in Job,
           c.taken = c.hand, c.hand + 1 \in 1..Len(c.frames), c.serial # 0,
           c.serial <= calls', calls <= calls', calls' \in 0..MaxCalls,
           c.serial = call[t].serial \/ c.serial > calls
    PROVE  IInv'
  <1>1. TypeOK /\ TaskInv(t)
    BY Split
  <1>2. TunnelTypeOK' /\ pc' = pc /\ accepted' = accepted /\ outcome' = outcome
    BY <1>1, Apart DEF tunnel, sends
  <1>3. call'[t] = [c EXCEPT !.hand = @ + 1, !.begun = FALSE, !.fut = "pending", !.cut = FALSE]
        /\ at'[t] = "sending"
    BY <1>1 DEF Sends, TypeOK
  <1>4. /\ call'[t] \in CallState /\ call'[t].serial = c.serial /\ call'[t].kind = c.kind
        /\ call'[t].frames = c.frames /\ call'[t].taken = c.taken /\ call'[t].hand = c.hand + 1
        /\ ~call'[t].begun /\ call'[t].fut = "pending" /\ ~call'[t].cut
    <2>0. c.hand + 1 \in Nat
      BY DEF CallState
    <2>1. call'[t] \in CallState
      BY ONLY <1>3, <2>0, c \in CallState DEF CallState
    <2>2. /\ call'[t].serial = c.serial /\ call'[t].kind = c.kind
          /\ call'[t].frames = c.frames /\ call'[t].taken = c.taken
          /\ call'[t].hand = c.hand + 1 /\ call'[t].fut = "pending"
      BY <1>3 DEF CallState
    <2>3. call'[t].begun = FALSE /\ call'[t].cut = FALSE
      BY <1>3 DEF CallState
    <2> QED BY <2>1, <2>2, <2>3
  <1>5. TypeOK'
    <2>1. call' \in [Sender -> CallState]
      BY <1>1, <1>3, <1>4 DEF Sends, TypeOK
    <2> QED BY <1>1, <1>2, <2>1 DEF Sends, TypeOK
  <1>6. TaskInv(t)'
    <2>1. call'[t].taken = call'[t].hand - 1
      BY <1>4 DEF CallState
    <2> QED BY <1>2, <1>3, <1>4, <2>1 DEF TaskInv, Inside
  <1>7. \A u \in Sender \ {t} : Kept(u) /\ (holder' = u <=> holder = u)
    BY <1>1, <1>2, ClientAssumption DEF Sends, Kept, TypeOK
  <1> QED BY <1>4, <1>5, <1>6, <1>7, StepKeeps

LEMMA CallEntersKeeps ==
    ASSUME IInv, NEW t \in Sender, NEW j \in Job, CallEnters(t, j)
    PROVE  IInv'
  <1> DEFINE c == NewCall(j)
  <1>1. TypeOK /\ TaskInv(t)
    BY Split
  <1>2. /\ calls' = calls + 1 /\ calls \in Nat /\ calls' \in 0..MaxCalls
    BY <1>1, ClientAssumption DEF CallEnters, Asks, TypeOK
  <1>3. /\ c.kind = j.kind /\ c.frames = j.frames /\ c.serial = calls + 1
        /\ c.taken = 0 /\ c.hand = 0
    BY DEF NewCall, NoCall
  <1>4. c \in CallState
    <2>1. NoCall \in CallState
      BY ClientAssumption DEF NoCall, CallState
    <2>2. j.kind \in {"none", "request", "write"} /\ j.frames \in Seq(Key)
          /\ calls + 1 \in 0..MaxCalls
      BY <1>2, JobIs
    <2> QED BY <2>1, <2>2 DEF NewCall, CallState
  <1>5. [kind |-> c.kind, frames |-> c.frames] = j
    BY <1>3 DEF Job
  <1>6. pc[t] = "idle" /\ holder = None /\ holder' = t
    BY <1>1 DEF CallEnters, Asks, Uncontended, TaskInv, TypeOK, TunnelTypeOK
  <1>7. c.hand + 1 \in 1..Len(c.frames)
    BY <1>3, JobIs
  <1>8. Sends(t, c) /\ UNCHANGED <<tunnel, ended, carries>>
    BY DEF CallEnters, Asks
  <1> HIDE DEF c
  <1> QED BY <1>2, <1>3, <1>4, <1>5, <1>6, <1>7, <1>8, SendsKeeps

LEMMA LockGrantedKeeps ==
    ASSUME IInv, NEW t \in Sender, LockGranted(t)
    PROVE  IInv'
  <1>1. TypeOK /\ TaskInv(t)
    BY Split
  <1>2. pc[t] = "idle" /\ holder = None /\ holder' = t /\ call[t] \in CallState
    BY <1>1 DEF LockGranted, TaskInv, TypeOK, TunnelTypeOK
  <1>3. /\ [kind |-> call[t].kind, frames |-> call[t].frames] \in Job
        /\ call[t].hand = 0 /\ call[t].taken = 0 /\ call[t].serial # 0
        /\ call[t].serial <= calls
    BY <1>1 DEF LockGranted, TaskInv
  <1>4. call[t].hand + 1 \in 1..Len(call[t].frames)
    BY <1>3, JobIs
  <1>5. calls' = calls /\ calls \in 0..MaxCalls
    BY <1>1 DEF LockGranted, TypeOK
  <1> QED BY <1>2, <1>3, <1>4, <1>5, SendsKeeps, ClientAssumption DEF LockGranted

LEMMA NextFrameKeeps ==
    ASSUME IInv, NEW t \in Sender, NextFrame(t)
    PROVE  IInv'
  <1>1. TypeOK /\ TaskInv(t)
    BY Split
  <1>2. /\ at[t] = "sending" /\ call[t].begun /\ pc[t] = "idle" /\ outcome[t] = "ok"
        /\ call[t] \in CallState /\ call[t].hand < Len(call[t].frames)
    BY <1>1 DEF NextFrame, Delivered, Woken, SendDone, TypeOK
  <1>3. /\ [kind |-> call[t].kind, frames |-> call[t].frames] \in Job
        /\ call[t].taken = call[t].hand /\ call[t].serial # 0 /\ holder = t
        /\ call[t].serial <= calls
    BY <1>1, <1>2 DEF TaskInv, Inside, Taken
  <1>4. call[t].hand + 1 \in 1..Len(call[t].frames)
    BY <1>2, <1>3, JobIs DEF CallState
  <1>5. calls' = calls /\ calls \in 0..MaxCalls
    BY <1>1 DEF NextFrame, TypeOK
  <1> QED BY <1>2, <1>3, <1>4, <1>5, SendsKeeps, ClientAssumption DEF NextFrame

LEMMA CallQueuesKeeps ==
    ASSUME IInv, NEW t \in Sender, NEW j \in Job, CallQueues(t, j)
    PROVE  IInv'
  <1> DEFINE c == NewCall(j)
  <1>1. TypeOK /\ TaskInv(t)
    BY Split
  <1>2. calls' = calls + 1 /\ calls \in Nat /\ calls' \in 0..MaxCalls
    BY <1>1, ClientAssumption DEF CallQueues, Asks, TypeOK
  <1>3. /\ c.kind = j.kind /\ c.frames = j.frames /\ c.serial = calls + 1
        /\ c.taken = 0 /\ c.hand = 0 /\ c \in CallState
    <2>1. NoCall \in CallState
      BY ClientAssumption DEF NoCall, CallState
    <2>2. j.kind \in {"none", "request", "write"} /\ j.frames \in Seq(Key)
          /\ calls + 1 \in 0..MaxCalls
      BY <1>2, JobIs
    <2>3. c \in CallState
      BY <2>1, <2>2 DEF NewCall, CallState
    <2> QED BY <2>3 DEF NewCall, NoCall
  <1>4. [kind |-> c.kind, frames |-> c.frames] = j
    BY <1>3 DEF Job
  <1>5. /\ pc[t] = "idle" /\ holder # t /\ holder' = holder
        /\ at' = [at EXCEPT ![t] = "queued"] /\ call' = [call EXCEPT ![t] = c]
        /\ UNCHANGED <<tunnel, ended, carries>>
    BY <1>1 DEF CallQueues, Asks, TaskInv, Inside, TypeOK, TunnelTypeOK
  <1> HIDE DEF c
  <1>6. TunnelTypeOK' /\ pc' = pc /\ accepted' = accepted /\ outcome' = outcome
    BY <1>1, <1>5, Apart DEF tunnel, sends
  <1>7. at'[t] = "queued" /\ call'[t] = c
    BY <1>1, <1>5 DEF TypeOK
  <1>8. TypeOK'
    BY <1>1, <1>2, <1>3, <1>5, <1>6 DEF TypeOK
  <1>9. TaskInv(t)'
    BY <1>2, <1>3, <1>4, <1>5, <1>6, <1>7 DEF TaskInv, Inside
  <1>10. \A u \in Sender \ {t} : Kept(u) /\ (holder' = u <=> holder = u)
    BY <1>1, <1>5, <1>6 DEF Kept, TypeOK
  <1>11. call'[t].serial > calls /\ calls <= calls'
    BY <1>2, <1>3, <1>7
  <1> QED BY <1>8, <1>9, <1>10, <1>11, StepKeeps

\* A call that ends where it holds nothing.
LEMMA OutsideKeeps ==
    ASSUME IInv, NEW t \in Sender, CallRefused(t) \/ QueuedCancelled(t)
    PROVE  IInv'
  <1>1. TypeOK /\ TaskInv(t)
    BY Split
  <1>2. /\ at[t] \in {"idle", "queued"} /\ at' = [at EXCEPT ![t] = "idle"]
        /\ \E o \in {"error", "cancelled"} : ended' = [ended EXCEPT ![t] = o]
        /\ UNCHANGED <<tunnel, call, holder, carries, calls>>
    BY <1>1 DEF CallRefused, QueuedCancelled, TypeOK
  <1>3. TunnelTypeOK' /\ pc' = pc /\ accepted' = accepted /\ outcome' = outcome
    BY <1>1, <1>2, Apart DEF tunnel, sends
  <1>4. TypeOK'
    BY <1>1, <1>2, <1>3 DEF TypeOK, Outcome
  <1>5. TaskInv(t)'
    <2>1. at'[t] = "idle" /\ ended'[t] # "ok" /\ call'[t] = call[t] /\ pc'[t] # "transfer"
      BY <1>1, <1>2, <1>3 DEF TypeOK, TaskInv
    <2> QED BY <1>1, <1>2, <2>1 DEF TaskInv, Inside
  <1>6. \A u \in Sender \ {t} : Kept(u)
    BY <1>1, <1>2, <1>3 DEF Kept, TypeOK
  <1> QED BY <1>1, <1>2, <1>4, <1>5, <1>6, StepKeeps, ClientAssumption DEF TypeOK

\* The ways a call ends inside.
LEMMA EndsKeep ==
    ASSUME IInv, NEW t \in Sender,
           \/ DeliveryAborted(t) \/ DeliveryFailed(t) \/ Settled(t)
           \/ ListDone(t) \/ GivesUp(t)
    PROVE  IInv'
  <1>1. TypeOK /\ TaskInv(t) /\ outcome[t] \in Outcome \cup {"none"}
        /\ pc[t] \in {"idle", "transfer"}
    BY Split DEF TypeOK, TunnelTypeOK
  <1>2. SendGivenUp(t) => /\ UNCHANGED tunnel \/ SendCancelled(t)
                         /\ pc'[t] = "idle"
    BY <1>1 DEF SendGivenUp, SendCancelled, Return, tunnel, sends, TypeOK, TunnelTypeOK
  <1>3. CASE DeliveryAborted(t)
    BY <1>2, <1>3, LeaveKeeps DEF DeliveryAborted, Woken, Inside, Outcome
  <1>4. CASE GivesUp(t)
    <2>1. PICK o \in {"timeout", "cancelled"} : Leave(t, o)
      BY <1>4 DEF GivesUp
    <2> QED BY <1>2, <1>4, <2>1, LeaveKeeps DEF GivesUp, Woken, Inside, Outcome
  <1>5. CASE DeliveryFailed(t)
    <2>1. Woken(t) /\ SendDone(t) /\ outcome[t] # "ok" /\ Leave(t, outcome[t]) /\ UNCHANGED tunnel
      BY <1>5 DEF DeliveryFailed
    <2>2. Inside(t) /\ pc'[t] = "idle"
      BY <2>1 DEF Woken, SendDone, Inside, tunnel, sends
    <2> QED BY <1>1, <2>1, <2>2, LeaveKeeps
  <1>6. CASE Settled(t)
    <2>1. /\ Inside(t) /\ call[t].kind = "request" /\ call[t].begun /\ outcome[t] = "ok"
          /\ pc[t] = "idle" /\ UNCHANGED tunnel /\ call[t].fut \in {"result", "error"}
      BY <1>1, <1>6 DEF Settled, Delivered, Woken, SendDone, TaskInv, Inside
    <2>2. pc'[t] = "idle"
      BY <2>1 DEF tunnel, sends
    <2>3. /\ call[t].taken = call[t].hand /\ call[t].hand \in 1..Len(call[t].frames)
          /\ [kind |-> call[t].kind, frames |-> call[t].frames] \in Job
          /\ call[t].fut = "result" => call[t].answer = call[t].serial
      BY <1>1, <2>1 DEF TaskInv, Taken, Inside
    <2>4. call[t].taken = Len(call[t].frames)
      <3>1. Len(call[t].frames) = 1
        BY <2>1, <2>3, JobIs
      <3>2. call[t].hand = 1
        BY <2>3, <3>1
      <3> QED BY <2>3, <3>1, <3>2
    <2>5. CASE call[t].fut = "result"
      <3>1. Leave(t, "ok")
        BY <1>6, <2>5 DEF Settled
      <3> QED BY <2>1, <2>2, <2>3, <2>4, <2>5, <3>1, LeaveKeeps DEF Outcome
    <2>6. CASE call[t].fut = "error"
      <3>1. Leave(t, "error")
        BY <1>6, <2>6 DEF Settled
      <3> QED BY <2>1, <2>2, <3>1, LeaveKeeps DEF Outcome
    <2> QED BY <2>1, <2>5, <2>6
  <1>7. CASE ListDone(t)
    <2>1. /\ Inside(t) /\ call[t].kind = "write" /\ call[t].begun /\ outcome[t] = "ok"
          /\ pc[t] = "idle" /\ UNCHANGED tunnel /\ Leave(t, "ok")
          /\ call[t].hand = Len(call[t].frames)
      BY <1>7 DEF ListDone, Delivered, Woken, SendDone, Inside
    <2>2. pc'[t] = "idle"
      BY <2>1 DEF tunnel, sends
    <2>3. call[t].taken = call[t].hand
      BY <1>1, <2>1 DEF TaskInv, Taken, Inside
    <2> QED BY <2>1, <2>2, <2>3, LeaveKeeps DEF Outcome
  <1> QED BY <1>3, <1>4, <1>5, <1>6, <1>7

LEMMA AwaitsKeeps ==
    ASSUME IInv, NEW t \in Sender, Awaits(t)
    PROVE  IInv'
  <1>1. TypeOK /\ TaskInv(t)
    BY Split
  <1>2. /\ at[t] = "sending" /\ call[t].begun /\ pc[t] = "idle" /\ outcome[t] = "ok"
        /\ call[t].kind = "request" /\ at' = [at EXCEPT ![t] = "awaiting"]
        /\ UNCHANGED <<tunnel, call, ended, holder, carries, calls>>
    BY <1>1 DEF Awaits, Delivered, Woken, SendDone
  <1>3. TunnelTypeOK' /\ pc' = pc /\ accepted' = accepted /\ outcome' = outcome
    BY <1>1, <1>2, Apart DEF tunnel, sends
  <1>4. TypeOK'
    BY <1>1, <1>2, <1>3 DEF TypeOK
  <1>5. TaskInv(t)'
    <2>1. at'[t] = "awaiting" /\ call'[t] = call[t]
      BY <1>1, <1>2 DEF TypeOK
    <2> QED BY <1>1, <1>2, <1>3, <2>1 DEF TaskInv, Inside, Taken, SendDone, Frame
  <1>6. \A u \in Sender \ {t} : Kept(u)
    BY <1>1, <1>2, <1>3 DEF Kept, TypeOK
  <1> QED BY <1>1, <1>2, <1>4, <1>5, <1>6, StepKeeps, ClientAssumption DEF TypeOK

-----------------------------------------------------------------------------
(* Steps of a send *)

\* The send of t has its first step and is refused.
LEMMA SendRaisesKeeps ==
    ASSUME IInv, NEW t \in Sender, SendRaises(t)
    PROVE  IInv'
  <1>1. TypeOK /\ TaskInv(t)
    BY Split
  <1>2. PICK o \in {"error", "unsupported"} : SendRefused(t, o)
    BY DEF SendRaises
  <1>3. /\ TunnelTypeOK' /\ pc' = [pc EXCEPT ![t] = "idle"] /\ accepted' = accepted
        /\ outcome' = [outcome EXCEPT ![t] = o]
    <2>1. TunnelTypeOK'
      BY <1>1, <1>2, SendTyped DEF TypeOK, Outcome
    <2> QED BY <1>2, <2>1 DEF SendRefused, Return
  <1>4. /\ at[t] = "sending" /\ ~call[t].begun /\ call' = [call EXCEPT ![t].begun = TRUE]
        /\ UNCHANGED <<at, ended, holder, carries, calls>>
    BY DEF SendRaises, Starts
  <1>5. /\ call'[t] \in CallState /\ call'[t].begun = TRUE /\ call'[t].serial = call[t].serial
        /\ call'[t].kind = call[t].kind /\ call'[t].frames = call[t].frames
        /\ call'[t].hand = call[t].hand /\ call'[t].taken = call[t].taken
        /\ call'[t].fut = call[t].fut /\ call'[t].cut = call[t].cut
    <2>1. call'[t] = [call[t] EXCEPT !.begun = TRUE] /\ call[t] \in CallState
      BY <1>1, <1>4 DEF TypeOK
    <2> QED BY ONLY <2>1 DEF CallState
  <1>6. TypeOK'
    BY <1>1, <1>3, <1>4, <1>5 DEF TypeOK
  <1>7. TaskInv(t)'
    <2>1. pc'[t] = "idle" /\ outcome'[t] # "ok"
      BY <1>1, <1>3 DEF TypeOK, TunnelTypeOK
    <2>2. call[t].fut # "result"
      BY <1>1, <1>4 DEF TaskInv, Inside, SendDone
    <2> QED BY <1>1, <1>4, <1>5, <2>1, <2>2 DEF TaskInv, Inside, Taken
  <1>8. \A u \in Sender \ {t} : Kept(u)
    BY <1>1, <1>3, <1>4 DEF Kept, TypeOK, TunnelTypeOK
  <1>9. calls <= calls' /\ holder' = holder /\ call'[t].serial = call[t].serial
    BY <1>1, <1>4, <1>5, ClientAssumption DEF TypeOK
  <1> QED BY <1>6, <1>7, <1>8, <1>9, StepKeeps

\* Or its transfer is opened.
LEMMA SendStartsKeeps ==
    ASSUME IInv, NEW t \in Sender, SendStarts(t)
    PROVE  IInv'
  <1>1. TypeOK /\ TaskInv(t)
    BY Split
  <1>3. /\ TunnelTypeOK' /\ pc' = [pc EXCEPT ![t] = "transfer"]
        /\ accepted' = [accepted EXCEPT ![t] = FALSE] /\ outcome' = outcome
    <2>1. TunnelTypeOK'
      BY <1>1, BeginTyped DEF TypeOK, SendStarts
    <2> QED BY <2>1 DEF SendStarts, SendBegins
  <1>4. /\ at[t] = "sending" /\ ~call[t].begun /\ call' = [call EXCEPT ![t].begun = TRUE]
        /\ carries' = [carries EXCEPT ![t] = [of |-> call[t].serial, key |-> Frame(t)]]
        /\ UNCHANGED <<at, ended, holder, calls>>
    BY DEF SendStarts, Starts
  <1>5. /\ call'[t] \in CallState /\ call'[t].begun = TRUE /\ call'[t].serial = call[t].serial
        /\ call'[t].kind = call[t].kind /\ call'[t].frames = call[t].frames
        /\ call'[t].hand = call[t].hand /\ call'[t].taken = call[t].taken
        /\ call'[t].fut = call[t].fut /\ call'[t].cut = call[t].cut
    <2>1. call'[t] = [call[t] EXCEPT !.begun = TRUE] /\ call[t] \in CallState
      BY <1>1, <1>4 DEF TypeOK
    <2> QED BY ONLY <2>1 DEF CallState
  <1>6. TypeOK'
    <2>1. call[t].frames \in Seq(Key) /\ call[t].hand \in 1..Len(call[t].frames)
          /\ call[t].serial \in 0..MaxCalls
      BY <1>1, <1>4 DEF TypeOK, CallState, TaskInv, Inside
    <2>2. Frame(t) \in Key
      BY <2>1 DEF Frame
    <2> QED BY <1>1, <1>3, <1>4, <1>5, <2>1, <2>2 DEF TypeOK
  <1>7. TaskInv(t)'
    <2>1. pc'[t] = "transfer" /\ accepted'[t] = FALSE
      BY <1>1, <1>3 DEF TypeOK, TunnelTypeOK
    <2>2. call[t].fut # "result"
      BY <1>1, <1>4 DEF TaskInv, Inside, SendDone
    <2>3. carries'[t] = [of |-> call'[t].serial, key |-> Frame(t)'] /\ at'[t] = "sending"
      BY <1>1, <1>4, <1>5 DEF TypeOK, Frame
    <2> QED BY <1>1, <1>4, <1>5, <2>1, <2>2, <2>3 DEF TaskInv, Inside, Taken
  <1>8. \A u \in Sender \ {t} : Kept(u)
    BY <1>1, <1>3, <1>4 DEF Kept, TypeOK, TunnelTypeOK
  <1> QED BY <1>1, <1>4, <1>5, <1>6, <1>7, <1>8, StepKeeps, ClientAssumption DEF TypeOK

\* A transfer that is open is that of the call inside, for its frame in hand.
LEMMA OpenIs ==
    ASSUME IInv, NEW t \in Sender, pc[t] = "transfer"
    PROVE  /\ at[t] = "sending" /\ call[t].begun /\ holder = t
           /\ carries[t] = [of |-> call[t].serial, key |-> Frame(t)]
           /\ call[t].serial # 0 /\ call[t].serial <= calls
           /\ call[t].fut # "result"
           /\ accepted[t] => call[t].taken = call[t].hand
           /\ ~accepted[t] => call[t].taken = call[t].hand - 1
           /\ \A u \in Sender \ {t} : ~Inside(u) /\ call[u].serial # call[t].serial
  <1>1. TypeOK /\ Numbered /\ \A u \in Sender : TaskInv(u)
    BY Split
  <1>3. /\ at[t] = "sending" /\ call[t].begun /\ holder = t
        /\ carries[t] = [of |-> call[t].serial, key |-> Frame(t)]
        /\ call[t].serial # 0 /\ call[t].serial <= calls /\ call[t].fut # "result"
    BY <1>1 DEF TaskInv, Inside, SendDone
  <1>4. /\ accepted[t] => call[t].taken = call[t].hand
        /\ ~accepted[t] => call[t].taken = call[t].hand - 1
    BY <1>1, <1>3 DEF TaskInv, Inside, Taken
  <1>5. \A u \in Sender \ {t} : ~Inside(u) /\ call[u].serial # call[t].serial
    BY <1>1, <1>3 DEF TaskInv, Numbered
  <1> QED BY <1>3, <1>4, <1>5

\* The charger accepts the frame in hand: one more of this call, no other's.
LEMMA FrameAcceptedKeeps ==
    ASSUME IInv, NEW t \in Sender, FrameAccepted(t)
    PROVE  IInv'
  <1>1. TypeOK /\ TaskInv(t) /\ pc[t] = "transfer" /\ ~accepted[t]
    BY Split DEF FrameAccepted, Accepts
  <1>2. /\ at[t] = "sending" /\ call[t].begun /\ carries[t].of = call[t].serial
        /\ call[t].fut # "result" /\ call[t].taken = call[t].hand - 1
        /\ \A u \in Sender \ {t} : call[u].serial # call[t].serial
    <2>1. carries[t] = [of |-> call[t].serial, key |-> Frame(t)]
      BY <1>1, OpenIs
    <2>2. carries[t].of = call[t].serial
      BY <2>1
    <2>3. /\ at[t] = "sending" /\ call[t].begun /\ call[t].fut # "result"
          /\ ~accepted[t] => call[t].taken = call[t].hand - 1
          /\ \A u \in Sender \ {t} : call[u].serial # call[t].serial
      BY <1>1, OpenIs
    <2> QED BY <1>1, <2>2, <2>3
  <1>3. TunnelTypeOK' /\ pc' = pc /\ outcome' = outcome
        /\ accepted' = [accepted EXCEPT ![t] = TRUE]
    BY <1>1, BeginTyped DEF TypeOK, FrameAccepted, Accepts
  <1>4. UNCHANGED <<at, ended, holder, carries, calls>>
    BY DEF FrameAccepted
  <1>5. call'[t] = [call[t] EXCEPT !.taken = @ + 1] /\ call[t] \in CallState
    BY <1>1, <1>2 DEF FrameAccepted, TypeOK
  <1>6. \A u \in Sender \ {t} : call'[u] = call[u]
    BY <1>1, <1>2 DEF FrameAccepted, TypeOK
  <1>7. /\ call'[t] \in CallState /\ call'[t].begun = call[t].begun
        /\ call'[t].serial = call[t].serial /\ call'[t].kind = call[t].kind
        /\ call'[t].frames = call[t].frames /\ call'[t].hand = call[t].hand
        /\ call'[t].taken = call[t].taken + 1
        /\ call'[t].fut = call[t].fut /\ call'[t].cut = call[t].cut
    <2>1. call[t].taken + 1 \in Nat
      BY <1>5 DEF CallState
    <2> QED BY ONLY <1>5, <2>1 DEF CallState
  <1>8. TypeOK'
    <2>1. call' \in [Sender -> CallState]
      <3>1. call' = [u \in Sender |-> call'[u]]
        BY DEF FrameAccepted
      <3>2. \A u \in Sender : call'[u] \in CallState
        BY <1>1, <1>6, <1>7 DEF TypeOK
      <3> QED BY ONLY <3>1, <3>2
    <2> QED BY <1>1, <1>3, <1>4, <2>1 DEF TypeOK
  <1>9. TaskInv(t)'
    <2>1. accepted'[t] = TRUE
      BY <1>1, <1>3 DEF TypeOK, TunnelTypeOK
    <2>2. call'[t].taken = call'[t].hand
      BY <1>2, <1>5, <1>7 DEF CallState
    <2> QED BY <1>1, <1>2, <1>3, <1>4, <1>7, <2>1, <2>2 DEF TaskInv, Inside, Taken, Frame
  <1>10. \A u \in Sender \ {t} : Kept(u)
    BY <1>1, <1>3, <1>4, <1>6 DEF Kept, TypeOK, TunnelTypeOK
  <1>11. calls <= calls' /\ holder' = holder /\ call'[t].serial = call[t].serial
    BY <1>1, <1>4, <1>7, ClientAssumption DEF TypeOK
  <1> QED BY <1>8, <1>9, <1>10, <1>11, StepKeeps

\* What a send that returns leaves of the tunnel.
LEMMA SendReturns ==
    ASSUME TypeOK, NEW t \in Sender,
           TransferFails(t) \/ AnswerRefused(t) \/ AnswerEmpty(t) \/ AnswerHeard(t)
    PROVE  /\ TunnelTypeOK' /\ accepted' = accepted /\ pc[t] = "transfer"
           /\ pc'[t] = "idle" /\ outcome'[t] = "ok" => accepted[t]
           /\ pc'[t] = "idle"
           /\ \A u \in Sender \ {t} : pc'[u] = pc[u] /\ outcome'[u] = outcome[u]
  <1>1. TunnelTypeOK /\ TunnelTypeOK'
    BY SendTyped DEF TypeOK
  <1>2. PICK o \in Outcome : Return(t, o) /\ (o = "ok" => accepted[t])
    BY DEF TransferFails, AnswerRefused, Refusal, AnswerEmpty, AnswerHeard, Outcome
  <1>3. pc[t] = "transfer"
    BY DEF TransferFails, AnswerRefused, AnswerEmpty, AnswerHeard
  <1> QED BY <1>1, <1>2, <1>3 DEF Return, TunnelTypeOK

\* A send is over without a reply that anybody waits for.
LEMMA SendEndsKeeps ==
    ASSUME IInv, NEW t \in Sender, SendEnds(t)
    PROVE  IInv'
  <1>1. TypeOK /\ TaskInv(t)
    BY Split
  <1>2. /\ TunnelTypeOK' /\ accepted' = accepted /\ pc[t] = "transfer"
        /\ outcome'[t] = "ok" => accepted[t]
        /\ pc'[t] = "idle"
        /\ \A u \in Sender \ {t} : pc'[u] = pc[u] /\ outcome'[u] = outcome[u]
    BY <1>1, SendReturns DEF SendEnds
  <1>3. UNCHANGED client
    BY DEF SendEnds
  <1>4. /\ at[t] = "sending" /\ call[t].begun /\ call[t].fut # "result"
        /\ accepted[t] => call[t].taken = call[t].hand
    BY <1>1, <1>2, OpenIs
  <1>5. TypeOK'
    BY <1>1, <1>2, <1>3 DEF TypeOK, client
  <1>6. TaskInv(t)'
    BY <1>1, <1>2, <1>3, <1>4 DEF TaskInv, Inside, Taken, client
  <1>7. \A u \in Sender \ {t} : Kept(u)
    BY <1>2, <1>3 DEF Kept, client
  <1>8. calls <= calls' /\ holder' = holder /\ call'[t].serial = call[t].serial
    BY <1>1, <1>3, ClientAssumption DEF TypeOK, client
  <1> QED BY <1>5, <1>6, <1>7, <1>8, StepKeeps

\* The reply inside a send: nobody but the call that sends can take it.
LEMMA ReplyHeardKeeps ==
    ASSUME IInv, NEW t \in Sender, ReplyHeard(t)
    PROVE  IInv'
  <1>1. TypeOK /\ TaskInv(t)
    BY Split
  <1>2. /\ TunnelTypeOK' /\ accepted' = accepted /\ pc[t] = "transfer"
        /\ accepted[t] /\ pc'[t] = "idle" /\ outcome'[t] = "ok"
        /\ \A u \in Sender \ {t} : pc'[u] = pc[u] /\ outcome'[u] = outcome[u]
    <2>1. AnswerHeard(t) /\ accepted[t] /\ outcome' = [outcome EXCEPT ![t] = "ok"]
      BY DEF ReplyHeard, AnswerHeard, Return
    <2> QED BY <1>1, <2>1, SendReturns DEF TypeOK, TunnelTypeOK
  <1>3. UNCHANGED <<at, ended, holder, carries, calls>>
    BY DEF ReplyHeard
  <1>4. /\ at[t] = "sending" /\ call[t].begun /\ call[t].fut # "result"
        /\ call[t].taken = call[t].hand
        /\ carries[t] = [of |-> call[t].serial, key |-> Frame(t)]
        /\ \A u \in Sender \ {t} : ~Inside(u)
    BY <1>1, <1>2, OpenIs
  <1>5. \A u \in Sender \ {t} : call'[u] = call[u]
    BY <1>1, <1>4 DEF ReplyHeard, OnNotify, WaitsFor, TypeOK
  <1>6. \/ call'[t] = call[t]
        \/ /\ call[t].kind = "request"
           /\ call'[t] = [call[t] EXCEPT !.fut = "result", !.answer = carries[t].of]
    BY <1>1, <1>4 DEF ReplyHeard, OnNotify, WaitsFor, TypeOK
  <1>7. /\ call'[t] \in CallState /\ call'[t].begun = call[t].begun
        /\ call'[t].serial = call[t].serial /\ call'[t].kind = call[t].kind
        /\ call'[t].frames = call[t].frames /\ call'[t].hand = call[t].hand
        /\ call'[t].taken = call[t].taken /\ call'[t].cut = call[t].cut
        /\ \/ call'[t].fut = call[t].fut
           \/ /\ call[t].kind = "request" /\ call'[t].fut = "result"
              /\ call'[t].answer = call[t].serial
    <2>1. call[t] \in CallState /\ carries[t].of \in 0..MaxCalls
          /\ carries[t].of = call[t].serial
      BY <1>1, <1>4 DEF TypeOK
    <2>2. CASE call'[t] = call[t]
      BY <2>1, <2>2
    <2>3. CASE /\ call[t].kind = "request"
               /\ call'[t] = [call[t] EXCEPT !.fut = "result", !.answer = carries[t].of]
      BY ONLY <2>1, <2>3 DEF CallState
    <2> QED BY <1>6, <2>2, <2>3
  <1>8. TypeOK'
    <2>1. call' \in [Sender -> CallState]
      <3>1. call' = [u \in Sender |-> call'[u]]
        BY <1>1 DEF ReplyHeard, OnNotify, TypeOK
      <3>2. \A u \in Sender : call'[u] \in CallState
        BY <1>1, <1>5, <1>7 DEF TypeOK
      <3> QED BY ONLY <3>1, <3>2
    <2> QED BY <1>1, <1>2, <1>3, <2>1 DEF TypeOK
  <1>9. TaskInv(t)'
    BY <1>1, <1>2, <1>3, <1>4, <1>7 DEF TaskInv, Inside, Taken, SendDone
  <1>10. \A u \in Sender \ {t} : Kept(u)
    BY <1>2, <1>3, <1>5 DEF Kept
  <1>11. calls <= calls' /\ holder' = holder /\ call'[t].serial = call[t].serial
    BY <1>1, <1>3, <1>7, ClientAssumption DEF TypeOK
  <1> QED BY <1>8, <1>9, <1>10, <1>11, StepKeeps

-----------------------------------------------------------------------------
(* Steps of the link *)

\* Nothing of the calls and the sends changes.
LEMMA RestKeeps ==
    ASSUME IInv, UNCHANGED <<client, sends>>, TunnelTypeOK'
    PROVE  IInv'
  BY DEF IInv, TypeOK, HolderInv, CallInv, FrameInv, FutureInv, OkMeansHandled, Inside, Frame,
         Taken, SendDone, client, sends

\* on_disconnect: every call inside is told, and no future stays pending.
LEMMA LostKeeps ==
    ASSUME IInv, LinkReportedLost
    PROVE  IInv'
  <1>1. TypeOK /\ Numbered /\ \A u \in Sender : TaskInv(u)
    BY Split
  <1>2. TunnelTypeOK' /\ UNCHANGED sends /\ UNCHANGED <<at, ended, holder, carries, calls>>
    BY <1>1, LinkTyped DEF TypeOK, LinkReportedLost, NotifyDisconnected
  <1>3. CASE call' = call
    BY <1>2, <1>3, RestKeeps DEF client
  <1>4. CASE call' = OnDisconnect
    <2>1. ASSUME NEW u \in Sender
          PROVE  /\ call'[u] \in CallState /\ call'[u].begun = call[u].begun
                 /\ call'[u].serial = call[u].serial /\ call'[u].kind = call[u].kind
                 /\ call'[u].frames = call[u].frames /\ call'[u].hand = call[u].hand
                 /\ call'[u].taken = call[u].taken /\ call'[u].answer = call[u].answer
                 /\ call'[u].fut = (IF FailedByDrop(u) THEN "error" ELSE call[u].fut)
      <3>1. call[u] \in CallState
        BY <1>1 DEF TypeOK
      <3>2. PICK f \in {"none", "pending", "result", "error"}, b \in BOOLEAN :
              /\ call'[u] = [call[u] EXCEPT !.fut = f, !.cut = b]
              /\ f = (IF FailedByDrop(u) THEN "error" ELSE call[u].fut)
        <4>1. (IF FailedByDrop(u) THEN "error" ELSE call[u].fut)
                \in {"none", "pending", "result", "error"}
          BY <3>1 DEF CallState
        <4>2. (call[u].cut \/ Inside(u)) \in BOOLEAN
          OBVIOUS
        <4>3. call'[u] = [call[u] EXCEPT !.fut = IF FailedByDrop(u) THEN "error" ELSE call[u].fut,
                                         !.cut = call[u].cut \/ Inside(u)]
          BY <1>4, <3>1 DEF OnDisconnect, CallState
        <4> QED BY ONLY <4>1, <4>2, <4>3
      <3> QED BY ONLY <3>1, <3>2 DEF CallState
    <2>2. TypeOK'
      <3>1. call' \in [Sender -> CallState]
        <4>1. call' = [u \in Sender |-> call'[u]]
          BY <1>4 DEF OnDisconnect
        <4> QED BY ONLY <2>1, <4>1
      <3> QED BY <1>1, <1>2, <3>1 DEF TypeOK
    <2>3. ASSUME NEW u \in Sender PROVE TaskInv(u)'
      <3>1. /\ call'[u].fut = "result" <=> call[u].fut = "result"
            /\ call'[u].fut = "none" <=> call[u].fut = "none"
            /\ Inside(u) => call'[u].fut # "pending"
        BY <2>1 DEF FailedByDrop
      <3> QED BY <1>1, <1>2, <2>1, <3>1 DEF TaskInv, Inside, Taken, SendDone, Frame, sends
    <2>4. Numbered'
      BY <1>1, <2>1 DEF Numbered
    <2> QED BY <2>2, <2>3, <2>4, JoinedNext
  <1> QED BY <1>3, <1>4 DEF LinkReportedLost

LEMMA LinkStepKeeps ==
    ASSUME IInv, ClientConnects \/ ClientDisconnects
    PROVE  IInv'
  <1>1. Mine \in Callbacks
    BY ClientAssumption
  <1>2. (\E c \in Callbacks : Connect(c)) \/ Disconnect
    BY <1>1 DEF ClientConnects, ClientDisconnects
  <1>3. TunnelTypeOK'
    BY <1>2, LinkTyped DEF IInv, TypeOK
  <1>4. UNCHANGED <<client, sends>>
    BY DEF ClientConnects, ClientDisconnects, Connect, Disconnect
  <1> QED BY <1>3, <1>4, RestKeeps

-----------------------------------------------------------------------------
(* The theorems *)

LEMMA NextInv == IInv /\ [Next]_vars => IInv'
  <1> SUFFICES ASSUME IInv, [Next]_vars PROVE IInv'
    OBVIOUS
  <1>1. CASE UNCHANGED vars
    <2>1. UNCHANGED <<client, sends>>
      BY <1>1 DEF vars, tunnel
    <2>2. TunnelTypeOK'
      BY <1>1 DEF IInv, TypeOK, TunnelTypeOK, vars, tunnel, sends
    <2> QED BY <2>1, <2>2, RestKeeps
  <1>2. CASE \E t \in Sender : CallRefused(t) \/ QueuedCancelled(t)
    BY <1>2, OutsideKeeps
  <1>3. CASE \E t \in Sender : \E j \in Job : CallEnters(t, j) \/ CallQueues(t, j)
    BY <1>3, CallEntersKeeps, CallQueuesKeeps
  <1>4. CASE \E t \in Sender : LockGranted(t) \/ NextFrame(t) \/ Awaits(t)
    BY <1>4, LockGrantedKeeps, NextFrameKeeps, AwaitsKeeps
  <1>5. CASE \E t \in Sender : \/ DeliveryAborted(t) \/ DeliveryFailed(t) \/ Settled(t)
                               \/ ListDone(t) \/ GivesUp(t)
    BY <1>5, EndsKeep
  <1>6. CASE \E t \in Sender : SendRaises(t) \/ SendStarts(t) \/ FrameAccepted(t)
                               \/ SendEnds(t) \/ ReplyHeard(t)
    BY <1>6, SendRaisesKeeps, SendStartsKeeps, FrameAcceptedKeeps, SendEndsKeeps,
       ReplyHeardKeeps
  <1>7. CASE ClientConnects \/ ClientDisconnects \/ LinkReportedLost
    BY <1>7, LinkStepKeeps, LostKeeps
  <1> QED BY <1>1, <1>2, <1>3, <1>4, <1>5, <1>6, <1>7 DEF Next

THEOREM Invariance == Spec => []IInv
  BY InitInv, NextInv, PTL DEF Spec

\* Every field keeps its type, whatever order calls, sends and drops take.
THEOREM TypeCorrect == Spec => []TypeOK
  <1>1. IInv => TypeOK
    BY DEF IInv
  <1> QED BY <1>1, Invariance, PTL

\* What a call over the tunnel reports done was done: every frame accepted, and
\* a request answered by the reply to its own frame, whatever requests of the
\* same register were given up before.  An answer always comes from inside the
\* send of the frame it answers, and giving a call up ends its send with it.
THEOREM DoneIsDone == Spec => []OkMeansHandled
  <1>1. IInv => OkMeansHandled
    BY DEF IInv
  <1> QED BY <1>1, Invariance, PTL

\* A call that a reported drop found inside is not left to its timer.
THEOREM DropEnds == Spec => []DropEndsCalls
  <1>1. IInv => DropEndsCalls
    <2> SUFFICES ASSUME IInv, NEW t \in Sender, call[t].cut, Waiting(t) PROVE FALSE
      BY DEF DropEndsCalls
    <2>1. TaskInv(t) /\ call[t].fut \in {"none", "pending", "result", "error"}
      BY Split DEF TypeOK, CallState
    <2>2. Inside(t)
      BY DEF Waiting, Woken, Inside
    <2> QED BY <2>1, <2>2 DEF TaskInv, Waiting
  <1> QED BY <1>1, Invariance, PTL

\* As SpinEvCharger uses it, which asks is_connected before it connects, the
\* tunnel keeps all of the contract of transports/base.py.
THEOREM ImplementsContract == Spec => KeepsContract
  <1>1. Init => Contract!Init
    <2>1. Init => IsConnected = FALSE
      BY DEF Init, TunnelInit, IsConnected
    <2> QED BY <2>1 DEF Init, TunnelInit, Contract!Init
  <1>2. TypeOK /\ [Next]_vars => [Contract!Next]_(Contract!vars)
    <2> SUFFICES ASSUME TypeOK, [Next]_vars PROVE [Contract!Next]_(Contract!vars)
      OBVIOUS
    <2>1. ASSUME UNCHANGED <<listener, connects, reports>>
          PROVE  UNCHANGED Contract!vars
      BY <2>1 DEF Contract!vars, IsConnected
    <2>2. CASE ClientConnects
      <3>1. listener' # Nobody /\ IsConnected' = TRUE /\ reports' = reports
        BY <2>2, TunnelAssumption, ClientAssumption DEF ClientConnects, Connect, IsConnected
      <3> QED BY <2>2, <3>1 DEF ClientConnects, Contract!Next, Contract!Open
    <2>3. CASE ClientDisconnects \/ LinkReportedLost
      <3>1. Disconnect \/ NotifyDisconnected
        BY <2>3 DEF ClientDisconnects, LinkReportedLost
      <3>2. ~Contract!Replace \/ UNCHANGED Contract!vars
        BY <3>1 DEF Disconnect, NotifyDisconnected, CallbacksCleared, IsConnected,
                    Contract!Replace
      <3> QED BY <3>1, <3>2, LinkKeeps
    <2>4. CASE UNCHANGED tunnel
      BY <2>1, <2>4 DEF tunnel
    <2>5. ASSUME NEW t \in Sender,
                 \/ DeliveryAborted(t) \/ GivesUp(t) \/ SendRaises(t) \/ SendStarts(t)
                 \/ FrameAccepted(t) \/ SendEnds(t) \/ ReplyHeard(t)
          PROVE  UNCHANGED Contract!vars
      <3>1. \/ UNCHANGED tunnel \/ SendCancelled(t)
            \/ \E o \in {"error", "unsupported"} : SendRefused(t, o)
            \/ SendBegins(t) \/ Accepts(t) \/ TransferFails(t) \/ AnswerRefused(t)
            \/ AnswerEmpty(t) \/ AnswerHeard(t)
        BY <2>5 DEF DeliveryAborted, GivesUp, SendGivenUp, SendRaises, SendStarts,
                    FrameAccepted, SendEnds, ReplyHeard
      <3>2. {"error", "unsupported"} \subseteq Outcome
        BY DEF Outcome
      <3>3. CASE UNCHANGED tunnel
        BY <2>1, <3>3 DEF tunnel
      <3> QED BY <2>1, <3>1, <3>2, <3>3, SendTyped, BeginTyped DEF TypeOK
    <2>6. CASE UNCHANGED vars
      BY <2>4, <2>6 DEF vars
    <2>7. ASSUME NEW t \in Sender,
                 \/ CallRefused(t) \/ (\E j \in Job : CallEnters(t, j) \/ CallQueues(t, j))
                 \/ LockGranted(t) \/ QueuedCancelled(t) \/ DeliveryFailed(t)
                 \/ Settled(t) \/ Awaits(t) \/ NextFrame(t) \/ ListDone(t)
          PROVE  UNCHANGED tunnel
      BY <2>7 DEF CallRefused, CallEnters, CallQueues, Asks, LockGranted, QueuedCancelled,
                  DeliveryFailed, Settled, Awaits, NextFrame, ListDone
    <2> QED BY <2>2, <2>3, <2>4, <2>5, <2>6, <2>7 DEF Next
  <1> QED BY <1>1, <1>2, TypeCorrect, PTL DEF Spec, KeepsContract, Contract!Spec
=============================================================================
