---------------------------- MODULE TunnelClient ----------------------------
(***************************************************************************)
(* SpinEvCharger over the OCPP tunnel: the calls of several tasks in       *)
(* charger.py, each frame of which is a send that stays open for a whole   *)
(* DataTransfer, and the callbacks the tunnel calls from inside a send or  *)
(* a drop.                                                                 *)
(*                                                                         *)
(* Of the engine this keeps what the tunnel can tell apart; ChargerClient  *)
(* has the rest: its tables are here the futures themselves (no entry is   *)
(* left behind or missing there), its lock has a holder and no line, and a *)
(* timer or cancellation reaches a call in one step.  Assumed: a           *)
(* data_transfer that is cancelled ends at once.                           *)
(***************************************************************************)
EXTENDS OcppTunnel, Sequences

CONSTANTS Mine,         \* the callbacks of this client
          Key,          \* register and flag of a frame
          RequestKey,   \* keys sent through _request
          Setter,       \* the frame lists given to _write_frames, as keys
          HistoryKey,   \* keys of the streamed history reads
          MaxCalls,     \* bound: calls made in one behaviour
          None

ASSUME ClientAssumption ==
    /\ Mine \in Callbacks /\ None \notin Sender
    /\ RequestKey \subseteq Key /\ HistoryKey \subseteq Key \ RequestKey
    /\ Setter \subseteq Seq(Key \ HistoryKey) /\ <<>> \notin Setter
    /\ MaxCalls \in Nat

VARIABLES
    at,       \* where each task's call stands
    call,     \* what it holds
    ended,    \* how its last call ended
    holder,   \* who has _lock
    carries,  \* what each send's transfer carries: whose frame, which key
    calls     \* calls made so far, numbering them

client == <<at, call, ended, holder, carries, calls>>
vars == <<tunnel, client>>

\* A request waits for its reply; a history read only sends, as a list does.
Job == [kind : {"request"}, frames : {<<k>> : k \in RequestKey}]
       \cup [kind : {"write"}, frames : Setter \cup {<<k>> : k \in HistoryKey}]

\* hand: the frame in hand; begun: its send has had its first step; fut: the
\* reply future of a request, the abort future of a write.  For the properties:
\* taken, how many frames of the call the charger accepted; answer, the call
\* whose frame its reply answers; cut, on_disconnect came with this frame.
NoCall == [kind |-> "none", frames |-> <<>>, serial |-> 0, hand |-> 0, begun |-> FALSE,
           fut |-> "none", taken |-> 0, answer |-> 0, cut |-> FALSE]
CallState == [kind : {"none", "request", "write"}, frames : Seq(Key), serial : 0..MaxCalls,
              hand : Nat, begun : BOOLEAN, fut : {"none", "pending", "result", "error"},
              taken : Nat, answer : 0..MaxCalls, cut : BOOLEAN]

TypeOK ==
    /\ TunnelTypeOK
    /\ at \in [Sender -> {"idle", "queued", "sending", "awaiting"}]
    /\ call \in [Sender -> CallState]
    /\ ended \in [Sender -> Outcome \cup {"none"}]
    /\ holder \in Sender \cup {None}
    /\ carries \in [Sender -> [of : 0..MaxCalls, key : Key \cup {None}]]
    /\ calls \in 0..MaxCalls

Init ==
    /\ TunnelInit
    /\ at = [t \in Sender |-> "idle"]
    /\ call = [t \in Sender |-> NoCall]
    /\ ended = [t \in Sender |-> "none"]
    /\ holder = None
    /\ carries = [t \in Sender |-> [of |-> 0, key |-> None]]
    /\ calls = 0

-----------------------------------------------------------------------------
(* Calls *)

Frame(t) == call[t].frames[call[t].hand]
SendDone(t) == call[t].begun /\ pc[t] = "idle"

\* From the lock, or from the frame before, to the first await in _deliver: a
\* waiter or an abort, and a send task.
Sends(t, c) ==
    /\ at' = [at EXCEPT ![t] = "sending"]
    /\ call' = [call EXCEPT ![t] = [c EXCEPT !.hand = @ + 1, !.begun = FALSE,
                                             !.fut = "pending", !.cut = FALSE]]

\* The call is over: the finally clauses, and the lock.
Leave(t, o) ==
    /\ at' = [at EXCEPT ![t] = "idle"]
    /\ call' = [call EXCEPT ![t].fut = "none"]
    /\ ended' = [ended EXCEPT ![t] = o]
    /\ holder' = None
    /\ UNCHANGED <<carries, calls>>

\* _deliver is left while the send is open: its finally clause cancels the
\* send.  The variant leaves it open.
SendLeft(t) == UNCHANGED tunnel
SendGivenUp(t) == IF pc[t] = "transfer" THEN SendCancelled(t) ELSE UNCHANGED tunnel

\* The link is looked at before the lock is asked for.
CallRefused(t) ==
    /\ at[t] = "idle" /\ ~IsConnected
    /\ ended' = [ended EXCEPT ![t] = "error"]
    /\ UNCHANGED <<tunnel, at, call, holder, carries, calls>>

Asks(t) ==
    /\ at[t] = "idle" /\ IsConnected
    /\ calls < MaxCalls
    /\ calls' = calls + 1
    /\ UNCHANGED <<tunnel, ended, carries>>

Uncontended == holder = None /\ \A u \in Sender : at[u] # "queued"

NewCall(j) == [NoCall EXCEPT !.kind = j.kind, !.frames = j.frames, !.serial = calls + 1]

CallEnters(t, j) ==
    /\ Asks(t) /\ Uncontended
    /\ holder' = t
    /\ Sends(t, NewCall(j))

CallQueues(t, j) ==
    /\ Asks(t) /\ ~Uncontended
    /\ at' = [at EXCEPT ![t] = "queued"]
    /\ call' = [call EXCEPT ![t] = NewCall(j)]
    /\ UNCHANGED holder

LockGranted(t) ==
    /\ at[t] = "queued" /\ holder = None
    /\ holder' = t
    /\ Sends(t, call[t])
    /\ UNCHANGED <<tunnel, ended, carries, calls>>

QueuedCancelled(t) ==
    /\ at[t] = "queued"
    /\ at' = [at EXCEPT ![t] = "idle"]
    /\ ended' = [ended EXCEPT ![t] = "cancelled"]
    /\ UNCHANGED <<tunnel, call, holder, carries, calls>>

\* _deliver goes on when the send is done or its future is settled.  The send's
\* first step was put on the loop before anything could wake the caller.
Woken(t) == at[t] = "sending" /\ call[t].begun

\* The future failed while the send was open.
DeliveryAborted(t) ==
    /\ Woken(t) /\ ~SendDone(t) /\ call[t].fut = "error"
    /\ SendGivenUp(t)
    /\ Leave(t, "error")

\* The send raised; its error is the client's.
DeliveryFailed(t) ==
    /\ Woken(t) /\ SendDone(t) /\ outcome[t] # "ok"
    /\ Leave(t, outcome[t])
    /\ UNCHANGED tunnel

Delivered(t, kind) == Woken(t) /\ SendDone(t) /\ outcome[t] = "ok" /\ call[t].kind = kind

\* The reply came inside the send, or a drop before it.
Settled(t) ==
    /\ at[t] = "awaiting" \/ Delivered(t, "request")
    /\ call[t].fut \in {"result", "error"}
    /\ Leave(t, IF call[t].fut = "result" THEN "ok" ELSE "error")
    /\ UNCHANGED tunnel

\* The transfer brought no reply: `await future`.
Awaits(t) ==
    /\ Delivered(t, "request") /\ call[t].fut = "pending"
    /\ at' = [at EXCEPT ![t] = "awaiting"]
    /\ UNCHANGED <<tunnel, call, ended, holder, carries, calls>>

\* An abort that failed just after its send was done is no error.
NextFrame(t) ==
    /\ Delivered(t, "write") /\ call[t].hand < Len(call[t].frames)
    /\ Sends(t, call[t])
    /\ UNCHANGED <<tunnel, ended, holder, carries, calls>>

ListDone(t) ==
    /\ Delivered(t, "write") /\ call[t].hand = Len(call[t].frames)
    /\ Leave(t, "ok")
    /\ UNCHANGED tunnel

\* The timer, or the application.
GivesUp(t) ==
    /\ Woken(t) \/ at[t] = "awaiting"
    /\ SendGivenUp(t)
    /\ \E o \in {"timeout", "cancelled"} : Leave(t, o)

-----------------------------------------------------------------------------
(* Sends *)

Starts(t) == at[t] = "sending" /\ ~call[t].begun /\ call' = [call EXCEPT ![t].begun = TRUE]

SendRaises(t) ==
    /\ Starts(t)
    /\ \E o \in {"error", "unsupported"} :
         (o = "unsupported" => Frame(t) \in HistoryKey) /\ SendRefused(t, o)
    /\ UNCHANGED <<at, ended, holder, carries, calls>>

SendStarts(t) ==
    /\ Starts(t) /\ Frame(t) \notin HistoryKey
    /\ SendBegins(t)
    /\ carries' = [carries EXCEPT ![t] = [of |-> call[t].serial, key |-> Frame(t)]]
    /\ UNCHANGED <<at, ended, holder, calls>>

FrameAccepted(t) ==
    /\ Accepts(t)
    /\ call' = [u \in Sender |-> IF call[u].serial = carries[t].of
                                 THEN [call[u] EXCEPT !.taken = @ + 1] ELSE call[u]]
    /\ UNCHANGED <<at, ended, holder, carries, calls>>

\* No answer, an answer that is refused, or one nobody waits for.
SendEnds(t) ==
    /\ TransferFails(t) \/ AnswerRefused(t) \/ AnswerEmpty(t)
    /\ UNCHANGED client

Inside(t) == at[t] \in {"sending", "awaiting"}

\* _on_notify: the charger's frame echoes register and flag of the one sent.
WaitsFor(u, key) == /\ Inside(u) /\ call[u].kind = "request"
                    /\ Frame(u) = key /\ call[u].fut = "pending"
OnNotify(from) ==
    [u \in Sender |-> IF WaitsFor(u, from.key)
                      THEN [call[u] EXCEPT !.fut = "result", !.answer = from.of]
                      ELSE call[u]]

ReplyHeard(t) ==
    /\ AnswerHeard(t)
    /\ call' = IF listener = Mine THEN OnNotify(carries[t]) ELSE call
    /\ UNCHANGED <<at, ended, holder, carries, calls>>

-----------------------------------------------------------------------------
(* The link *)

\* async_connect of the client asks is_connected first; nobody else connects.
ClientConnects ==
    /\ ~IsConnected
    /\ Connect(Mine)
    /\ UNCHANGED client

ClientDisconnects ==
    /\ Disconnect
    /\ UNCHANGED client

\* _on_disconnect fails the waiters and the aborts; the variant the waiters.
FailedByDropHalf(u) == Inside(u) /\ call[u].fut = "pending" /\ call[u].kind = "request"
FailedByDrop(u) == Inside(u) /\ call[u].fut = "pending"
OnDisconnect ==
    [u \in Sender |-> [call[u] EXCEPT !.fut = IF FailedByDrop(u) THEN "error" ELSE @,
                                      !.cut = @ \/ Inside(u)]]

LinkReportedLost ==
    /\ NotifyDisconnected
    /\ call' = IF listener = Mine THEN OnDisconnect ELSE call
    /\ UNCHANGED <<at, ended, holder, carries, calls>>

Next ==
    \/ \E t \in Sender :
        \/ CallRefused(t)
        \/ \E j \in Job : CallEnters(t, j) \/ CallQueues(t, j)
        \/ LockGranted(t) \/ QueuedCancelled(t)
        \/ DeliveryAborted(t) \/ DeliveryFailed(t) \/ Settled(t) \/ Awaits(t)
        \/ NextFrame(t) \/ ListDone(t) \/ GivesUp(t)
        \/ SendRaises(t) \/ SendStarts(t) \/ FrameAccepted(t) \/ SendEnds(t) \/ ReplyHeard(t)
    \/ ClientConnects \/ ClientDisconnects \/ LinkReportedLost

Spec == Init /\ [][Next]_vars

-----------------------------------------------------------------------------
(* Properties *)

\* What a call over the tunnel reports done was done: the charger accepted
\* every frame of it, and a request has the reply to its own frame, also when
\* earlier requests of the same register were given up (over Bluetooth such a
\* request may get their late replies: FreshAnswer of ChargerClient).
OkMeansHandled ==
    \A t \in Sender :
        at[t] = "idle" /\ ended[t] = "ok" =>
            /\ call[t].taken = Len(call[t].frames)
            /\ call[t].kind = "request" => call[t].answer = call[t].serial

\* Where only the tunnel, a drop or the timer can move a call on.
Waiting(t) ==
    \/ Woken(t) /\ ~SendDone(t) /\ call[t].fut # "error"
    \/ at[t] = "awaiting" /\ call[t].fut = "pending"

\* A drop that is reported ends what is in flight at once instead of leaving
\* it to its timer, also if the link is back before the call has noticed.
DropEndsCalls == \A t \in Sender : call[t].cut => ~Waiting(t)

-----------------------------------------------------------------------------
(* The inductive invariant *)

\* The lock has a call inside, and only its send is open.
HolderInv ==
    \A t \in Sender : /\ Inside(t) <=> holder = t
                      /\ pc[t] = "transfer" => at[t] = "sending" /\ call[t].begun

\* A call has a number of its own and frames; a transfer carries its frame.
CallInv ==
    \A t \in Sender :
        /\ call[t].serial <= calls
        /\ at[t] # "idle" => /\ call[t].serial # 0
                             /\ [kind |-> call[t].kind, frames |-> call[t].frames] \in Job
        /\ \A u \in Sender \ {t} : call[t].serial = call[u].serial => call[t].serial = 0
        /\ pc[t] = "transfer" => carries[t] = [of |-> call[t].serial, key |-> Frame(t)]

\* The charger has accepted the frames before the one in hand; and that one,
\* once its send says so.
Taken(t) == IF pc[t] = "transfer" THEN accepted[t] ELSE outcome[t] = "ok"
FrameInv ==
    \A t \in Sender :
        /\ at[t] = "queued" => call[t].hand = 0 /\ call[t].taken = 0
        /\ at[t] = "awaiting" => call[t].begun /\ outcome[t] = "ok" /\ call[t].kind = "request"
        /\ Inside(t) =>
             /\ call[t].hand \in 1..Len(call[t].frames)
             /\ call[t].fut # "none"
             /\ ~call[t].begun => call[t].taken = call[t].hand - 1
             /\ call[t].begun /\ pc[t] = "transfer" /\ ~accepted[t]
                  => call[t].taken = call[t].hand - 1
             /\ call[t].begun /\ Taken(t) => call[t].taken = call[t].hand

\* A future settled by a reply has the reply to the call's own frame, and is
\* the future of a request whose send is done; a drop leaves none pending.
FutureInv ==
    \A t \in Sender : Inside(t) =>
        /\ call[t].fut = "result" => /\ call[t].kind = "request" /\ SendDone(t)
                                     /\ outcome[t] = "ok" /\ call[t].answer = call[t].serial
        /\ call[t].cut => call[t].fut # "pending"

IInv == TypeOK /\ HolderInv /\ CallInv /\ FrameInv /\ FutureInv /\ OkMeansHandled
=============================================================================
