--------------------------- MODULE ChargerClient ---------------------------
(***************************************************************************)
(* The request engine of SpinEvCharger (charger.py): one asyncio.Lock, the *)
(* table of reply waiters, the set of abort futures, the history buffer,   *)
(* and the tasks that call into them.  Everything runs on one event loop,  *)
(* so an action is the code between two awaits of one task, one step of a  *)
(* send task, one callback of the transport, or one timer.                 *)
(*                                                                         *)
(* The transport is the one promised by transports/base.py: a send may     *)
(* return before or after the reply, fail, or hang; replies come in any    *)
(* order, late, or never; the link may drop at any moment.  Payloads are   *)
(* abstracted to the key the client matches them on, register and flag.    *)
(***************************************************************************)
EXTENDS Naturals, Sequences, FiniteSets

CONSTANTS Caller,       \* tasks that use one SpinEvCharger
          Register,     \* register numbers (byte 2 of a frame)
          Flag,         \* flag bytes (byte 3 of a frame)
          RequestKey,   \* keys sent through _request
          Setter,       \* the frame lists given to _write_frames, as keys
          HistoryKey,   \* keys of the streamed history reads, one per count
          SlowCancel,   \* TRUE: a cancelled send may await while unwinding
          MaxCalls,     \* bound: calls made in one behaviour
          None

Key == [reg : Register, flag : Flag]

ASSUME KeysAssumption ==
    /\ RequestKey \subseteq Key
    /\ HistoryKey \subseteq Key \ RequestKey
    /\ Setter \subseteq Seq(Key \ (RequestKey \cup HistoryKey))
    /\ <<>> \notin Setter
ASSUME BoundAssumption == MaxCalls \in Nat /\ SlowCancel \in BOOLEAN
ASSUME NoneAssumption ==
    /\ None \notin Caller
    /\ None \notin [who : Caller, flag : Flag]
    /\ None \notin [call : Nat, key : Key]

VARIABLES
    pc,        \* where each caller's task stands
    call,      \* what its current call holds in local variables and futures
    outcome,   \* how its last call ended
    lock,      \* holder of _lock
    queue,     \* tasks waiting for _lock, first come first served
    waiters,   \* _waiters: at most one waiter per register
    sends,     \* _sends: the callers whose abort future is registered
    strays,    \* abandoned sends still unwinding inside the transport
    bulk,      \* _bulk, with the call each record was received during
    bulkEvent, \* _bulk_event
    linkUp,    \* transport.is_connected
    owed,      \* frames that reached the charger and may still be answered
    tainted,   \* keys with a failed request on this link: a late reply may come
    calls      \* calls made so far, numbering them

vars == <<pc, call, outcome, lock, queue, waiters, sends, strays, bulk,
          bulkEvent, linkUp, owed, tainted, calls>>

Reply == [call : Nat, key : Key]

\* Calls the public methods make: one request, a list of writes, or a history read.
Job == [kind : {"request"}, frames : {<<k>> : k \in RequestKey}]
       \cup [kind : {"write"}, frames : Setter]
       \cup [kind : {"history"}, frames : {<<k>> : k \in HistoryKey}]

NoCall == [kind |-> "none", frames |-> <<>>, serial |-> 0, cancel |-> "no",
           fut |-> "none", answer |-> None, send |-> "none", cut |-> "no"]

\* frames: the frame in hand and those after it; fut: the reply future of a
\* request, the abort future of a write; send: the task around async_send;
\* cut: whether the link was lost since the frame in hand was begun.
CallState ==
    [kind : {"none", "request", "write", "history"}, frames : Seq(Key),
     serial : Nat, cancel : {"no", "timeout", "caller"},
     fut : {"none", "pending", "result", "error", "cancelled"},
     answer : Reply \cup {None},
     send : {"none", "scheduled", "inflight", "delivered", "ok", "failed",
             "cancelling", "cancelled"},
     cut : {"no", "dropped", "closed"}]

Inside == {"delivering", "finishing", "awaiting", "collecting"}

TypeOK ==
    /\ pc \in [Caller -> Inside \cup {"idle", "queued"}]
    /\ call \in [Caller -> CallState]
    /\ outcome \in [Caller -> {"none", "ok", "timeout", "error", "cancelled"}]
    /\ lock \in Caller \cup {None}
    /\ queue \in Seq(Caller)
    /\ waiters \in [Register -> [who : Caller, flag : Flag] \cup {None}]
    /\ sends \subseteq Caller
    /\ strays \subseteq Nat
    /\ bulk \subseteq [of : Nat, at : Nat]
    /\ bulkEvent \in BOOLEAN
    /\ linkUp \in BOOLEAN
    /\ owed \subseteq Reply
    /\ tainted \subseteq Key
    /\ calls \in Nat

Init ==
    /\ pc = [c \in Caller |-> "idle"]
    /\ call = [c \in Caller |-> NoCall]
    /\ outcome = [c \in Caller |-> "none"]
    /\ lock = None
    /\ queue = <<>>
    /\ waiters = [r \in Register |-> None]
    /\ sends = {}
    /\ strays = {}
    /\ bulk = {}
    /\ bulkEvent = FALSE
    /\ linkUp = FALSE
    /\ owed = {}
    /\ tainted = {}
    /\ calls = 0

-----------------------------------------------------------------------------
(* Entering and leaving a call *)

Frame(c) == Head(call[c].frames)
SendDone(c) == call[c].send \in {"ok", "failed", "cancelled"}
OwnAnswer(c) == call[c].answer # None /\ call[c].answer.call = call[c].serial

\* _bulk once the call s has begun; the variant does not empty it first.
BulkKept(s) == bulk
BulkAtStart(s) == IF s.kind = "history" THEN {} ELSE bulk

\* _waiters once c's call is over; the variant leaves the entry behind.
WaitersKept(c) == waiters
WaitersWithout(c) == IF call[c].kind = "request"
                     THEN [waiters EXCEPT ![Frame(c).reg] = None]
                     ELSE waiters

\* From the moment c holds the lock to its first await inside _deliver, for
\* the call described by s: a request registers its waiter, a write its abort,
\* a history read first empties the buffer; the send task is scheduled.
Enter(c, s) ==
    /\ lock' = c
    /\ pc' = [pc EXCEPT ![c] = "delivering"]
    /\ call' = [call EXCEPT ![c] = [s EXCEPT !.fut = "pending", !.send = "scheduled"]]
    /\ waiters' = IF s.kind = "request"
                  THEN [waiters EXCEPT ![Head(s.frames).reg] =
                            [who |-> c, flag |-> Head(s.frames).flag]]
                  ELSE waiters
    /\ sends' = IF s.kind = "request" THEN sends ELSE sends \cup {c}
    /\ bulk' = BulkAtStart(s)
    /\ bulkEvent' = (bulkEvent /\ s.kind # "history")
    /\ UNCHANGED <<outcome, strays, linkUp, owed, tainted>>

\* The finally clauses on the way out: the waiter or abort is removed and the
\* lock released.  A send still in flight was abandoned by _deliver.
Leave(c, o) ==
    /\ pc' = [pc EXCEPT ![c] = "idle"]
    /\ call' = [call EXCEPT ![c] = NoCall]
    /\ outcome' = [outcome EXCEPT ![c] = o]
    /\ lock' = None
    /\ waiters' = WaitersWithout(c)
    /\ sends' = sends \ {c}
    /\ strays' = IF SlowCancel /\ call[c].send \in {"inflight", "delivered"}
                 THEN strays \cup {call[c].serial}
                 ELSE strays
    /\ bulk' = IF call[c].kind = "history" /\ o = "ok" THEN {} ELSE bulk
    /\ tainted' = IF call[c].kind = "request" /\ call[c].cut = "no" /\ ~OwnAnswer(c)
                  THEN tainted \cup {Frame(c)}
                  ELSE tainted
    /\ UNCHANGED <<queue, bulkEvent, linkUp, owed, calls>>

\* How a cancelled call ends: its own timer becomes SpinEvTimeoutError.  The
\* variant reports the cancellation as it is.
CancelledRaw(c) == call[c].cancel
Cancelled(c) == IF call[c].cancel = "timeout" THEN "timeout" ELSE "cancelled"

-----------------------------------------------------------------------------
(* The callers' tasks *)

\* _require_transport finds the link down.
CallRefused(c) ==
    /\ pc[c] = "idle"
    /\ ~linkUp
    /\ outcome' = [outcome EXCEPT ![c] = "error"]
    /\ UNCHANGED <<pc, call, lock, queue, waiters, sends, strays, bulk,
                   bulkEvent, linkUp, owed, tainted, calls>>

NewCall(job) == [NoCall EXCEPT !.kind = job.kind, !.frames = job.frames,
                               !.serial = calls + 1]

\* The lock is free and nobody waits for it: acquiring it does not suspend.
\* The variant is a client without its lock.
Unlocked == queue = <<>>
Uncontended == lock = None /\ queue = <<>>

CallEnters(c, job) ==
    /\ pc[c] = "idle"
    /\ linkUp
    /\ calls < MaxCalls
    /\ Uncontended
    /\ calls' = calls + 1
    /\ Enter(c, NewCall(job))
    /\ UNCHANGED queue

CallQueues(c, job) ==
    /\ pc[c] = "idle"
    /\ linkUp
    /\ calls < MaxCalls
    /\ ~Uncontended
    /\ calls' = calls + 1
    /\ pc' = [pc EXCEPT ![c] = "queued"]
    /\ call' = [call EXCEPT ![c] = NewCall(job)]
    /\ queue' = Append(queue, c)
    /\ UNCHANGED <<outcome, lock, waiters, sends, strays, bulk, bulkEvent,
                   linkUp, owed, tainted>>

\* asyncio.Lock wakes its waiters in the order they came; the variant wakes
\* the latest.
LastInLine(c) == queue # <<>> /\ c = queue[Len(queue)]
NextInLine(c) == queue # <<>> /\ c = Head(queue)
QueueWithout(c) == LET i == CHOOSE n \in 1..Len(queue) : queue[n] = c
                   IN  SubSeq(queue, 1, i - 1) \o SubSeq(queue, i + 1, Len(queue))

\* The link is not looked at again: a frame for a link lost meanwhile fails
\* in async_send.
LockGranted(c) ==
    /\ lock = None
    /\ NextInLine(c)
    /\ queue' = QueueWithout(c)
    /\ Enter(c, call[c])
    /\ UNCHANGED calls

\* _deliver wakes up from asyncio.wait.  The send task's first step was put on
\* the loop before anything could wake the caller.
Woken(c) == pc[c] = "delivering" /\ call[c].send # "scheduled"

\* Cancelled by the timer or by the caller while waiting.
DeliveryCancelled(c) ==
    /\ Woken(c)
    /\ call[c].cancel # "no"
    /\ Leave(c, Cancelled(c))

\* The abort failed before the send completed: the send is abandoned.
DeliveryAborted(c) ==
    /\ Woken(c)
    /\ call[c].cancel = "no"
    /\ ~SendDone(c) /\ call[c].fut = "error"
    /\ Leave(c, "error")

\* The reply overtook the end of its own send: `await send`.
DeliveryAnswered(c) ==
    /\ Woken(c)
    /\ call[c].cancel = "no"
    /\ ~SendDone(c) /\ call[c].fut = "result"
    /\ pc' = [pc EXCEPT ![c] = "finishing"]
    /\ UNCHANGED <<call, outcome, lock, queue, waiters, sends, strays, bulk,
                   bulkEvent, linkUp, owed, tainted, calls>>

DeliveryFailed(c) ==
    /\ Woken(c)
    /\ call[c].cancel = "no"
    /\ call[c].send = "failed"
    /\ Leave(c, "error")

\* The send returned and a request's future is already settled.
DeliverySettled(c) ==
    /\ Woken(c)
    /\ call[c].cancel = "no"
    /\ call[c].send = "ok" /\ call[c].kind = "request"
    /\ call[c].fut \in {"result", "error"}
    /\ Leave(c, IF call[c].fut = "result" THEN "ok" ELSE "error")

\* `payload = await future`.
DeliveryAwaits(c) ==
    /\ Woken(c)
    /\ call[c].cancel = "no"
    /\ call[c].send = "ok" /\ call[c].kind = "request"
    /\ call[c].fut = "pending"
    /\ pc' = [pc EXCEPT ![c] = "awaiting"]
    /\ UNCHANGED <<call, outcome, lock, queue, waiters, sends, strays, bulk,
                   bulkEvent, linkUp, owed, tainted, calls>>

\* The variant of NextFrame keeps one abort for the whole list.
NextFrameSameAbort(c) ==
    /\ Woken(c)
    /\ call[c].cancel = "no"
    /\ call[c].send = "ok" /\ call[c].kind = "write"
    /\ Len(call[c].frames) > 1
    /\ call' = [call EXCEPT ![c] = [call[c] EXCEPT !.frames = Tail(@), !.send = "scheduled",
                                             !.cut = "no"]]
    /\ sends' = sends \cup {c}
    /\ UNCHANGED <<pc, outcome, lock, queue, waiters, strays, bulk, bulkEvent,
                   linkUp, owed, tainted, calls>>

\* This variant sends the frame in hand again.
NextFrameAgain(c) ==
    /\ Woken(c)
    /\ call[c].cancel = "no"
    /\ call[c].send = "ok" /\ call[c].kind = "write"
    /\ Len(call[c].frames) > 1
    /\ call' = [call EXCEPT ![c] = [call[c] EXCEPT !.fut = "pending", !.send = "scheduled",
                                             !.cut = "no"]]
    /\ sends' = sends \cup {c}
    /\ UNCHANGED <<pc, outcome, lock, queue, waiters, strays, bulk, bulkEvent,
                   linkUp, owed, tainted, calls>>

\* The next frame of a list: a new abort, a new deadline, a new send.
NextFrame(c) ==
    /\ Woken(c)
    /\ call[c].cancel = "no"
    /\ call[c].send = "ok" /\ call[c].kind = "write"
    /\ Len(call[c].frames) > 1
    /\ call' = [call EXCEPT ![c] = [call[c] EXCEPT !.frames = Tail(@), !.fut = "pending",
                                                   !.send = "scheduled", !.cut = "no"]]
    /\ sends' = sends \cup {c}
    /\ UNCHANGED <<pc, outcome, lock, queue, waiters, strays, bulk, bulkEvent,
                   linkUp, owed, tainted, calls>>

LastFrameSent(c) ==
    /\ Woken(c)
    /\ call[c].cancel = "no"
    /\ call[c].send = "ok" /\ call[c].kind = "write"
    /\ Len(call[c].frames) = 1
    /\ Leave(c, "ok")

\* async_get_history goes on to _collect_bulk; its abort is done with.
HistoryRequested(c) ==
    /\ Woken(c)
    /\ call[c].cancel = "no"
    /\ call[c].send = "ok" /\ call[c].kind = "history"
    /\ pc' = [pc EXCEPT ![c] = "collecting"]
    /\ call' = [call EXCEPT ![c].fut = "none"]
    /\ sends' = sends \ {c}
    /\ UNCHANGED <<outcome, lock, queue, waiters, strays, bulk, bulkEvent,
                   linkUp, owed, tainted, calls>>

ResumeFinishing(c) ==
    /\ pc[c] = "finishing"
    /\ SendDone(c)
    /\ Leave(c, IF call[c].cancel # "no" THEN Cancelled(c)
                ELSE IF call[c].send = "ok" THEN "ok" ELSE "error")

\* A cancellation that lands before the task resumes wins over the reply.
ResumeAwaiting(c) ==
    /\ pc[c] = "awaiting"
    /\ call[c].fut # "pending"
    /\ Leave(c, IF call[c].cancel # "no" THEN Cancelled(c)
                ELSE IF call[c].fut = "result" THEN "ok" ELSE "error")

\* _collect_bulk hears the event and waits for the next.
CollectWakes(c) ==
    /\ pc[c] = "collecting"
    /\ bulkEvent
    /\ bulkEvent' = FALSE
    /\ UNCHANGED <<pc, call, outcome, lock, queue, waiters, sends, strays, bulk,
                   linkUp, owed, tainted, calls>>

\* The idle gap or the deadline.
CollectEnds(c) ==
    /\ pc[c] = "collecting"
    /\ call[c].cancel = "no"
    /\ Leave(c, "ok")

CollectCancelled(c) ==
    /\ pc[c] = "collecting"
    /\ call[c].cancel = "caller"
    /\ Leave(c, "cancelled")

\* Task.cancel: relayed to the future or task being awaited, if it is pending.
Relay(c, why) ==
    call' = [call EXCEPT ![c] = [call[c] EXCEPT
        !.cancel = why,
        !.fut  = IF pc[c] = "awaiting" /\ call[c].fut = "pending"
                 THEN "cancelled" ELSE call[c].fut,
        !.send = IF pc[c] = "finishing" /\ call[c].send \in {"inflight", "delivered"}
                 THEN "cancelling" ELSE call[c].send]]

\* Where asyncio.timeout(self._timeout) is running; the variant bounds the
\* delivery only.
TimedDelivery == {"delivering", "finishing"}
Timed == {"delivering", "finishing", "awaiting"}

\* The timer expires.
TimerFires(c) ==
    /\ pc[c] \in Timed
    /\ call[c].cancel = "no"
    /\ Relay(c, "timeout")
    /\ UNCHANGED <<pc, outcome, lock, queue, waiters, sends, strays, bulk,
                   bulkEvent, linkUp, owed, tainted, calls>>

\* The application cancels a task inside a call; this outranks the timer.
CancelCall(c) ==
    /\ pc[c] \in Inside
    /\ call[c].cancel # "caller"
    /\ Relay(c, "caller")
    /\ UNCHANGED <<pc, outcome, lock, queue, waiters, sends, strays, bulk,
                   bulkEvent, linkUp, owed, tainted, calls>>

\* The application cancels a task that waits for the lock.
CancelQueued(c) ==
    /\ pc[c] = "queued"
    /\ pc' = [pc EXCEPT ![c] = "idle"]
    /\ call' = [call EXCEPT ![c] = NoCall]
    /\ outcome' = [outcome EXCEPT ![c] = "cancelled"]
    /\ queue' = QueueWithout(c)
    /\ UNCHANGED <<lock, waiters, sends, strays, bulk, bulkEvent, linkUp, owed,
                   tainted, calls>>

-----------------------------------------------------------------------------
(* The send tasks, inside the transport *)

SendStep(c, from, to) ==
    /\ call[c].send \in from
    /\ call' = [call EXCEPT ![c].send = to]
    /\ UNCHANGED <<pc, outcome, lock, queue, waiters, sends, strays, bulk,
                   bulkEvent, linkUp, tainted, calls>>

SendStarts(c) ==
    /\ SendStep(c, {"scheduled"},
                IF linkUp /\ call[c].cut = "no" THEN "inflight" ELSE "failed")
    /\ UNCHANGED owed

\* The frame reaches the charger, which may answer it from now on.
SendReaches(c) ==
    /\ call[c].cut = "no"
    /\ SendStep(c, {"inflight"}, "delivered")
    /\ owed' = owed \cup {[call |-> call[c].serial, key |-> Frame(c)]}

SendReturns(c) == SendStep(c, {"delivered"}, "ok") /\ UNCHANGED owed

SendFails(c) == SendStep(c, {"inflight", "delivered"}, "failed") /\ UNCHANGED owed

SendUnwinds(c) == SendStep(c, {"cancelling"}, "cancelled") /\ UNCHANGED owed

StrayEnds ==
    /\ \E n \in strays : strays' = strays \ {n}
    /\ UNCHANGED <<pc, call, outcome, lock, queue, waiters, sends, bulk,
                   bulkEvent, linkUp, owed, tainted, calls>>

-----------------------------------------------------------------------------
(* The transport's callbacks, and the link *)

\* Somebody waits for this reply; the variant compares the register only.
WaitsOnRegister(o) == waiters[o.key.reg] # None
Waits(o) == waiters[o.key.reg] # None /\ waiters[o.key.reg].flag = o.key.flag

\* _on_notify with a register reply somebody waits for.
ReplyMatched(o) ==
    /\ linkUp
    /\ o.key \notin HistoryKey /\ Waits(o)
    /\ owed' = owed \ {o}
    /\ waiters' = [waiters EXCEPT ![o.key.reg] = None]
    /\ LET c == waiters[o.key.reg].who IN
       call' = IF call[c].fut = "pending"
               THEN [call EXCEPT ![c] = [@ EXCEPT !.fut = "result", !.answer = o]]
               ELSE call
    /\ UNCHANGED <<pc, outcome, lock, queue, sends, strays, bulk, bulkEvent,
                   linkUp, tainted, calls>>

\* _on_notify with an echo or a late reply nobody waits for.
ReplyUnmatched(o) ==
    /\ linkUp
    /\ o.key \notin HistoryKey /\ ~Waits(o)
    /\ owed' = owed \ {o}
    /\ UNCHANGED <<pc, call, outcome, lock, queue, waiters, sends, strays, bulk,
                   bulkEvent, linkUp, tainted, calls>>

\* _on_notify with a history record; the stream may go on.
Record(o) ==
    /\ linkUp
    /\ o.key \in HistoryKey
    /\ bulk' = bulk \cup {[of |-> o.call,
                           at |-> IF lock = None THEN 0 ELSE call[lock].serial]}
    /\ bulkEvent' = TRUE
    /\ UNCHANGED <<pc, call, outcome, lock, queue, waiters, sends, strays,
                   linkUp, owed, tainted, calls>>

\* _on_disconnect finds c's future; the variant looks at the aborts only.
AbortRegistered(c) == c \in sends
Registered(c) == c \in sends \/ \E r \in Register : waiters[r] # None /\ waiters[r].who = c

\* The transport reports a drop, of the link or of one that was just being
\* opened: _on_disconnect.
Drop ==
    /\ linkUp' = FALSE
    /\ owed' = {} /\ tainted' = {}
    /\ call' = [c \in Caller |->
                 IF pc[c] \in Inside
                 THEN [call[c] EXCEPT
                         !.cut = "dropped",
                         !.fut = IF @ = "pending" /\ Registered(c) THEN "error" ELSE @]
                 ELSE call[c]]
    /\ waiters' = [r \in Register |-> None]
    /\ sends' = {}
    /\ bulkEvent' = TRUE
    /\ UNCHANGED <<pc, outcome, lock, queue, strays, bulk, calls>>

\* async_disconnect: no callback.  Bluetooth loses what was under way; a
\* DataTransfer of the tunnel goes on and may be answered after a reconnect.
Disconnect ==
    /\ linkUp
    /\ linkUp' = FALSE
    /\ \/ /\ owed' = {} /\ tainted' = {}
          /\ call' = [c \in Caller |-> IF pc[c] \in Inside
                                       THEN [call[c] EXCEPT !.cut = "closed"]
                                       ELSE call[c]]
       \/ UNCHANGED <<owed, tainted, call>>
    /\ UNCHANGED <<pc, outcome, lock, queue, waiters, sends, strays, bulk,
                   bulkEvent, calls>>

Connect ==
    /\ ~linkUp
    /\ linkUp' = TRUE
    /\ UNCHANGED <<pc, call, outcome, lock, queue, waiters, sends, strays, bulk,
                   bulkEvent, owed, tainted, calls>>

-----------------------------------------------------------------------------

\* What c's own task does when the loop runs it.
Step(c) ==
    \/ LockGranted(c)
    \/ DeliveryCancelled(c) \/ DeliveryAborted(c) \/ DeliveryAnswered(c)
    \/ DeliveryFailed(c) \/ DeliverySettled(c) \/ DeliveryAwaits(c)
    \/ NextFrame(c) \/ LastFrameSent(c) \/ HistoryRequested(c)
    \/ ResumeFinishing(c) \/ ResumeAwaiting(c)
    \/ CollectEnds(c) \/ CollectCancelled(c)

Next ==
    \/ \E c \in Caller :
        \/ CallRefused(c)
        \/ \E job \in Job : CallEnters(c, job) \/ CallQueues(c, job)
        \/ Step(c)
        \/ CollectWakes(c)
        \/ TimerFires(c) \/ CancelCall(c) \/ CancelQueued(c)
        \/ SendStarts(c) \/ SendReaches(c) \/ SendReturns(c) \/ SendFails(c)
        \/ SendUnwinds(c)
    \/ \E o \in owed : ReplyMatched(o) \/ ReplyUnmatched(o) \/ Record(o)
    \/ StrayEnds
    \/ Drop \/ Disconnect \/ Connect

Spec == Init /\ [][Next]_vars

\* The loop runs every task that is ready, every timer set fires, and a
\* cancelled send ends; nothing is assumed of the charger or the link.
Fairness == \A c \in Caller : /\ WF_vars(Step(c))
                              /\ WF_vars(TimerFires(c))
                              /\ WF_vars(SendStarts(c))
                              /\ WF_vars(SendUnwinds(c))

FairSpec == Spec /\ Fairness

-----------------------------------------------------------------------------
(* Properties *)

\* base.py promises a transport that async_send is never called while another
\* call of it is running.
OneSendInFlight ==
    Cardinality({c \in Caller : call[c].send \in {"inflight", "delivered", "cancelling"}})
    + Cardinality(strays) <= 1

\* Whatever way calls end, _waiters and _sends hold only what the call inside
\* the lock put there: no entry of a call that has returned is left to take a
\* later reply or to be failed by a later drop.
RegisteredByHolder ==
    /\ sends \subseteq {lock}
    /\ \A r \in Register :
         waiters[r] # None =>
            /\ waiters[r].who = lock
            /\ call[lock].kind = "request"
            /\ Frame(lock) = [reg |-> r, flag |-> waiters[r].flag]

\* A future somebody waits for is where a reply or a drop can find it; else
\* only the timer could end the wait.
NothingOrphaned ==
    \A c \in Caller :
        pc[c] \in {"delivering", "awaiting"} /\ call[c].fut = "pending" => Registered(c)

\* _on_disconnect completes every abort in _sends without looking whether it
\* is done ("Only this method completes an abort"); a done one would raise
\* InvalidStateError out of the transport's callback.
AbortsPending == \A c \in sends : call[c].fut = "pending"

\* An answer is the reply to the frame that was sent, register and flag, and
\* to this sending of it, unless a request of the same key has failed since
\* the link came up: then a late reply may answer the next one.
FreshAnswer ==
    [][\A c \in Caller :
         call[c].answer = None /\ call'[c].answer # None =>
            /\ call'[c].answer.key = Frame(c)
            /\ OwnAnswer(c)' \/ Frame(c) \in tainted]_vars

\* The records a history read returns came in during that read: those that
\* arrived earlier, or after an earlier read gave up, are not among them.
HistoryIsFresh ==
    \A c \in Caller :
        pc[c] \in Inside /\ call[c].kind = "history" =>
            \A r \in bulk : r.at = call[c].serial

\* A call can go on as soon as the loop runs it.
Ready(c) ==
    CASE pc[c] = "delivering" -> SendDone(c) \/ call[c].cancel # "no"
                                 \/ call[c].fut \in {"result", "error"}
      [] pc[c] = "finishing"  -> SendDone(c)
      [] pc[c] = "awaiting"   -> call[c].fut # "pending"
      [] OTHER                -> FALSE

\* A drop leaves no call waiting for a reply or for its send to be answered.
DropWakesWaiting ==
    \A c \in Caller :
        call[c].cut = "dropped" /\ pc[c] \in {"delivering", "awaiting"} => Ready(c)

\* What _on_disconnect says: anything in flight fails.  A history read that
\* is collecting when the link drops is in flight.
DropFailsHistory ==
    [][\A c \in Caller :
         pc[c] = "collecting" /\ pc'[c] = "idle" /\ call[c].cut = "dropped"
            => outcome'[c] # "ok"]_vars

\* What of its own, not the charger's or the link's, takes c's call further:
\* the loop, its send task, its timer, or its turn for the lock.
MovesOn(c) ==
    \/ Ready(c)
    \/ call[c].send \in {"scheduled", "cancelling"}
    \/ pc[c] \in Timed /\ call[c].cancel = "no"
    \/ pc[c] = "collecting" /\ call[c].cancel # "timeout"
    \/ pc[c] = "queued" /\ lock = None /\ NextInLine(c)

\* No call is left with nothing but the charger to wait for, at whatever await
\* a drop, a timer or a cancellation met it, nor waits for its turn behind one
\* that is.
NoCallStuck ==
    /\ \A c \in Caller : pc[c] \in Inside => MovesOn(c)
    /\ \A c \in Caller : pc[c] = "queued" => \E d \in Caller : MovesOn(d)

\* What a call inside the lock has still before it, at most: frames, the way of
\* a send, awaits, cancellations, a future to be settled.
SendLeft(s) == CASE s = "scheduled" -> 4 [] s = "inflight" -> 3 [] s = "delivered" -> 2
                 [] s = "cancelling" -> 1 [] OTHER -> 0
CancelLeft(w) == CASE w = "no" -> 2 [] w = "timeout" -> 1 [] OTHER -> 0
Work(p, s) == 6 * Len(s.frames) + SendLeft(s.send) + CancelLeft(s.cancel)
              + (IF p = "delivering" THEN 1 ELSE 0) + (IF s.fut = "pending" THEN 1 ELSE 0)

\* Whatever moves a call inside the lock brings it closer to its end: no frame
\* is sent twice, no await entered again, no cancellation undone.  So a call
\* moves a bounded number of times before it releases the lock.  A wake of
\* _collect_bulk does not move it; its deadline bounds those.
CallsWindDown ==
    [][\A c \in Caller : pc[c] \in Inside /\ pc'[c] \in Inside =>
         \/ Work(pc'[c], call'[c]) < Work(pc[c], call[c])
         \/ pc'[c] = pc[c] /\ call'[c] = [call[c] EXCEPT !.cut = call'[c].cut]]_vars

\* Every call returns, however long the line for the lock: each holder is
\* bounded by its timers and the lock is fair.
EveryCallReturns == \A c \in Caller : pc[c] # "idle" ~> pc[c] = "idle"

\* The engine seen from its callers, as CallService describes it.
Phase == [c \in Caller |-> CASE pc[c] = "idle"   -> "idle"
                             [] pc[c] = "queued" -> "waiting"
                             [] OTHER            -> "active"]

Service == INSTANCE CallService WITH phase <- Phase, line <- queue

\* One call at a time, in the order they asked, each ending once.
ServesInTurn == Service!Spec

-----------------------------------------------------------------------------
(* The inductive invariant *)

\* Exactly the caller inside a call holds the lock; exactly those that wait
\* are in the queue, each once.
LockInv ==
    /\ \A c \in Caller : pc[c] \in Inside <=> lock = c
    /\ \A c \in Caller : pc[c] = "queued" <=> \E i \in 1..Len(queue) : queue[i] = c
    /\ \A i, j \in 1..Len(queue) : queue[i] = queue[j] => i = j

\* What a call carries at each place it can stand.
CallInv ==
    \A c \in Caller :
        /\ pc[c] = "idle" => call[c] = NoCall
        /\ pc[c] = "queued" => /\ call[c].fut = "none" /\ call[c].send = "none"
                               /\ call[c].cut = "no" /\ call[c].cancel = "no"
                               /\ call[c].answer = None
        /\ pc[c] # "idle" =>
             /\ call[c].kind # "none" /\ call[c].frames # <<>>
             /\ call[c].kind = "request" => Frame(c) \in RequestKey
             /\ call[c].kind # "request" =>
                  \A i \in 1..Len(call[c].frames) : call[c].frames[i] \notin RequestKey
        /\ pc[c] = "delivering" => call[c].fut \in {"pending", "result", "error"}
        /\ pc[c] \in {"finishing", "awaiting"} => call[c].kind = "request"
        /\ call[c].fut = "result" \/ call[c].answer # None => call[c].kind = "request"

\* Aborts belong to writes under delivery.
SendsInv == \A c \in sends : /\ pc[c] = "delivering"
                             /\ call[c].kind # "request"
                             /\ call[c].fut = "pending"

\* A drop settles every future somebody waits for.
DropSettles ==
    \A c \in Caller :
        call[c].cut = "dropped" /\ pc[c] \in {"delivering", "awaiting"}
            => call[c].fut # "pending"

\* A reply still owed under a key without failures is the reply the caller
\* inside the lock is after, and has not got yet.
OwedInv ==
    \A o \in owed :
        o.key \in RequestKey \ tainted =>
            \E c \in Caller :
                /\ lock = c
                /\ o = [call |-> call[c].serial, key |-> Frame(c)]
                /\ call[c].send \notin {"scheduled", "inflight"}
                /\ call[c].cut = "no"
                /\ ~OwnAnswer(c)

\* A caller that has its own answer has nothing left to send.
AnsweredInv ==
    \A c \in Caller :
        OwnAnswer(c) /\ Frame(c) \notin tainted /\ call[c].cut = "no"
            => call[c].send \notin {"scheduled", "inflight"}

\* A call inside the lock has its send, begun once the call goes on from there;
\* a cancellation was relayed to what the task awaited, and the timer's does
\* not outlive the send.
RelayedInv ==
    \A c \in Caller :
        /\ pc[c] \in Inside => call[c].send # "none"
        /\ pc[c] \in Inside \ {"delivering"} => call[c].send # "scheduled"
        /\ pc[c] = "awaiting" /\ call[c].cancel # "no" => call[c].fut # "pending"
        /\ pc[c] = "finishing" /\ call[c].cancel # "no" =>
             call[c].send \notin {"inflight", "delivered"}
        /\ pc[c] = "collecting" => call[c].cancel # "timeout"

\* Where nothing is left to unwind, no send outlives its call.
StraysInv == SlowCancel \/ strays = {}

IInv ==
    /\ TypeOK
    /\ LockInv
    /\ CallInv
    /\ SendsInv
    /\ RegisteredByHolder
    /\ NothingOrphaned
    /\ DropSettles
    /\ HistoryIsFresh
    /\ OwedInv
    /\ AnsweredInv
    /\ RelayedInv
    /\ StraysInv
=============================================================================
