----------------------------- MODULE HistoryRead -----------------------------
(***************************************************************************)
(* async_get_history with its clock (charger.py): one caller's reads of    *)
(* the stored sessions, one after another, against a stream that has no    *)
(* end marker.  Time is counted in units; ChargerClient has the same read  *)
(* without time, among other calls.                                        *)
(*                                                                         *)
(* The charger is external: it streams its sessions newest first, may      *)
(* repeat what it sent, pauses as it likes, sends other records among them *)
(* and goes on when nobody reads any more.                                 *)
(***************************************************************************)
EXTENDS Integers, Sequences, FiniteSets

CONSTANTS Timeout,    \* the client's timeout, in units of time
          Idle,       \* BULK_IDLE_TIMEOUT
          Stored,     \* sessions a stream holds; 1 is the most recent
          MaxBulk,    \* bound: records kept of one read
          MaxReads    \* bound: reads in one behaviour

ASSUME TimesAssumption == Timeout \in Nat \ {0} /\ Idle \in Nat \ {0}
ASSUME StreamAssumption == Stored \in Nat /\ MaxBulk \in Nat /\ MaxReads \in Nat

VARIABLES
    pc,       \* where the read stands
    left,     \* time to its deadline
    wait,     \* time to the end of the wait for the next record
    event,    \* _bulk_event
    bulk,     \* _bulk
    reads,    \* reads begun so far
    next,     \* per read: the next session of its stream; 0 before there is one
    outcome,  \* how the last read ended
    result,   \* what it returned
    came,     \* records that came since the read began
    silence,  \* time since the last record, or since the frame was sent
    gap,      \* the longest such time in this read
    mixed     \* an earlier stream was still going on when this read began

vars == <<pc, left, wait, event, bulk, reads, next, outcome, result, came, silence, gap,
          mixed>>

\* An event record, or a session record with an impossible date.
Other == 0
Session == 1..Stored
Read == 1..MaxReads

TypeOK ==
    /\ pc \in {"idle", "sending", "collecting"}
    /\ left \in Int /\ wait \in Nat /\ silence \in Nat /\ gap \in Nat
    /\ event \in {"set", "clear"}
    /\ bulk \in Seq(Session \cup {Other}) /\ came \in Seq(Session \cup {Other})
    /\ reads \in 0..MaxReads
    /\ next \in [Read -> 0..Stored + 1]
    /\ outcome \in {"none", "ok", "error", "cancelled"}
    /\ result \in Seq(Session)
    /\ mixed \in BOOLEAN

Init ==
    /\ pc = "idle"
    /\ left = 0 /\ wait = 0 /\ silence = 0 /\ gap = 0
    /\ event = "clear"
    /\ bulk = <<>> /\ came = <<>>
    /\ reads = 0
    /\ next = [r \in Read |-> 0]
    /\ outcome = "none" /\ result = <<>>
    /\ mixed = FALSE

-----------------------------------------------------------------------------
(* The read *)

\* _bulk before the frame is sent, and after; the variant empties it then.
BulkEmptied == <<>>
BulkWhenSent == bulk

Begin ==
    /\ pc = "idle" /\ reads < MaxReads
    /\ reads' = reads + 1
    /\ pc' = "sending"
    /\ event' = "clear"
    /\ bulk' = BulkEmptied
    /\ came' = <<>>
    /\ mixed' = \E r \in Read : next[r] \in Session
    /\ UNCHANGED <<left, wait, next, outcome, result, silence, gap>>

\* The charger has the frame.
Reaches ==
    /\ pc = "sending" /\ next[reads] = 0
    /\ next' = [next EXCEPT ![reads] = 1]
    /\ UNCHANGED <<pc, left, wait, event, bulk, reads, outcome, result, came, silence, gap,
                   mixed>>

\* How long _collect_bulk waits for a record, with t to go to its deadline; the
\* variant looks at the idle gap only.
WaitIdle(t) == Idle
WaitFor(t) == IF t < Idle THEN t ELSE Idle

\* async_send returns: the deadline is set and the first wait begins.
Sent ==
    /\ pc = "sending" /\ next[reads] # 0
    /\ pc' = "collecting"
    /\ left' = Timeout
    /\ wait' = WaitFor(Timeout)
    /\ silence' = 0 /\ gap' = 0
    /\ bulk' = BulkWhenSent
    /\ UNCHANGED <<event, reads, next, outcome, result, came, mixed>>

\* The send fails or times out, the frame delivered or not, or the caller
\* gives up: _bulk is left as it is.
GivesUp ==
    /\ pc # "idle"
    /\ \E o \in {"error", "cancelled"} :
         /\ pc = "collecting" => o = "cancelled"
         /\ outcome' = o
    /\ pc' = "idle"
    /\ UNCHANGED <<left, wait, event, bulk, reads, next, result, came, silence, gap, mixed>>

\* The records left out: what does not decode and what came before.  One
\* variant compares neighbours, one leaves out repeats only.
SkipsNeighbour(b, i) == b[i] = Other \/ (i > 1 /\ b[i - 1] = b[i])
SkipsRepeats(b, i) == \E j \in 1..(i - 1) : b[j] = b[i]
Skips(b, i) == b[i] = Other \/ \E j \in 1..(i - 1) : b[j] = b[i]

Kept(b) == {i \in DOMAIN b : ~Skips(b, i)}

\* The k-th smallest of a set of numbers.
Nth(S, k) == CHOOSE i \in S : Cardinality({j \in S : j <= i}) = k

Decoded(b) == [k \in 1..Cardinality(Kept(b)) |-> b[Nth(Kept(b), k)]]

Finish ==
    /\ pc' = "idle"
    /\ outcome' = "ok"
    /\ result' = Decoded(bulk)
    /\ bulk' = <<>>
    /\ UNCHANGED <<left, wait, reads, next, came, silence, gap, mixed>>

\* The wait for a record once one has come; the variant lets the first wait
\* run on.
WaitRunsOn == wait
WaitAgain == WaitFor(left)

\* The event wakes _collect_bulk; past the deadline it is done.
Wakes ==
    /\ pc = "collecting" /\ event = "set" /\ left > 0
    /\ event' = "clear"
    /\ wait' = WaitAgain
    /\ UNCHANGED <<pc, left, bulk, reads, next, outcome, result, came, silence, gap, mixed>>

WakesPastDeadline ==
    /\ pc = "collecting" /\ event = "set" /\ left <= 0
    /\ event' = "clear"
    /\ Finish

\* The wait is over: an idle gap, or the deadline.
Quiet == pc = "collecting" /\ wait = 0 /\ Finish /\ UNCHANGED event

\* A unit of time passes; a task that can run does so first.
Tick ==
    /\ pc = "collecting" /\ event = "clear" /\ wait > 0
    /\ left' = left - 1 /\ wait' = wait - 1 /\ silence' = silence + 1
    /\ gap' = IF silence + 1 > gap THEN silence + 1 ELSE gap
    /\ UNCHANGED <<pc, event, bulk, reads, next, outcome, result, came, mixed>>

-----------------------------------------------------------------------------
(* The charger *)

\* _on_notify with a history record, whoever asked for it.
OnNotify(record) ==
    /\ Len(bulk) < MaxBulk /\ Len(came) < MaxBulk
    /\ bulk' = Append(bulk, record)
    /\ came' = IF pc = "idle" THEN came ELSE Append(came, record)
    /\ event' = "set"
    /\ silence' = 0
    /\ UNCHANGED <<pc, left, wait, reads, outcome, result, gap, mixed>>

Streams(r) ==
    /\ next[r] \in Session
    /\ OnNotify(next[r])
    /\ next' = [next EXCEPT ![r] = @ + 1]

\* A record sent before is repeated, or another kind comes between.
Strays(r) ==
    /\ next[r] \in Session
    /\ \E record \in {Other} \cup 1..(next[r] - 1) : OnNotify(record)
    /\ UNCHANGED next

\* The link drops: no stream goes on, and _on_disconnect sets the event.
Drops ==
    /\ next' = [r \in Read |-> IF next[r] = 0 THEN 0 ELSE Stored + 1]
    /\ event' = "set"
    /\ IF pc = "sending" THEN pc' = "idle" /\ outcome' = "error"
                         ELSE UNCHANGED <<pc, outcome>>
    /\ UNCHANGED <<left, wait, bulk, reads, result, came, silence, gap, mixed>>

Next ==
    \/ Begin \/ Reaches \/ Sent \/ GivesUp \/ Wakes \/ WakesPastDeadline \/ Quiet \/ Tick
    \/ \E r \in Read : Streams(r) \/ Strays(r)
    \/ Drops

Spec == Init /\ [][Next]_vars

-----------------------------------------------------------------------------
(* Properties *)

\* A stream that never pauses does not hold the lock past the deadline.
EndsByDeadline == pc = "collecting" => left >= 0

\* A read that returns.
Returns == pc = "collecting" /\ outcome' = "ok" /\ pc' = "idle"

\* A read leaves its stream while there is more to come only after an idle
\* gap or at its deadline, however the records and the drop of a link fall
\* among its waits.
CutOnlyBySilence ==
    [][Returns => \/ next[reads] > Stored
                  \/ gap >= Idle
                  \/ left <= 0]_vars

\* It returns every session that came while it was going on, also before its
\* own send had returned, and none from before; each once, in the order in
\* which each came first.
FirstAt(n) == CHOOSE i \in 1..Len(came) : came[i] = n /\ \A j \in 1..(i - 1) : came[j] # n
ResultIsWhatCame ==
    [][Returns =>
         /\ {result'[i] : i \in DOMAIN result'} = {came[i] : i \in DOMAIN came} \ {Other}
         /\ \A i, j \in DOMAIN result' :
              i < j => FirstAt(result'[i]) < FirstAt(result'[j])]_vars

\* What async_get_history says it returns: recent sessions, most recent first.
\* Only a read begun while the charger still goes on with the stream of a read
\* given up can mix the two.
MostRecentFirst ==
    pc = "idle" /\ outcome = "ok" /\ ~mixed =>
        \A i, j \in DOMAIN result : i < j => result[i] < result[j]
=============================================================================
