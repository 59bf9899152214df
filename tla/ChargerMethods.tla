--------------------------- MODULE ChargerMethods ---------------------------
(***************************************************************************)
(* The public methods of SpinEvCharger that take several requests, run by  *)
(* tasks against one charger: the current limit, the configuration setters *)
(* and their commit, start and stop, alarms and status.  ChargerClient     *)
(* shows that requests go one at a time; here a request is one step, at    *)
(* the moment the charger handles it, and a list of writes holds the lock  *)
(* from its first frame to its last.                                       *)
(*                                                                         *)
(* The charger is external: it opens and closes sessions, raises faults,   *)
(* refuses commands, answers late or never, holds what is written until a  *)
(* commit and restarts after one.                                          *)
(***************************************************************************)
EXTENDS Naturals, Sequences

CONSTANTS Task,      \* tasks that use the client
          Field,     \* configuration registers of the charger
          Group,     \* the field lists the setters write, as one list each
          Offered,   \* the calls the tasks may make
          Password,  \* what may be configured: see Known
          Moods,     \* states a session may change to by itself
          Faulty,    \* alarm banks in which a fault may rise
          MaxCalls,  \* bound: calls made in one behaviour
          None

Commit == "commit"
\* A password: the charger's, another, one that fits no control word, or none.
Known == {"right", "wrong", "unfit", None}
Call == [op : {"limit"}, inRange : BOOLEAN, allow : BOOLEAN, commit : BOOLEAN]
        \cup [op : {"set"}, frames : Group, commit : BOOLEAN]
        \cup [op : {"start", "stop", "alarms", "status"}]

ASSUME MethodsAssumption ==
    /\ Offered \subseteq Call
    /\ None \notin {"right", "wrong", "unfit"} /\ None \notin Task
    /\ Password \subseteq Known
    /\ Moods \subseteq {"available", "open", "unknown"}
    /\ Faulty \subseteq {"bank1", "bank2"}
    /\ MaxCalls \in Nat
\* A commit is a list of its own, and no field is in two lists.
ASSUME GroupsAssumption ==
    /\ Commit \notin Field
    /\ \A g \in Group : g = <<Commit>> \/ (g \in Seq(Field) /\ g # <<>>)
    /\ \A g, h \in Group : (\E i \in DOMAIN g, j \in DOMAIN h : g[i] = h[j]) => g = h

VARIABLES
    pc,       \* where each task stands in its method
    call,     \* the call it is making
    at,       \* the register it asks for
    seen,     \* what came back
    left,     \* frames of its list still to write
    outcome,  \* how its last call ended
    holder,   \* holder of _lock during a list of writes
    known,    \* _password
    linkUp,   \* transport.is_connected
    late,     \* per register and flag: the reply to a request given up on
    session,  \* the charger's state register
    faults,   \* alarm banks with a fault
    staged,   \* per field: the list that wrote what the charger holds
    applied,  \* per field: the list that wrote what is in effect
    restart,  \* a commit was received; the charger is about to restart
    stamps,   \* lists of writes begun so far, numbering them
    broken,   \* lists that failed or were cancelled part way
    calls,    \* calls made so far
    acted,    \* commands the charger has acted on
    log       \* what each task's call did and met with, for the properties

client == <<pc, call, at, seen, left, outcome, holder, known>>
charger == <<session, faults, staged, applied, restart>>
history == <<stamps, broken, calls, acted, log>>
vars == <<client, linkUp, late, charger, history>>

Register == {"state", "limit", "password", "control", "values", "bank1", "bank2"}
Sessions == {"available", "open", "unknown"}
Answers == Sessions \cup {"echo", "start", "stop", "refused", "clear", "fault", "right"}

\* did: what the charger did for the call; wasOpen: a session was open when it
\* read the state; stale: it took a late reply; stamp: its list; before, found,
\* silent: banks with a fault at its start, with a fault in its result, and
\* that did not answer.
NoLog == [did |-> {}, wasOpen |-> FALSE, stale |-> FALSE, stamp |-> 0,
          before |-> {}, found |-> {}, silent |-> {}]

TypeOK ==
    /\ pc \in [Task -> {"idle", "asking", "told", "line", "writing"}]
    /\ call \in [Task -> Offered \cup {None}]
    /\ at \in [Task -> Register \cup {None}]
    /\ seen \in [Task -> Answers \cup {"timeout", "error", None}]
    /\ left \in [Task -> Seq(Field \cup {Commit})]
    /\ outcome \in [Task -> {"none", "ok", "timeout", "error", "cancelled", "value",
                             "busy", "rejected", "protocol", "password"}]
    /\ holder \in Task \cup {None}
    /\ known \in Known
    /\ linkUp \in BOOLEAN
    /\ late \in [Register -> Answers \cup {None}]
    /\ session \in Sessions /\ faults \subseteq {"bank1", "bank2"}
    /\ staged \in [Field -> 0..stamps] /\ applied \in [Field -> 0..stamps]
    /\ restart \in BOOLEAN
    /\ stamps \in Nat /\ broken \subseteq 1..stamps /\ calls \in 0..MaxCalls
    /\ acted \subseteq {"start", "stop"}
    /\ log \in [Task -> [did : SUBSET (Register \cup {Commit}), wasOpen : BOOLEAN, stale : BOOLEAN,
                         stamp : 0..stamps, before : SUBSET {"bank1", "bank2"},
                         found : SUBSET {"bank1", "bank2"},
                         silent : SUBSET {"bank1", "bank2"}]]

Init ==
    /\ pc = [t \in Task |-> "idle"]
    /\ call = [t \in Task |-> None]
    /\ at = [t \in Task |-> None] /\ seen = [t \in Task |-> None]
    /\ left = [t \in Task |-> <<>>]
    /\ outcome = [t \in Task |-> "none"]
    /\ holder = None
    /\ known \in Password
    /\ linkUp = TRUE
    /\ late = [r \in Register |-> None]
    /\ session = "available" /\ faults = {}
    /\ staged = [f \in Field |-> 0] /\ applied = [f \in Field |-> 0]
    /\ restart = FALSE
    /\ stamps = 0 /\ broken = {} /\ calls = 0 /\ acted = {}
    /\ log = [t \in Task |-> NoLog]

-----------------------------------------------------------------------------
(* Steps methods are made of *)

\* Task t goes on to request register r.
Asks(t, r) ==
    /\ pc' = [pc EXCEPT ![t] = "asking"]
    /\ at' = [at EXCEPT ![t] = r]
    /\ seen' = [seen EXCEPT ![t] = None]
    /\ UNCHANGED <<left, outcome>>

\* It goes on to write a list of frames.
Writes(t, frames) ==
    /\ pc' = [pc EXCEPT ![t] = "line"]
    /\ left' = [left EXCEPT ![t] = frames]
    /\ at' = [at EXCEPT ![t] = None] /\ seen' = [seen EXCEPT ![t] = None]
    /\ UNCHANGED outcome

\* Its method returns or raises.
Ends(t, o) ==
    /\ pc' = [pc EXCEPT ![t] = "idle"]
    /\ at' = [at EXCEPT ![t] = None] /\ seen' = [seen EXCEPT ![t] = None]
    /\ left' = [left EXCEPT ![t] = <<>>]
    /\ outcome' = [outcome EXCEPT ![t] = o]

\* _write_frames looks at the link, then waits for the lock.
WriteFrames(t, frames) == IF linkUp THEN Writes(t, frames) ELSE Ends(t, "error")

\* _commit_if: the commit is a list of its own.  The variant forgets it.
CommitForgotten(t) == Ends(t, "ok")
CommitIf(t) == IF call[t].commit THEN WriteFrames(t, <<Commit>>) ELSE Ends(t, "ok")

\* The variant of the state check lets any state through.
NeverBusy(s) == FALSE
SessionOpen(s) == s = "open"

-----------------------------------------------------------------------------
(* Requests, and the charger's side of them *)

\* What the charger may answer, as it stands, to a request of t.  A command
\* it acts on is echoed; it refuses a wrong password, or as it sees fit.
Replies(t, r) ==
    CASE r = "state"    -> {session}
      [] r = "password" -> {"right"}
      [] r = "control"  -> {"refused"} \cup (IF known = "right" THEN {call[t].op} ELSE {})
      [] r \in {"bank1", "bank2"} -> {IF r \in faults THEN "fault" ELSE "clear"}
      [] OTHER          -> {"echo"}

\* The charger handles the request of t with reply v.
Handles(t, r, v) ==
    /\ session' = IF v = "start" THEN "open" ELSE IF v = "stop" THEN "available" ELSE session
    /\ acted' = acted \cup ({v} \cap {"start", "stop"})
    /\ UNCHANGED <<faults, staged, applied, restart>>

\* The task hears v; did: the charger handled the request and did not refuse.
Hears(t, v, did, stale) ==
    /\ pc' = [pc EXCEPT ![t] = "told"]
    /\ seen' = [seen EXCEPT ![t] = v]
    /\ log' = [log EXCEPT
                   ![t].did = IF did THEN @ \cup {at[t]} ELSE @,
                   ![t].wasOpen = IF at[t] = "state" THEN session = "open" ELSE @,
                   ![t].stale = @ \/ stale]
    /\ UNCHANGED <<call, at, left, outcome, holder, known, linkUp, stamps, broken, calls>>

\* One pass through _exchange, which waits while somebody writes a list.
Turn(t) == pc[t] = "asking" /\ holder = None

Answered(t) ==
    /\ Turn(t) /\ linkUp
    /\ \E v \in Replies(t, at[t]) :
         /\ Handles(t, at[t], v)
         /\ Hears(t, v, v # "refused", FALSE)
    /\ UNCHANGED late

\* The charger acts but its reply is late or lost.
NotAnswered(t) ==
    /\ Turn(t) /\ linkUp
    /\ \E v \in Replies(t, at[t]) :
         /\ Handles(t, at[t], v)
         /\ \E w \in {"timeout", "error"} : Hears(t, w, v # "refused", FALSE)
         /\ late' = [late EXCEPT ![at[t]] = v]

\* The reply to an earlier request of this register and flag, given up on,
\* arrives while this one waits: the waiter takes it.
AnsweredStale(t) ==
    /\ Turn(t) /\ linkUp
    /\ late[at[t]] # None
    /\ \E v \in Replies(t, at[t]) :
         /\ Handles(t, at[t], v)
         /\ Hears(t, late[at[t]], v # "refused", TRUE)
         /\ late' = [late EXCEPT ![at[t]] = v]

\* The frame never reaches the charger, or there is no link.
NotDelivered(t) ==
    /\ Turn(t)
    /\ \E w \in IF linkUp THEN {"timeout", "error"} ELSE {"error"} : Hears(t, w, FALSE, FALSE)
    /\ UNCHANGED <<late, charger, acted>>

-----------------------------------------------------------------------------
(* The methods *)

\* A method as far as its first request, its first write or its refusal.
Starts(t, c) ==
    IF c.op = "limit" /\ ~c.inRange THEN Ends(t, "value")
    ELSE IF c.op = "limit" /\ c.allow THEN Asks(t, "limit")
    ELSE IF c.op \in {"limit", "status"} THEN Asks(t, "state")
    ELSE IF c.op = "set" THEN WriteFrames(t, c.frames)
    ELSE IF c.op = "alarms" THEN Asks(t, "bank1")
    ELSE IF known = None THEN Asks(t, "password")
    ELSE IF known = "unfit" THEN Ends(t, "password")
    ELSE Asks(t, "control")

Begin(t, c) ==
    /\ pc[t] = "idle"
    /\ calls < MaxCalls
    /\ calls' = calls + 1
    /\ call' = [call EXCEPT ![t] = c]
    /\ log' = [log EXCEPT ![t] = [NoLog EXCEPT !.before = faults]]
    /\ Starts(t, c)
    /\ UNCHANGED <<holder, known, linkUp, late, charger, stamps, broken, acted>>

Told(t, r) == pc[t] = "told" /\ at[t] = r
Good(t) == seen[t] \notin {"timeout", "error"}

\* A failed request fails its method; the variant lets the other alarm bank
\* through as well.
AnyBank(t) == at[t] \in {"bank1", "bank2"} /\ seen[t] = "timeout"
SecondBank(t) == at[t] = "bank2" /\ seen[t] = "timeout"

Fails(t) ==
    /\ pc[t] = "told" /\ ~Good(t) /\ ~SecondBank(t)
    /\ Ends(t, seen[t])
    /\ UNCHANGED <<call, holder, known, linkUp, late, charger, history>>

\* async_set_current_limit has read the state.
LimitChecked(t) ==
    /\ Told(t, "state") /\ Good(t) /\ call[t].op = "limit"
    /\ IF SessionOpen(seen[t]) THEN Ends(t, "busy") ELSE Asks(t, "limit")
    /\ UNCHANGED <<call, holder, known, linkUp, late, charger, history>>

LimitWritten(t) ==
    /\ Told(t, "limit") /\ Good(t)
    /\ CommitIf(t)
    /\ UNCHANGED <<call, holder, known, linkUp, late, charger, history>>

\* _async_require_password keeps what it read.
PasswordRead(t) ==
    /\ Told(t, "password") /\ Good(t)
    /\ known' = "right"
    /\ Asks(t, "control")
    /\ UNCHANGED <<call, holder, linkUp, late, charger, history>>

\* check_control_reply: an echo of the command, a refusal, or another command.
\* One variant takes any reply that is no refusal, one hands the reply on.
VerdictUnread(t) == seen[t]
VerdictLoose(t) == IF seen[t] = "refused" THEN "rejected" ELSE "ok"
Verdict(t) == IF seen[t] = "refused" THEN "rejected"
              ELSE IF seen[t] = call[t].op THEN "ok" ELSE "protocol"

ControlAnswered(t) ==
    /\ Told(t, "control") /\ Good(t)
    /\ Ends(t, Verdict(t))
    /\ UNCHANGED <<call, holder, known, linkUp, late, charger, history>>

\* async_get_status: the state, the nine other registers, then the alarms.
StatusGoesOn(t) ==
    /\ pc[t] = "told" /\ call[t].op = "status" /\ Good(t)
    /\ \/ Told(t, "state") /\ Asks(t, "values")
       \/ Told(t, "values") /\ (Asks(t, "values") \/ Asks(t, "bank1"))
    /\ UNCHANGED <<call, holder, known, linkUp, late, charger, history>>

\* async_get_alarm_defs: bank 1, then bank 2, whose silence is no failure.
AlarmWordRead(t) ==
    /\ \/ Told(t, "bank1") /\ (Good(t) \/ SecondBank(t)) /\ Asks(t, "bank2")
       \/ Told(t, "bank2") /\ (Good(t) \/ SecondBank(t)) /\ Ends(t, "ok")
    /\ log' = [log EXCEPT
                   ![t].found = IF seen[t] = "fault" THEN @ \cup {at[t]} ELSE @,
                   ![t].silent = IF Good(t) THEN @ ELSE @ \cup {at[t]}]
    /\ UNCHANGED <<call, holder, known, linkUp, late, charger, stamps, broken, calls, acted>>

-----------------------------------------------------------------------------
(* Lists of writes *)

\* _write_frames holds the lock for the whole list; the variant for a frame.
HolderPerFrame(t) == None
HolderOfList(t) == t

ListBegins(t) ==
    /\ pc[t] = "line" /\ holder = None
    /\ pc' = [pc EXCEPT ![t] = "writing"]
    /\ holder' = HolderOfList(t)
    /\ stamps' = stamps + 1
    /\ log' = [log EXCEPT ![t].stamp = IF Head(left[t]) = Commit THEN @ ELSE stamps + 1]
    /\ UNCHANGED <<call, at, seen, left, outcome, known, linkUp, late, charger,
                   broken, calls, acted>>

\* The frame at the head of t's list reaches the charger.
Reaches(t) ==
    LET f == Head(left[t]) IN
    /\ staged' = IF f = Commit THEN staged ELSE [staged EXCEPT ![f] = log[t].stamp]
    /\ applied' = IF f = Commit THEN staged ELSE applied
    /\ restart' = (restart \/ f = Commit)
    /\ log' = [log EXCEPT ![t].did = IF f = Commit THEN @ \cup {Commit} ELSE @]
    /\ UNCHANGED <<session, faults>>

FrameWritten(t) ==
    /\ pc[t] = "writing" /\ linkUp
    /\ Reaches(t)
    /\ IF Len(left[t]) > 1
       THEN /\ left' = [left EXCEPT ![t] = Tail(@)]
            /\ UNCHANGED <<pc, at, seen, outcome, holder>>
       ELSE /\ holder' = None
            /\ IF Head(left[t]) # Commit THEN CommitIf(t) ELSE Ends(t, "ok")
    /\ UNCHANGED <<call, known, linkUp, late, stamps, broken, calls, acted>>

\* The lists left incomplete when t's stops here.
BrokenBy(t) == IF Head(left[t]) = Commit THEN broken ELSE broken \cup {log[t].stamp}

\* The write fails, times out or is cancelled, the frame delivered or not.
FrameFails(t) ==
    /\ pc[t] = "writing"
    /\ \/ linkUp /\ Reaches(t)
       \/ UNCHANGED <<charger, log>>
    /\ holder' = None
    /\ broken' = BrokenBy(t)
    /\ \E o \in {"error", "cancelled"} \cup (IF linkUp THEN {"timeout"} ELSE {}) : Ends(t, o)
    /\ UNCHANGED <<call, known, linkUp, late, stamps, calls, acted>>

\* The application cancels the task anywhere else.  A request it was on may have
\* been handled first (NotAnswered, then this).
Cancelled(t) ==
    /\ pc[t] \notin {"idle", "writing"}
    /\ Ends(t, "cancelled")
    /\ UNCHANGED <<call, holder, known, linkUp, late, charger, history>>

-----------------------------------------------------------------------------
(* The charger and the link *)

SessionChanges ==
    /\ session' \in Moods \ {session}
    /\ UNCHANGED <<client, linkUp, late, faults, staged, applied, restart, history>>

FaultRises ==
    /\ \E b \in Faulty \ faults : faults' = faults \cup {b}
    /\ UNCHANGED <<client, linkUp, late, session, staged, applied, restart, history>>

LinkDrops ==
    /\ linkUp
    /\ linkUp' = FALSE
    /\ late' = [r \in Register |-> None]
    /\ UNCHANGED <<client, charger, history>>

\* Some seconds after a commit; a session in progress ends.
Restarts ==
    /\ restart
    /\ restart' = FALSE
    /\ session' = "unknown"
    /\ linkUp' = FALSE
    /\ late' = [r \in Register |-> None]
    /\ UNCHANGED <<client, faults, staged, applied, history>>

Reconnects ==
    /\ ~linkUp
    /\ linkUp' = TRUE
    /\ UNCHANGED <<client, late, charger, history>>

Next ==
    \/ \E t \in Task :
        \/ \E c \in Offered : Begin(t, c)
        \/ Answered(t) \/ NotAnswered(t) \/ AnsweredStale(t) \/ NotDelivered(t)
        \/ Fails(t) \/ LimitChecked(t) \/ LimitWritten(t) \/ PasswordRead(t)
        \/ ControlAnswered(t) \/ StatusGoesOn(t) \/ AlarmWordRead(t)
        \/ ListBegins(t) \/ FrameWritten(t) \/ FrameFails(t) \/ Cancelled(t)
    \/ SessionChanges \/ FaultRises \/ LinkDrops \/ Restarts \/ Reconnects

Spec == Init /\ [][Next]_vars

-----------------------------------------------------------------------------
(* Properties *)

Done(t) == pc[t] = "idle" /\ call[t] # None

\* async_set_current_limit without allow_while_charging writes only if no
\* session was open when the charger answered its state read, however a stop,
\* a start or a vehicle interleaves; unless a late reply answered the read.
LimitAfterCheck ==
    \A t \in Task :
        "limit" \in log[t].did /\ ~call[t].allow /\ ~log[t].stale
            => "state" \in log[t].did /\ ~log[t].wasOpen

\* What a start or stop reports is true.  Done: the charger acted on such a
\* command, and on this one unless a late reply was taken for its own.
\* Rejected: it did not act on this one, late replies apart.  A reply to some
\* other command can only be a late one.
OutcomeTellsTruth ==
    \A t \in Task :
        Done(t) /\ call[t].op \in {"start", "stop"} =>
            LET did == "control" \in log[t].did IN
            /\ outcome[t] = "ok" => call[t].op \in acted /\ (did \/ log[t].stale)
            /\ outcome[t] = "rejected" => ~did \/ log[t].stale
            /\ outcome[t] = "protocol" => log[t].stale

\* A fault that was there before the call reaches the caller, also when
\* the second bank stays silent; a silent first bank fails the call.
FaultsReachCaller ==
    \A t \in Task :
        Done(t) /\ call[t].op \in {"alarms", "status"} /\ outcome[t] = "ok" /\ ~log[t].stale
            => /\ log[t].silent \subseteq {"bank2"}
               /\ log[t].before \subseteq log[t].found \cup log[t].silent

\* A commit puts a group of fields (SSID and password of a network, host and
\* port of a central system) into effect as one call wrote it, whoever sent
\* the commit and whatever else was written; unless a list broke off.
AppliedWhole ==
    \A g \in Group :
        LET written == {applied[f] : f \in {g[i] : i \in 1..Len(g)} \ {Commit}}
        IN  (\A m, n \in written : m = n) \/ written \cap broken # {}

\* A setter told to commit that returns has its values in effect, or values
\* somebody wrote after it.
OkMeansApplied ==
    \A t \in Task :
        Done(t) /\ call[t].op = "set" /\ call[t].commit /\ outcome[t] = "ok"
            => \A i \in 1..Len(call[t].frames) :
                 call[t].frames[i] # Commit => applied[call[t].frames[i]] >= log[t].stamp

-----------------------------------------------------------------------------
(* The abstract specification *)

\* The fields the list under way has still to write, with its number.
Unwritten == IF holder = None THEN {}
             ELSE {left[holder][i] : i \in DOMAIN left[holder]} \ {Commit}
ToWrite == [f \in Unwritten |-> log[holder].stamp]
AsWritten(f, stamp) == stamp

Promise == INSTANCE Configuration WITH Item <- Field, Image <- AsWritten,
                                       todo <- ToWrite, held <- staged, effect <- applied

\* Whatever the tasks call and wherever one is cancelled, the charger is
\* configured as if by one list after another, and never by a commit in the
\* middle of a list.
ConfiguresInTurn == Promise!Spec
=============================================================================
