------------------------ MODULE ChargerMethodsProofs ------------------------
(* What the public methods report and put into effect is so, for any number  *)
(* of tasks, fields and lists, and any charger.                              *)
EXTENDS ChargerMethods, TLAPS

-----------------------------------------------------------------------------
(* The inductive invariant: what each task has done at each await, and what  *)
(* the lists of writes leave in the charger.                                 *)

Bank == {"bank1", "bank2"}
Verdicts == {"ok", "timeout", "error", "cancelled", "value", "busy", "rejected", "protocol",
             "password"}
Awaiting(t) == pc[t] \in {"asking", "told"}

\* The methods that ask for a register.
AskedBy == [state |-> {"limit", "status"}, limit |-> {"limit"}, values |-> {"status"},
            password |-> {"start", "stop"}, control |-> {"start", "stop"},
            bank1 |-> {"alarms", "status"}, bank2 |-> {"alarms", "status"}]

Place(t) ==
    /\ pc[t] # "idle" => call[t] \in Offered
    /\ Awaiting(t) => at[t] \in Register /\ call[t].op \in AskedBy[at[t]]
    /\ pc[t] \in {"line", "writing"} => call[t].op \in {"limit", "set"}

LimitInv(t) ==
    /\ "limit" \in log[t].did \/ (Awaiting(t) /\ at[t] = "limit") =>
         call[t].allow \/ log[t].stale \/ ("state" \in log[t].did /\ ~log[t].wasOpen)
    /\ Awaiting(t) /\ at[t] = "state" => "limit" \notin log[t].did
    /\ pc[t] = "told" /\ at[t] = "state" /\ Good(t) /\ ~log[t].stale =>
         "state" \in log[t].did /\ (log[t].wasOpen <=> seen[t] = "open")

ControlInv(t) ==
    call[t] \in Offered /\ call[t].op \in {"start", "stop"} =>
        LET did == "control" \in log[t].did IN
        /\ pc[t] = "asking" \/ (pc[t] = "told" /\ at[t] = "password") => ~did
        /\ pc[t] = "told" /\ at[t] = "control" /\ Good(t) =>
             /\ seen[t] = "refused" \/ seen[t] \in acted
             /\ log[t].stale \/ (seen[t] = call[t].op /\ did) \/ (seen[t] = "refused" /\ ~did)
        /\ pc[t] = "idle" =>
             /\ outcome[t] = "ok" => call[t].op \in acted /\ (did \/ log[t].stale)
             /\ outcome[t] = "rejected" => ~did \/ log[t].stale
             /\ outcome[t] = "protocol" => log[t].stale

AlarmInv(t) ==
    call[t] \in Offered /\ call[t].op \in {"alarms", "status"} =>
        LET l == log[t] IN
        /\ l.before \subseteq faults
        /\ Awaiting(t) => l.silent = {}
        /\ Awaiting(t) /\ at[t] = "bank2" /\ "bank1" \in l.before => l.stale \/ "bank1" \in l.found
        /\ pc[t] = "told" /\ at[t] \in Bank /\ Good(t) /\ at[t] \in l.before =>
             l.stale \/ seen[t] = "fault"
        /\ pc[t] = "idle" /\ outcome[t] = "ok" /\ ~l.stale =>
             l.silent \subseteq {"bank2"} /\ l.before \subseteq l.found \cup l.silent

\* Task t has written the first of its list's frames, and no list is newer.
Written(t) == Len(call[t].frames) - Len(left[t])
Midway(t) ==
    LET g == call[t].frames IN
    /\ call[t].op = "set" /\ g \in Seq(Field) /\ g \in Group
    /\ Len(left[t]) \in 1..Len(g)
    /\ \A i \in 1..Len(left[t]) : left[t][i] = g[Written(t) + i]
    /\ \A i \in 1..Written(t) : staged[g[i]] = stamps
    /\ log[t].stamp = stamps /\ stamps # 0

ListInv(t) ==
    /\ pc[t] = "line" => left[t] = <<Commit>> \/ (call[t].op = "set" /\ left[t] = call[t].frames)
    /\ pc[t] = "writing" => left[t] = <<Commit>> \/ Midway(t)
    /\ call[t] \in Offered /\ call[t].op = "set" =>
         \A i \in 1..Len(call[t].frames) : call[t].frames[i] # Commit =>
           /\ pc[t] \in {"line", "writing"} /\ left[t] = <<Commit>> =>
                staged[call[t].frames[i]] >= log[t].stamp
           /\ pc[t] = "idle" /\ outcome[t] = "ok" /\ call[t].commit =>
                applied[call[t].frames[i]] >= log[t].stamp

TaskInv(t) == Place(t) /\ LimitInv(t) /\ ControlInv(t) /\ AlarmInv(t) /\ ListInv(t)

HolderInv == \A t \in Task : pc[t] = "writing" <=> holder = t
LateInv == late["control"] \in {None, "refused"} \cup acted
GrowInv == \A f \in Field : applied[f] <= staged[f]

\* A list of fields lies whole in the charger, or one that broke off shows in
\* it, or its writer is on the way through it.
InList(g) == {f \in Field : \E i \in DOMAIN g : g[i] = f}
WholeIn(m, g) == \/ \A e, f \in InList(g) : m[e] = m[f]
                 \/ \E f \in InList(g) : m[f] \in broken
Under(g) == \E t \in Task : /\ pc[t] = "writing" /\ left[t] # <<Commit>>
                            /\ call[t].frames = g /\ Len(left[t]) < Len(g)
WholeInv == \A g \in Group : (WholeIn(staged, g) \/ Under(g)) /\ WholeIn(applied, g)

IInv == TypeOK /\ (\A t \in Task : TaskInv(t)) /\ HolderInv /\ LateInv /\ GrowInv /\ WholeInv

-----------------------------------------------------------------------------
(* Calls and lists *)

LEMMA CallKinds ==
    ASSUME NEW c \in Offered
    PROVE  /\ c.op \in {"limit", "set", "start", "stop", "alarms", "status"}
           /\ c.op = "set" => c.frames \in Group
           /\ c.op = "limit" => c.inRange \in BOOLEAN /\ c.allow \in BOOLEAN
           /\ c.op \in {"limit", "set"} => c.commit \in BOOLEAN
  BY MethodsAssumption DEF Call

LEMMA GroupKinds ==
    ASSUME NEW g \in Group
    PROVE  /\ g \in Seq(Field \cup {Commit}) /\ g # <<>> /\ Len(g) \in Nat \ {0}
           /\ g = <<Commit>> \/ g \in Seq(Field)
           /\ g # <<Commit>> => g \in Seq(Field)
  <1>1. g = <<Commit>> \/ (g \in Seq(Field) /\ g # <<>>)
    BY GroupsAssumption
  <1>2. CASE g = <<Commit>>
    BY <1>2
  <1>3. CASE g \in Seq(Field) /\ g # <<>>
    <2>1. g \in Seq(Field \cup {Commit})
      BY <1>3
    <2> QED BY <1>3, <2>1
  <1> QED BY <1>1, <1>2, <1>3

\* Lists that share a field are one list.
LEMMA ListsApart ==
    ASSUME NEW g \in Group, NEW h \in Group, NEW f \in InList(g), f \in InList(h)
    PROVE  g = h
  <1>1. PICK i \in DOMAIN g, j \in DOMAIN h : g[i] = h[j]
    BY DEF InList
  <1> QED BY <1>1, GroupsAssumption

-----------------------------------------------------------------------------
(* The moves methods are made of *)

\* What a step leaves alone of a task.
Still(u) == /\ pc'[u] = pc[u] /\ at'[u] = at[u] /\ seen'[u] = seen[u]
            /\ left'[u] = left[u] /\ outcome'[u] = outcome[u]
Unmoved(u) == Still(u) /\ call'[u] = call[u] /\ log'[u] = log[u]

MovesTyped ==
    /\ pc \in [Task -> {"idle", "asking", "told", "line", "writing"}]
    /\ at \in [Task -> Register \cup {None}]
    /\ seen \in [Task -> Answers \cup {"timeout", "error", None}]
    /\ left \in [Task -> Seq(Field \cup {Commit})]
    /\ outcome \in [Task -> {"none"} \cup Verdicts]

Logged == [did : SUBSET (Register \cup {Commit}), wasOpen : BOOLEAN, stale : BOOLEAN,
           stamp : 0..stamps, before : SUBSET Bank, found : SUBSET Bank, silent : SUBSET Bank]
RestTyped ==
    /\ call \in [Task -> Offered \cup {None}]
    /\ holder \in Task \cup {None} /\ known \in Known /\ linkUp \in BOOLEAN
    /\ late \in [Register -> Answers \cup {None}]
    /\ session \in Sessions /\ faults \subseteq Bank
    /\ staged \in [Field -> 0..stamps] /\ applied \in [Field -> 0..stamps]
    /\ restart \in BOOLEAN
    /\ stamps \in Nat /\ broken \subseteq 1..stamps /\ calls \in 0..MaxCalls
    /\ acted \subseteq {"start", "stop"}
    /\ log \in [Task -> Logged]

LEMMA TypedHalves ==
    /\ TypeOK <=> MovesTyped /\ RestTyped
    /\ TypeOK' <=> MovesTyped' /\ RestTyped'
  <1>1. {"none"} \cup Verdicts = {"none", "ok", "timeout", "error", "cancelled", "value",
                                 "busy", "rejected", "protocol", "password"}
    BY DEF Verdicts
  <1> QED BY <1>1 DEF TypeOK, MovesTyped, RestTyped, Logged, Bank

LEMMA AsksMoves ==
    ASSUME MovesTyped, NEW t \in Task, NEW r \in Register, Asks(t, r)
    PROVE  /\ MovesTyped' /\ \A u \in Task \ {t} : Still(u)
           /\ pc'[t] = "asking" /\ at'[t] = r /\ outcome'[t] = outcome[t]
  BY DEF MovesTyped, Asks, Still

LEMMA WritesMoves ==
    ASSUME MovesTyped, NEW t \in Task, NEW frames \in Seq(Field \cup {Commit}), Writes(t, frames)
    PROVE  /\ MovesTyped' /\ \A u \in Task \ {t} : Still(u)
           /\ pc'[t] = "line" /\ left'[t] = frames /\ outcome'[t] = outcome[t]
  BY DEF MovesTyped, Writes, Still

LEMMA EndsMoves ==
    ASSUME MovesTyped, NEW t \in Task, NEW o \in Verdicts, Ends(t, o)
    PROVE  /\ MovesTyped' /\ \A u \in Task \ {t} : Still(u)
           /\ pc'[t] = "idle" /\ outcome'[t] = o
  <1>1. <<>> \in Seq(Field \cup {Commit})
    OBVIOUS
  <1> QED BY <1>1 DEF MovesTyped, Ends, Still

-----------------------------------------------------------------------------
(* What a step of one task leaves as it was *)

Grow == /\ acted \subseteq acted' /\ faults \subseteq faults'
        /\ \A f \in Field : staged[f] <= staged'[f] /\ applied[f] <= applied'[f]

LEMMA FieldsCounted ==
    ASSUME RestTyped, RestTyped', NEW u \in Task, NEW f \in Field
    PROVE  /\ staged[f] \in Nat /\ staged'[f] \in Nat /\ applied[f] \in Nat /\ applied'[f] \in Nat
           /\ log[u].stamp \in Nat
  <1>1. /\ stamps \in Nat /\ stamps' \in Nat /\ log[u] \in Logged
        /\ staged[f] \in 0..stamps /\ applied[f] \in 0..stamps
        /\ staged'[f] \in 0..stamps' /\ applied'[f] \in 0..stamps'
    BY DEF RestTyped
  <1> QED BY <1>1 DEF Logged

\* A task a step does not touch keeps its part, if it writes no list meanwhile
\* or the step writes none.
LEMMA UnmovedKeeps ==
    ASSUME RestTyped, RestTyped', NEW u \in Task, TaskInv(u), Unmoved(u), Grow,
           pc[u] = "writing" => staged' = staged /\ stamps' = stamps
    PROVE  TaskInv(u)'
  <1> USE DEF Unmoved, Still
  <1>1. Place(u)'
    BY DEF TaskInv, Place, Awaiting
  <1>2. LimitInv(u)'
    BY DEF TaskInv, LimitInv, Awaiting, Good
  <1>3. ControlInv(u)'
    BY DEF TaskInv, ControlInv, Good, Grow
  <1>4. AlarmInv(u)'
    BY DEF TaskInv, AlarmInv, Awaiting, Good, Grow
  <1>5. ListInv(u)'
    <2>1. pc'[u] = "writing" => left'[u] = <<Commit>> \/ Midway(u)'
      BY DEF TaskInv, ListInv, Midway, Written
    <2>2. pc'[u] = "line" =>
            left'[u] = <<Commit>> \/ (call'[u].op = "set" /\ left'[u] = call'[u].frames)
      BY DEF TaskInv, ListInv
    <2>3. ASSUME call[u] \in Offered, call[u].op = "set",
                 NEW i \in 1..Len(call[u].frames), call[u].frames[i] # Commit
          PROVE  /\ pc[u] \in {"line", "writing"} /\ left[u] = <<Commit>> =>
                      staged'[call[u].frames[i]] >= log[u].stamp
                 /\ pc[u] = "idle" /\ outcome[u] = "ok" /\ call[u].commit =>
                      applied'[call[u].frames[i]] >= log[u].stamp
      <3> DEFINE f == call[u].frames[i]
      <3>1. f \in Field
        <4>1. call[u].frames \in Group
          BY <2>3, CallKinds
        <4>2. call[u].frames \in Seq(Field \cup {Commit})
          BY <4>1, GroupKinds
        <4> QED BY <2>3, <4>2
      <3>2. /\ staged[f] \in Nat /\ staged'[f] \in Nat /\ applied[f] \in Nat /\ applied'[f] \in Nat
            /\ log[u].stamp \in Nat
        <4>1. RestTyped /\ RestTyped'
          OBVIOUS
        <4> QED BY ONLY <3>1, <4>1, u \in Task, FieldsCounted
      <3>3. staged[f] <= staged'[f] /\ applied[f] <= applied'[f]
        BY <3>1 DEF Grow
      <3>4. /\ pc[u] \in {"line", "writing"} /\ left[u] = <<Commit>> => staged[f] >= log[u].stamp
            /\ pc[u] = "idle" /\ outcome[u] = "ok" /\ call[u].commit => applied[f] >= log[u].stamp
        BY <2>3 DEF TaskInv, ListInv
      <3> HIDE DEF f
      <3>5. /\ pc[u] \in {"line", "writing"} /\ left[u] = <<Commit>> => staged'[f] >= log[u].stamp
            /\ pc[u] = "idle" /\ outcome[u] = "ok" /\ call[u].commit => applied'[f] >= log[u].stamp
        BY <3>2, <3>3, <3>4
      <3> QED BY <3>5 DEF f
    <2> QED BY <2>1, <2>2, <2>3 DEF ListInv
  <1> QED BY <1>1, <1>2, <1>3, <1>4, <1>5 DEF TaskInv

Lists == <<staged, applied, stamps, broken, holder>>

\* A step outside the lists keeps what is known of them.
LEMMA ListsKeep ==
    ASSUME HolderInv, GrowInv, WholeInv, UNCHANGED Lists,
           NEW t \in Task, pc[t] # "writing", pc'[t] # "writing",
           \A u \in Task \ {t} : Unmoved(u)
    PROVE  HolderInv' /\ GrowInv' /\ WholeInv'
  <1>1. HolderInv'
    <2> SUFFICES ASSUME NEW u \in Task PROVE pc'[u] = "writing" <=> holder' = u
      BY DEF HolderInv
    <2>1. u # t => pc'[u] = pc[u]
      BY DEF Unmoved, Still
    <2> QED BY <2>1 DEF HolderInv, Lists
  <1>2. GrowInv'
    BY DEF GrowInv, Lists
  <1>3. ASSUME NEW g \in Group, Under(g) PROVE Under(g)'
    <2>1. PICK u \in Task : /\ pc[u] = "writing" /\ left[u] # <<Commit>>
                            /\ call[u].frames = g /\ Len(left[u]) < Len(g)
      BY <1>3 DEF Under
    <2>2. Unmoved(u)
      BY <2>1
    <2> QED BY <2>1, <2>2 DEF Under, Unmoved, Still
  <1>4. WholeInv'
    BY <1>3 DEF WholeInv, WholeIn, Lists
  <1> QED BY <1>1, <1>2, <1>4

\* The step of a method between two awaits, or into one.
LEMMA MethodStep ==
    ASSUME IInv, MovesTyped', RestTyped', NEW t \in Task, pc[t] # "writing", pc'[t] # "writing",
           \A u \in Task \ {t} : Unmoved(u),
           UNCHANGED Lists, Grow, LateInv', TaskInv(t)'
    PROVE  IInv'
  <1>1. RestTyped /\ RestTyped' /\ TypeOK'
    BY TypedHalves DEF IInv
  <1>2. ASSUME NEW u \in Task PROVE TaskInv(u)'
    <2>1. CASE u = t
      BY <2>1
    <2>2. CASE u # t
      BY <1>1, <2>2, UnmovedKeeps DEF IInv, Lists
    <2> QED BY <2>1, <2>2
  <1>3. HolderInv' /\ GrowInv' /\ WholeInv'
    BY ListsKeep DEF IInv
  <1> QED BY <1>1, <1>2, <1>3 DEF IInv

LEMMA GrowSame ==
    ASSUME RestTyped, UNCHANGED <<staged, applied>>, acted \subseteq acted', faults \subseteq faults'
    PROVE  Grow
  <1>1. \A f \in Field : staged[f] \in Nat /\ applied[f] \in Nat
    BY DEF RestTyped
  <1> QED BY <1>1 DEF Grow

-----------------------------------------------------------------------------
(* The initial state, the charger and the link *)

LEMMA InitInv == Init => IInv
  <1> SUFFICES ASSUME Init PROVE IInv
    OBVIOUS
  <1>1. MovesTyped
    <2>1. <<>> \in Seq(Field \cup {Commit})
      OBVIOUS
    <2> QED BY <2>1 DEF Init, MovesTyped
  <1>2. RestTyped
    <2>1. NoLog \in [did : SUBSET (Register \cup {Commit}), wasOpen : BOOLEAN, stale : BOOLEAN,
                     stamp : 0..0, before : SUBSET Bank, found : SUBSET Bank, silent : SUBSET Bank]
      BY DEF NoLog
    <2> HIDE DEF NoLog
    <2>2. log \in [Task -> Logged]
      BY <2>1 DEF Init, Logged
    <2>3. staged \in [Field -> 0..stamps] /\ applied \in [Field -> 0..stamps]
      BY DEF Init
    <2>4. /\ call \in [Task -> Offered \cup {None}] /\ holder = None /\ linkUp = TRUE
          /\ late \in [Register -> Answers \cup {None}]
          /\ session \in Sessions /\ faults = {} /\ restart = FALSE
          /\ stamps = 0 /\ broken = {} /\ calls = 0 /\ acted = {}
      BY DEF Init, Sessions
    <2>5. known \in Known /\ calls \in 0..MaxCalls
      BY <2>4, MethodsAssumption DEF Init
    <2> QED BY <2>2, <2>3, <2>4, <2>5 DEF RestTyped
  <1>3. ASSUME NEW t \in Task PROVE TaskInv(t)
    <2>1. pc[t] = "idle" /\ outcome[t] = "none" /\ log[t] = NoLog /\ seen[t] = None
          /\ log[t].did = {} /\ log[t].before = {}
      BY DEF Init, NoLog
    <2> QED BY <2>1 DEF TaskInv, Place, LimitInv, ControlInv, AlarmInv, ListInv, Awaiting
  <1>4. HolderInv
    BY MethodsAssumption DEF Init, HolderInv
  <1>5. LateInv
    BY DEF Init, LateInv, Register
  <1>6. GrowInv /\ WholeInv
    BY DEF Init, GrowInv, WholeInv, WholeIn, InList
  <1> QED BY <1>1, <1>2, <1>3, <1>4, <1>5, <1>6, TypedHalves DEF IInv

\* A step of the charger or the link.
LEMMA OutsideKeeps ==
    ASSUME IInv, UNCHANGED <<client, staged, applied, history>>,
           linkUp' \in BOOLEAN, late' \in [Register -> Answers \cup {None}],
           session' \in Sessions, faults' \subseteq Bank, restart' \in BOOLEAN,
           faults \subseteq faults', late'["control"] \in {None, late["control"]}
    PROVE  IInv'
  <1>1. RestTyped /\ MovesTyped
    BY TypedHalves DEF IInv
  <1>2. /\ UNCHANGED <<pc, call, at, seen, left, outcome, holder, known>>
        /\ UNCHANGED <<staged, applied, stamps, broken, calls, acted, log>>
    BY DEF client, history
  <1>3. MovesTyped'
    BY <1>1, <1>2 DEF MovesTyped
  <1>4. RestTyped'
    BY <1>1, <1>2 DEF RestTyped, Logged
  <1>5. Grow
    BY <1>1, <1>2, GrowSame
  <1>6. ASSUME NEW u \in Task PROVE TaskInv(u)'
    <2>1. Unmoved(u)
      BY <1>2 DEF Unmoved, Still
    <2> QED BY <1>1, <1>2, <1>4, <1>5, <2>1, UnmovedKeeps DEF IInv
  <1>7. HolderInv' /\ GrowInv' /\ LateInv'
    BY <1>2 DEF IInv, HolderInv, GrowInv, LateInv
  <1>8. WholeInv'
    BY <1>2 DEF IInv, WholeInv, WholeIn, Under
  <1> QED BY <1>3, <1>4, <1>6, <1>7, <1>8, TypedHalves DEF IInv

LEMMA OutsideSteps ==
    ASSUME IInv, SessionChanges \/ FaultRises \/ LinkDrops \/ Restarts \/ Reconnects
    PROVE  IInv'
  <1>1. /\ linkUp \in BOOLEAN /\ late \in [Register -> Answers \cup {None}]
        /\ session \in Sessions /\ faults \subseteq Bank /\ restart \in BOOLEAN
    BY TypedHalves DEF IInv, RestTyped
  <1>2. CASE SessionChanges
    <2>1. session' \in Sessions
      BY <1>2, MethodsAssumption DEF SessionChanges, Sessions
    <2>2. UNCHANGED <<client, staged, applied, history>> /\ UNCHANGED <<linkUp, late, faults, restart>>
      BY <1>2 DEF SessionChanges
    <2> QED BY <1>1, <2>1, <2>2, OutsideKeeps
  <1>3. CASE FaultRises
    <2>1. faults' \subseteq Bank /\ faults \subseteq faults'
      BY <1>1, <1>3, MethodsAssumption DEF FaultRises, Bank
    <2>2. UNCHANGED <<client, staged, applied, history>> /\ UNCHANGED <<linkUp, late, session, restart>>
      BY <1>3 DEF FaultRises
    <2> QED BY <1>1, <2>1, <2>2, OutsideKeeps
  <1>4. CASE LinkDrops \/ Restarts
    <2>1. late' = [r \in Register |-> None]
      BY <1>4 DEF LinkDrops, Restarts
    <2>2. late' \in [Register -> Answers \cup {None}] /\ late'["control"] = None
      BY <2>1 DEF Register
    <2>3. session' \in Sessions /\ linkUp' \in BOOLEAN /\ restart' \in BOOLEAN
      BY <1>1, <1>4 DEF LinkDrops, Restarts, Sessions, charger
    <2>4. UNCHANGED <<client, staged, applied, history>> /\ UNCHANGED faults
      BY <1>4 DEF LinkDrops, Restarts, charger
    <2> QED BY <1>1, <2>2, <2>3, <2>4, OutsideKeeps
  <1>5. CASE Reconnects
    <2>1. linkUp' \in BOOLEAN /\ UNCHANGED <<client, staged, applied, history>>
          /\ UNCHANGED <<late, session, faults, restart>>
      BY <1>5 DEF Reconnects, charger
    <2> QED BY <1>1, <2>1, OutsideKeeps
  <1> QED BY <1>2, <1>3, <1>4, <1>5

-----------------------------------------------------------------------------
(* The steps of the methods *)

\* A method goes on after a request was answered, or gives up.
LEMMA GoesOn ==
    ASSUME IInv, MovesTyped', NEW t \in Task, pc[t] \in {"told", "asking", "line"},
           pc'[t] # "writing", \A u \in Task \ {t} : Still(u) /\ log'[u] = log[u],
           log' \in [Task -> Logged], known' \in Known,
           UNCHANGED <<call, holder, linkUp, late, charger, stamps, broken, calls, acted>>,
           TaskInv(t)'
    PROVE  IInv'
  <1>1. RestTyped
    BY TypedHalves DEF IInv
  <1>2. UNCHANGED <<session, faults, staged, applied, restart>>
    BY DEF charger
  <1>3. RestTyped'
    BY <1>1, <1>2 DEF RestTyped, Logged
  <1>4. Grow /\ LateInv' /\ UNCHANGED Lists
    BY <1>1, <1>2, GrowSame DEF IInv, LateInv, Lists
  <1>5. \A u \in Task \ {t} : Unmoved(u)
    BY DEF Unmoved
  <1> QED BY <1>3, <1>4, <1>5, MethodStep

\* Where it stands then, if it is to be answered again or is done.
LEMMA AsksPlace ==
    ASSUME NEW t \in Task, NEW r \in Register, pc'[t] = "asking", at'[t] = r,
           call'[t] \in Offered, call'[t].op \in AskedBy[r]
    PROVE  Place(t)' /\ ListInv(t)'
  BY DEF Place, ListInv, Awaiting

LEMMA EndsPlace ==
    ASSUME NEW t \in Task, pc'[t] = "idle", call'[t] \in Offered,
           call'[t].op = "set" => outcome'[t] # "ok" \/ ~call'[t].commit
    PROVE  Place(t)' /\ ListInv(t)'
  BY DEF Place, ListInv, Awaiting

\* A method that fails or is cancelled between two requests.
LEMMA StopsKeeps ==
    ASSUME IInv, NEW t \in Task, pc[t] \in {"told", "asking", "line"},
           NEW o \in Verdicts \ {"ok", "rejected", "protocol"}, Ends(t, o),
           UNCHANGED <<call, holder, known, linkUp, late, charger, history>>
    PROVE  IInv'
  <1>1. MovesTyped /\ RestTyped
    BY TypedHalves DEF IInv
  <1>2. /\ MovesTyped' /\ \A u \in Task \ {t} : Still(u)
        /\ pc'[t] = "idle" /\ outcome'[t] = o
    BY <1>1, EndsMoves
  <1>3. TaskInv(t) /\ call'[t] = call[t] /\ log'[t] = log[t] /\ faults' = faults /\ acted' = acted
    BY DEF IInv, charger, history
  <1>4. call[t] \in Offered
    BY <1>3 DEF TaskInv, Place
  <1>5. Place(t)' /\ ListInv(t)'
    BY <1>2, <1>3, <1>4, EndsPlace
  <1>6. LimitInv(t)'
    BY <1>2, <1>3 DEF TaskInv, LimitInv, Awaiting
  <1>7. ControlInv(t)'
    BY <1>2, <1>3 DEF ControlInv
  <1>8. AlarmInv(t)'
    BY <1>2, <1>3 DEF TaskInv, AlarmInv, Awaiting
  <1>9. log' = log /\ known' = known /\ UNCHANGED <<stamps, broken, calls, acted>>
    BY DEF history
  <1>10. log' \in [Task -> Logged] /\ known' \in Known
    BY <1>1, <1>9 DEF RestTyped
  <1>11. TaskInv(t)'
    BY <1>5, <1>6, <1>7, <1>8 DEF TaskInv
  <1> QED BY <1>2, <1>9, <1>10, <1>11, GoesOn

LEMMA FailsKeeps ==
    ASSUME IInv, NEW t \in Task, Fails(t)
    PROVE  IInv'
  <1>1. pc[t] = "told" /\ seen[t] \in {"timeout", "error"} /\ Ends(t, seen[t])
    BY DEF Fails, Good
  <1>2. seen[t] \in Verdicts \ {"ok", "rejected", "protocol"}
    BY <1>1 DEF Verdicts
  <1> QED BY <1>1, <1>2, StopsKeeps DEF Fails

LEMMA LimitCheckedKeeps ==
    ASSUME IInv, NEW t \in Task, LimitChecked(t)
    PROVE  IInv'
  <1>1. pc[t] = "told" /\ at[t] = "state" /\ Good(t) /\ call[t].op = "limit"
    BY DEF LimitChecked, Told
  <1>2. UNCHANGED <<call, holder, known, linkUp, late, charger, history>>
    BY DEF LimitChecked
  <1>3. MovesTyped /\ RestTyped /\ TaskInv(t) /\ "limit" \in Register /\ "busy" \in Verdicts
    BY TypedHalves DEF IInv, Verdicts, Register
  <1>4. /\ MovesTyped' /\ \A u \in Task \ {t} : Still(u)
        /\ \/ pc'[t] = "idle" /\ outcome'[t] = "busy"
           \/ pc'[t] = "asking" /\ at'[t] = "limit" /\ seen[t] # "open"
    BY <1>3, EndsMoves, AsksMoves DEF LimitChecked, SessionOpen
  <1>5. call'[t] = call[t] /\ log'[t] = log[t] /\ call[t] \in Offered
    BY <1>1, <1>2, <1>3 DEF history, TaskInv, Place
  <1>6. Place(t)' /\ ListInv(t)'
    <2>1. CASE pc'[t] = "idle"
      BY <1>1, <1>5, <2>1, EndsPlace
    <2>2. CASE pc'[t] = "asking" /\ at'[t] = "limit"
      BY <1>1, <1>3, <1>5, <2>2, AsksPlace DEF AskedBy
    <2> QED BY <1>4, <2>1, <2>2
  <1>7. LimitInv(t)'
    BY <1>1, <1>3, <1>4, <1>5 DEF TaskInv, LimitInv, Awaiting
  <1>8. ControlInv(t)' /\ AlarmInv(t)'
    BY <1>1, <1>5 DEF ControlInv, AlarmInv
  <1>9. log' = log /\ known' = known /\ UNCHANGED <<stamps, broken, calls, acted>>
    BY <1>2 DEF history
  <1>10. log' \in [Task -> Logged] /\ known' \in Known
    BY <1>3, <1>9 DEF RestTyped
  <1>11. TaskInv(t)' /\ pc'[t] # "writing"
    BY <1>4, <1>6, <1>7, <1>8 DEF TaskInv
  <1> QED BY <1>1, <1>2, <1>4, <1>9, <1>10, <1>11, GoesOn

\* The commit after a register or a list, if the call asks for it.
LEMMA CommitIfMoves ==
    ASSUME MovesTyped, NEW t \in Task, CommitIf(t)
    PROVE  /\ MovesTyped' /\ \A u \in Task \ {t} : Still(u)
           /\ \/ pc'[t] = "line" /\ left'[t] = <<Commit>>
              \/ pc'[t] = "idle" /\ outcome'[t] = "ok" /\ ~call[t].commit
              \/ pc'[t] = "idle" /\ outcome'[t] = "error" /\ ~linkUp
  <1>1. <<Commit>> \in Seq(Field \cup {Commit}) /\ "ok" \in Verdicts /\ "error" \in Verdicts
    BY DEF Verdicts
  <1> QED BY <1>1, WritesMoves, EndsMoves DEF CommitIf, WriteFrames

LEMMA LimitWrittenKeeps ==
    ASSUME IInv, NEW t \in Task, LimitWritten(t)
    PROVE  IInv'
  <1>1. pc[t] = "told" /\ at[t] = "limit" /\ CommitIf(t)
    BY DEF LimitWritten, Told
  <1>2. UNCHANGED <<call, holder, known, linkUp, late, charger, history>>
    BY DEF LimitWritten
  <1>3. MovesTyped /\ RestTyped /\ TaskInv(t)
    BY TypedHalves DEF IInv
  <1>4. call'[t] = call[t] /\ log'[t] = log[t] /\ call[t] \in Offered /\ call[t].op = "limit"
    BY <1>1, <1>2, <1>3 DEF history, TaskInv, Place, Awaiting, AskedBy
  <1>5. /\ MovesTyped' /\ \A u \in Task \ {t} : Still(u)
        /\ pc'[t] \in {"line", "idle"} /\ (pc'[t] = "line" => left'[t] = <<Commit>>)
    BY <1>1, <1>3, CommitIfMoves
  <1>6. Place(t)' /\ ListInv(t)'
    BY <1>4, <1>5 DEF Place, ListInv, Awaiting
  <1>7. LimitInv(t)'
    BY <1>3, <1>4, <1>5 DEF TaskInv, LimitInv, Awaiting
  <1>8. ControlInv(t)' /\ AlarmInv(t)'
    BY <1>4 DEF ControlInv, AlarmInv
  <1>9. log' = log /\ known' = known /\ UNCHANGED <<stamps, broken, calls, acted>>
    BY <1>2 DEF history
  <1>10. log' \in [Task -> Logged] /\ known' \in Known
    BY <1>3, <1>9 DEF RestTyped
  <1>11. TaskInv(t)' /\ pc'[t] # "writing"
    BY <1>5, <1>6, <1>7, <1>8 DEF TaskInv
  <1> QED BY <1>1, <1>2, <1>5, <1>9, <1>10, <1>11, GoesOn

LEMMA PasswordReadKeeps ==
    ASSUME IInv, NEW t \in Task, PasswordRead(t)
    PROVE  IInv'
  <1>1. pc[t] = "told" /\ at[t] = "password" /\ known' = "right" /\ Asks(t, "control")
    BY DEF PasswordRead, Told
  <1>2. UNCHANGED <<call, holder, linkUp, late, charger, history>>
    BY DEF PasswordRead
  <1>3. MovesTyped /\ RestTyped /\ TaskInv(t) /\ "control" \in Register
    BY TypedHalves DEF IInv, Register
  <1>4. /\ call'[t] = call[t] /\ log'[t] = log[t] /\ call[t] \in Offered
        /\ call[t].op \in {"start", "stop"}
    BY <1>1, <1>2, <1>3 DEF history, TaskInv, Place, Awaiting, AskedBy
  <1>5. /\ MovesTyped' /\ \A u \in Task \ {t} : Still(u)
        /\ pc'[t] = "asking" /\ at'[t] = "control"
    BY <1>1, <1>3, AsksMoves
  <1>6. Place(t)' /\ ListInv(t)'
    BY <1>3, <1>4, <1>5, AsksPlace DEF AskedBy
  <1>7. LimitInv(t)'
    BY <1>3, <1>4, <1>5 DEF TaskInv, LimitInv, Awaiting
  <1>8. ControlInv(t)'
    BY <1>1, <1>3, <1>4, <1>5 DEF TaskInv, ControlInv
  <1>9. AlarmInv(t)'
    BY <1>4 DEF AlarmInv
  <1>10. log' = log /\ UNCHANGED <<stamps, broken, calls, acted>>
    BY <1>2 DEF history
  <1>11. log' \in [Task -> Logged] /\ known' \in Known
    BY <1>1, <1>3, <1>10 DEF RestTyped, Known
  <1>12. TaskInv(t)'
    BY <1>6, <1>7, <1>8, <1>9 DEF TaskInv
  <1> QED BY <1>1, <1>2, <1>5, <1>10, <1>11, <1>12, GoesOn

LEMMA ControlAnsweredKeeps ==
    ASSUME IInv, NEW t \in Task, ControlAnswered(t)
    PROVE  IInv'
  <1>1. pc[t] = "told" /\ at[t] = "control" /\ Good(t) /\ Ends(t, Verdict(t))
    BY DEF ControlAnswered, Told
  <1>2. UNCHANGED <<call, holder, known, linkUp, late, charger, history>>
    BY DEF ControlAnswered
  <1>3. MovesTyped /\ RestTyped /\ TaskInv(t)
    BY TypedHalves DEF IInv
  <1>4. /\ call'[t] = call[t] /\ log'[t] = log[t] /\ acted' = acted /\ call[t] \in Offered
        /\ call[t].op \in {"start", "stop"}
    BY <1>1, <1>2, <1>3 DEF history, TaskInv, Place, Awaiting, AskedBy
  <1>5. Verdict(t) \in Verdicts
    BY DEF Verdict, Verdicts
  <1>6. /\ MovesTyped' /\ \A u \in Task \ {t} : Still(u)
        /\ pc'[t] = "idle" /\ outcome'[t] = Verdict(t)
    BY <1>1, <1>3, <1>5, EndsMoves
  <1>7. Place(t)' /\ ListInv(t)'
    BY <1>4, <1>6, EndsPlace
  <1>8. LimitInv(t)'
    BY <1>3, <1>4, <1>6 DEF TaskInv, LimitInv, Awaiting
  <1>9. ControlInv(t)'
    <2> DEFINE did == "control" \in log[t].did
    <2>1. /\ seen[t] = "refused" \/ seen[t] \in acted
          /\ log[t].stale \/ (seen[t] = call[t].op /\ did) \/ (seen[t] = "refused" /\ ~did)
      BY <1>1, <1>3, <1>4 DEF TaskInv, ControlInv
    <2>2. call[t].op # "refused"
      BY <1>4
    <2>3. /\ Verdict(t) = "ok" => call[t].op \in acted /\ (did \/ log[t].stale)
          /\ Verdict(t) = "rejected" => ~did \/ log[t].stale
          /\ Verdict(t) = "protocol" => log[t].stale
      BY <2>1, <2>2 DEF Verdict
    <2> QED BY <1>4, <1>6, <2>3 DEF ControlInv
  <1>10. AlarmInv(t)'
    BY <1>4 DEF AlarmInv
  <1>11. log' = log /\ known' = known /\ UNCHANGED <<stamps, broken, calls, acted>>
    BY <1>2 DEF history
  <1>12. log' \in [Task -> Logged] /\ known' \in Known
    BY <1>3, <1>11 DEF RestTyped
  <1>13. TaskInv(t)'
    BY <1>7, <1>8, <1>9, <1>10 DEF TaskInv
  <1> QED BY <1>1, <1>2, <1>6, <1>11, <1>12, <1>13, GoesOn

LEMMA StatusGoesOnKeeps ==
    ASSUME IInv, NEW t \in Task, StatusGoesOn(t)
    PROVE  IInv'
  <1>1. /\ pc[t] = "told" /\ call[t].op = "status"
        /\ Asks(t, "values") \/ Asks(t, "bank1")
    BY DEF StatusGoesOn
  <1>2. UNCHANGED <<call, holder, known, linkUp, late, charger, history>>
    BY DEF StatusGoesOn
  <1>3. MovesTyped /\ RestTyped /\ TaskInv(t) /\ {"values", "bank1"} \subseteq Register
    BY TypedHalves DEF IInv, Register
  <1>4. PICK r \in {"values", "bank1"} : Asks(t, r)
    BY <1>1
  <1>5. /\ call'[t] = call[t] /\ log'[t] = log[t] /\ faults' = faults /\ call[t] \in Offered
    BY <1>1, <1>2, <1>3 DEF history, charger, TaskInv, Place
  <1>6. /\ MovesTyped' /\ \A u \in Task \ {t} : Still(u)
        /\ pc'[t] = "asking" /\ at'[t] = r
    BY <1>3, <1>4, AsksMoves
  <1>7. Place(t)' /\ ListInv(t)'
    BY <1>1, <1>3, <1>5, <1>6, AsksPlace DEF AskedBy
  <1>8. LimitInv(t)'
    BY <1>3, <1>5, <1>6 DEF TaskInv, LimitInv, Awaiting
  <1>9. ControlInv(t)'
    BY <1>1, <1>5 DEF ControlInv
  <1>10. AlarmInv(t)'
    BY <1>1, <1>3, <1>5, <1>6 DEF TaskInv, AlarmInv, Awaiting
  <1>11. log' = log /\ known' = known /\ UNCHANGED <<stamps, broken, calls, acted>>
    BY <1>2 DEF history
  <1>12. log' \in [Task -> Logged] /\ known' \in Known
    BY <1>3, <1>11 DEF RestTyped
  <1>13. TaskInv(t)'
    BY <1>7, <1>8, <1>9, <1>10 DEF TaskInv
  <1> QED BY <1>1, <1>2, <1>6, <1>11, <1>12, <1>13, GoesOn

LEMMA AlarmWordReadKeeps ==
    ASSUME IInv, NEW t \in Task, AlarmWordRead(t)
    PROVE  IInv'
  <1> DEFINE l == log[t]
             found == IF seen[t] = "fault" THEN l.found \cup {at[t]} ELSE l.found
             silent == IF Good(t) THEN l.silent ELSE l.silent \cup {at[t]}
             new == [l EXCEPT !.found = found, !.silent = silent]
  <1>1. /\ pc[t] = "told" /\ at[t] \in Bank /\ (Good(t) \/ SecondBank(t))
        /\ \/ at[t] = "bank1" /\ Asks(t, "bank2")
           \/ at[t] = "bank2" /\ Ends(t, "ok")
    BY DEF AlarmWordRead, Told, Bank
  <1>2. UNCHANGED <<call, holder, known, linkUp, late, charger, stamps, broken, calls, acted>>
        /\ log' = [log EXCEPT ![t].found = found, ![t].silent = silent]
    BY DEF AlarmWordRead
  <1>3. MovesTyped /\ RestTyped /\ TaskInv(t) /\ "bank2" \in Register /\ "ok" \in Verdicts
    BY TypedHalves DEF IInv, Register, Verdicts
  <1>4. /\ MovesTyped' /\ \A u \in Task \ {t} : Still(u)
        /\ \/ at[t] = "bank1" /\ pc'[t] = "asking" /\ at'[t] = "bank2"
           \/ at[t] = "bank2" /\ pc'[t] = "idle"
    BY <1>1, <1>3, AsksMoves, EndsMoves
  <1>5. l \in Logged
    BY <1>3 DEF RestTyped
  <1>6. /\ new \in Logged /\ new.did = l.did /\ new.wasOpen = l.wasOpen /\ new.stale = l.stale
        /\ new.stamp = l.stamp /\ new.before = l.before
        /\ new.found = found /\ new.silent = silent
    <2>1. found \subseteq Bank /\ silent \subseteq Bank
      BY <1>1, <1>5 DEF Logged
    <2> HIDE DEF found, silent
    <2> QED BY <1>5, <2>1 DEF Logged
  <1> HIDE DEF new
  <1>7. log' \in [Task -> Logged] /\ log'[t] = new /\ \A u \in Task \ {t} : log'[u] = log[u]
    <2>1. log' = [log EXCEPT ![t] = new]
      BY <1>2, <1>3 DEF new, RestTyped
    <2> QED BY <1>3, <1>6, <2>1 DEF RestTyped
  <1>8. /\ call'[t] = call[t] /\ faults' = faults /\ call[t] \in Offered
        /\ call[t].op \in {"alarms", "status"}
    BY <1>1, <1>2, <1>3 DEF charger, TaskInv, Place, Awaiting, AskedBy, Bank
  <1>9. Place(t)' /\ ListInv(t)'
    BY <1>3, <1>4, <1>8, AsksPlace, EndsPlace DEF AskedBy
  <1>10. LimitInv(t)'
    BY <1>3, <1>4, <1>6, <1>7, <1>8 DEF TaskInv, LimitInv, Awaiting
  <1>11. ControlInv(t)'
    BY <1>8 DEF ControlInv
  <1>12. AlarmInv(t)'
    <2>1. /\ l.before \subseteq faults /\ l.silent = {} /\ l.before \subseteq Bank
          /\ at[t] = "bank2" /\ "bank1" \in l.before => l.stale \/ "bank1" \in l.found
          /\ Good(t) /\ at[t] \in l.before => l.stale \/ seen[t] = "fault"
      BY <1>1, <1>3, <1>5, <1>8 DEF TaskInv, AlarmInv, Awaiting, Logged
    <2>2. CASE at[t] = "bank1" /\ pc'[t] = "asking" /\ at'[t] = "bank2"
      <3>1. Good(t)
        BY <1>1, <2>2 DEF SecondBank
      <3> QED BY <1>6, <1>7, <1>8, <2>1, <2>2, <3>1 DEF AlarmInv, Awaiting
    <2>3. CASE at[t] = "bank2" /\ pc'[t] = "idle"
      <3>1. new.silent \subseteq {"bank2"}
        BY <1>6, <2>1, <2>3
      <3>2. l.stale \/ l.before \subseteq new.found \cup new.silent
        BY <1>6, <2>1, <2>3 DEF Bank
      <3> QED BY <1>6, <1>7, <1>8, <2>1, <2>3, <3>1, <3>2 DEF AlarmInv, Awaiting
    <2> QED BY <1>4, <2>2, <2>3
  <1>13. known' \in Known /\ pc'[t] # "writing"
    BY <1>2, <1>3, <1>4 DEF RestTyped
  <1>14. TaskInv(t)'
    BY <1>9, <1>10, <1>11, <1>12 DEF TaskInv
  <1> QED BY <1>1, <1>2, <1>4, <1>7, <1>13, <1>14, GoesOn

\* A call starts with an empty record.
LEMMA BeginKeeps ==
    ASSUME IInv, NEW t \in Task, NEW c \in Offered, Begin(t, c)
    PROVE  IInv'
  <1> DEFINE new == [NoLog EXCEPT !.before = faults]
  <1>1. /\ pc[t] = "idle" /\ calls < MaxCalls /\ calls' = calls + 1
        /\ call' = [call EXCEPT ![t] = c] /\ log' = [log EXCEPT ![t] = new] /\ Starts(t, c)
        /\ UNCHANGED <<holder, known, linkUp, late, stamps, broken, acted>>
        /\ UNCHANGED <<session, faults, staged, applied, restart>>
    BY DEF Begin, charger
  <1>2. MovesTyped /\ RestTyped
    BY TypedHalves DEF IInv
  <1>3. /\ new \in Logged /\ new.did = {} /\ new.before = faults /\ new.silent = {}
        /\ new.stamp = 0 /\ ~new.stale
    <2>1. faults \subseteq Bank /\ 0 \in 0..stamps
      BY <1>2 DEF RestTyped
    <2> QED BY <2>1 DEF NoLog, Logged
  <1> HIDE DEF new
  <1>4. /\ call' \in [Task -> Offered \cup {None}] /\ log' \in [Task -> Logged]
        /\ call'[t] = c /\ log'[t] = new
        /\ \A u \in Task \ {t} : call'[u] = call[u] /\ log'[u] = log[u]
    BY <1>1, <1>2, <1>3 DEF RestTyped
  <1>5. calls' \in 0..MaxCalls
    BY <1>1, <1>2, MethodsAssumption DEF RestTyped
  <1>6. RestTyped'
    BY <1>1, <1>2, <1>4, <1>5 DEF RestTyped, Logged
  <1>7. \/ \E o \in {"value", "error", "password"} :
              c.op \in {"limit", "set", "start", "stop"} /\ Ends(t, o)
        \/ c.op = "limit" /\ c.allow /\ Asks(t, "limit")
        \/ c.op \in {"limit", "status"} /\ Asks(t, "state")
        \/ c.op = "set" /\ Writes(t, c.frames)
        \/ c.op = "alarms" /\ Asks(t, "bank1")
        \/ c.op \in {"start", "stop"} /\ Asks(t, "password")
        \/ c.op \in {"start", "stop"} /\ Asks(t, "control")
    <2>1. c.op \in {"limit", "set", "start", "stop", "alarms", "status"}
      BY CallKinds
    <2> QED BY <1>1, <2>1 DEF Starts, WriteFrames
  <1>8. ASSUME NEW o \in {"value", "error", "password"}, Ends(t, o),
               c.op \in {"limit", "set", "start", "stop"}
        PROVE  IInv'
    <2>1. o \in Verdicts /\ o \notin {"ok", "rejected", "protocol"}
      BY <1>8 DEF Verdicts
    <2>2. /\ MovesTyped' /\ \A u \in Task \ {t} : Still(u)
          /\ pc'[t] = "idle" /\ outcome'[t] = o
      BY <1>2, <1>8, <2>1, EndsMoves
    <2>3. Place(t)' /\ ListInv(t)'
      BY <1>4, <1>8, <2>2, EndsPlace
    <2>4. LimitInv(t)' /\ ControlInv(t)' /\ AlarmInv(t)'
      BY <1>3, <1>4, <1>8, <2>1, <2>2 DEF LimitInv, ControlInv, AlarmInv, Awaiting
    <2>5. TaskInv(t)' /\ pc'[t] # "writing"
      BY <2>2, <2>3, <2>4 DEF TaskInv
    <2> QED BY <1>1, <1>2, <1>4, <1>6, <2>2, <2>5, GrowSame, MethodStep
            DEF IInv, LateInv, Lists, Unmoved
  <1>9. CASE c.op = "set" /\ Writes(t, c.frames)
    <2>1. c.frames \in Seq(Field \cup {Commit})
      BY <1>9, CallKinds, GroupKinds
    <2>2. /\ MovesTyped' /\ \A u \in Task \ {t} : Still(u)
          /\ pc'[t] = "line" /\ left'[t] = c.frames
      BY <1>2, <1>9, <2>1, WritesMoves
    <2>3. Place(t)'
      BY <1>4, <1>9, <2>2 DEF Place, Awaiting
    <2>4. ListInv(t)'
      <3>1. ASSUME NEW i \in 1..Len(c.frames), c.frames[i] # Commit
            PROVE  staged'[c.frames[i]] >= 0
        <4>1. c.frames[i] \in Field
          BY <2>1, <3>1
        <4>2. staged' \in [Field -> 0..stamps]
          BY <1>1, <1>2 DEF RestTyped
        <4> QED BY <4>1, <4>2
      <3> QED BY <1>3, <1>4, <1>9, <2>2, <3>1 DEF ListInv
    <2>5. LimitInv(t)' /\ ControlInv(t)' /\ AlarmInv(t)'
      BY <1>3, <1>4, <1>9, <2>2 DEF LimitInv, ControlInv, AlarmInv, Awaiting
    <2>6. TaskInv(t)' /\ pc'[t] # "writing"
      BY <2>2, <2>3, <2>4, <2>5 DEF TaskInv
    <2> QED BY <1>1, <1>2, <1>4, <1>6, <2>2, <2>6, GrowSame, MethodStep
            DEF IInv, LateInv, Lists, Unmoved
  <1>10. ASSUME NEW r \in Register, Asks(t, r), c.op \in AskedBy[r],
                r = "limit" => c.allow, r # "bank2"
         PROVE  IInv'
    <2>1. /\ MovesTyped' /\ \A u \in Task \ {t} : Still(u)
          /\ pc'[t] = "asking" /\ at'[t] = r
      BY <1>2, <1>10, AsksMoves
    <2>2. Place(t)' /\ ListInv(t)'
      BY <1>4, <1>10, <2>1, AsksPlace
    <2>3. LimitInv(t)' /\ ControlInv(t)' /\ AlarmInv(t)'
      BY <1>1, <1>3, <1>4, <1>10, <2>1 DEF LimitInv, ControlInv, AlarmInv, Awaiting
    <2>4. TaskInv(t)' /\ pc'[t] # "writing"
      BY <2>1, <2>2, <2>3 DEF TaskInv
    <2> QED BY <1>1, <1>2, <1>4, <1>6, <2>1, <2>4, GrowSame, MethodStep
            DEF IInv, LateInv, Lists, Unmoved
  <1>11. {"limit", "state", "bank1", "password", "control"} \subseteq Register
    BY DEF Register
  <1> QED BY <1>7, <1>8, <1>9, <1>10, <1>11 DEF AskedBy

-----------------------------------------------------------------------------
(* A request *)

\* What a task hears: an answer of the charger as it stands, a late one, or none.
LEMMA HearsKeeps ==
    ASSUME IInv, NEW t \in Task, Turn(t), NEW w \in Answers \cup {"timeout", "error"},
           NEW did \in BOOLEAN, NEW stale \in BOOLEAN, Hears(t, w, did, stale),
           acted \subseteq acted', acted' \subseteq {"start", "stop"}, session' \in Sessions,
           UNCHANGED <<faults, staged, applied, restart>>,
           late' \in [Register -> Answers \cup {None}], LateInv',
           at[t] = "control" /\ w \notin {"timeout", "error"} => w = "refused" \/ w \in acted',
           w \in {"timeout", "error"} \/ stale \/ (w \in Replies(t, at[t]) /\ (did <=> w # "refused"))
    PROVE  IInv'
  <1> DEFINE l == log[t]
             nowDid == IF did THEN l.did \cup {at[t]} ELSE l.did
             nowOpen == IF at[t] = "state" THEN session = "open" ELSE l.wasOpen
             new == [l EXCEPT !.did = nowDid, !.wasOpen = nowOpen, !.stale = l.stale \/ stale]
  <1>1. /\ pc[t] = "asking"
        /\ pc' = [pc EXCEPT ![t] = "told"] /\ seen' = [seen EXCEPT ![t] = w]
        /\ UNCHANGED <<call, at, left, outcome, holder, known, linkUp, stamps, broken, calls>>
        /\ log' = [log EXCEPT ![t].did = nowDid, ![t].wasOpen = nowOpen,
                              ![t].stale = l.stale \/ stale]
    BY DEF Hears, Turn
  <1>2. MovesTyped /\ RestTyped /\ TaskInv(t)
    BY TypedHalves DEF IInv
  <1>3. l \in Logged /\ call[t] \in Offered /\ at[t] \in Register /\ call[t].op \in AskedBy[at[t]]
    BY <1>1, <1>2 DEF RestTyped, TaskInv, Place, Awaiting
  <1>4. /\ new \in Logged /\ new.did = nowDid /\ new.wasOpen = nowOpen
        /\ (new.stale <=> l.stale \/ stale)
        /\ new.stamp = l.stamp /\ new.before = l.before
        /\ new.found = l.found /\ new.silent = l.silent
    <2>1. nowDid \in SUBSET (Register \cup {Commit}) /\ nowOpen \in BOOLEAN
          /\ (l.stale \/ stale) \in BOOLEAN
      BY <1>3 DEF Logged
    <2> HIDE DEF nowDid, nowOpen
    <2> QED BY <1>3, <2>1 DEF Logged
  <1>5. log' = [log EXCEPT ![t] = new]
    BY <1>1, <1>2 DEF RestTyped
  <1> HIDE DEF new
  <1>6. log' \in [Task -> Logged] /\ log'[t] = new /\ \A u \in Task \ {t} : log'[u] = log[u]
    BY <1>2, <1>4, <1>5 DEF RestTyped
  <1>7. /\ MovesTyped' /\ pc'[t] = "told" /\ seen'[t] = w /\ at'[t] = at[t] /\ left'[t] = left[t]
        /\ call'[t] = call[t]
        /\ \A u \in Task \ {t} : Still(u) /\ Unmoved(u)
    <2>1. MovesTyped' /\ pc'[t] = "told" /\ seen'[t] = w /\ at'[t] = at[t] /\ left'[t] = left[t]
          /\ call'[t] = call[t] /\ \A u \in Task \ {t} : Still(u)
      BY <1>1, <1>2 DEF MovesTyped, Still
    <2>2. \A u \in Task \ {t} : Unmoved(u)
      BY <1>1, <1>6, <2>1 DEF Unmoved
    <2> QED BY <2>1, <2>2
  <1>8. RestTyped'
    BY <1>1, <1>2, <1>6 DEF RestTyped, Logged
  <1>9. Grow /\ UNCHANGED Lists
    BY <1>1, <1>2, GrowSame DEF Lists
  <1>10. Place(t)' /\ ListInv(t)'
    BY <1>3, <1>7 DEF Place, ListInv, Awaiting
  <1>11. LimitInv(t)'
    <2>1. "limit" \in nowDid => "limit" \in l.did \/ at[t] = "limit"
      OBVIOUS
    <2>2. "limit" \in l.did \/ at[t] = "limit" =>
            call[t].allow \/ l.stale \/ ("state" \in l.did /\ ~l.wasOpen)
      BY <1>1, <1>2 DEF TaskInv, LimitInv, Awaiting
    <2>3. "state" \in l.did => "state" \in nowDid
      OBVIOUS
    <2>4. at[t] = "state" /\ w \notin {"timeout", "error"} /\ ~stale =>
            "state" \in nowDid /\ (nowOpen <=> w = "open")
      <3> SUFFICES ASSUME at[t] = "state", w \notin {"timeout", "error"}, ~stale
                   PROVE  "state" \in nowDid /\ (nowOpen <=> w = "open")
        OBVIOUS
      <3>1. w = session
        BY DEF Replies
      <3>2. w # "refused" /\ did
        BY <1>2, <3>1 DEF RestTyped, Sessions
      <3> QED BY <3>1, <3>2
    <2>5. at[t] = "state" => "limit" \notin nowDid
      BY <1>1, <1>2 DEF TaskInv, LimitInv, Awaiting
    <2>6. at[t] # "state" => nowOpen = l.wasOpen
      OBVIOUS
    <2>7. /\ "limit" \in nowDid \/ at[t] = "limit" =>
               call[t].allow \/ new.stale \/ ("state" \in nowDid /\ ~nowOpen)
      BY <1>4, <2>1, <2>2, <2>3, <2>5, <2>6
    <2> HIDE DEF nowDid, nowOpen
    <2> QED BY <1>4, <1>6, <1>7, <2>4, <2>5, <2>7 DEF LimitInv, Awaiting, Good
  <1>12. ControlInv(t)'
    <2> SUFFICES ASSUME call[t].op \in {"start", "stop"} PROVE ControlInv(t)'
      BY <1>7 DEF ControlInv
    <2>1. at[t] \in {"password", "control"} /\ "control" \notin l.did
      BY <1>1, <1>2, <1>3 DEF TaskInv, ControlInv, AskedBy, Register
    <2>2. at[t] = "password" => "control" \notin nowDid
      BY <2>1
    <2>3. at[t] = "control" => ("control" \in nowDid <=> did)
      BY <2>1
    <2>4. at[t] = "control" /\ w \notin {"timeout", "error"} /\ ~stale =>
            (w = call[t].op /\ did) \/ (w = "refused" /\ ~did)
      BY DEF Replies
    <2> QED BY <1>4, <1>6, <1>7, <2>1, <2>2, <2>3, <2>4 DEF ControlInv, Good
  <1>13. AlarmInv(t)'
    <2> SUFFICES ASSUME call[t].op \in {"alarms", "status"} PROVE AlarmInv(t)'
      BY <1>7 DEF AlarmInv
    <2>1. /\ l.before \subseteq faults /\ l.silent = {}
          /\ at[t] = "bank2" /\ "bank1" \in l.before => l.stale \/ "bank1" \in l.found
      BY <1>1, <1>2, <1>3 DEF TaskInv, AlarmInv, Awaiting
    <2>2. at[t] \in Bank /\ at[t] \in l.before /\ w \notin {"timeout", "error"} /\ ~stale =>
            w = "fault"
      BY <2>1 DEF Replies, Bank
    <2> QED BY <1>4, <1>6, <1>7, <2>1, <2>2 DEF AlarmInv, Awaiting, Good
  <1>14. TaskInv(t)'
    BY <1>10, <1>11, <1>12, <1>13 DEF TaskInv
  <1> QED BY <1>1, <1>7, <1>8, <1>9, <1>14, MethodStep

\* The charger's answer, and what handling the request does to it.
LEMMA HandlesIs ==
    ASSUME IInv, NEW t \in Task, Turn(t), NEW v \in Replies(t, at[t]), Handles(t, at[t], v)
    PROVE  /\ v \in Answers /\ (v # "refused") \in BOOLEAN
           /\ at[t] = "control" => v = "refused" \/ v \in acted'
           /\ acted \subseteq acted' /\ acted' \subseteq {"start", "stop"}
           /\ session' \in Sessions /\ UNCHANGED <<faults, staged, applied, restart>>
           /\ at[t] \in Register
  <1>1. /\ session \in Sessions /\ acted \subseteq {"start", "stop"}
        /\ at[t] \in Register /\ call[t].op \in AskedBy[at[t]]
    BY TypedHalves DEF IInv, RestTyped, TaskInv, Place, Awaiting, Turn
  <1>2. v \in Answers
    <2>1. at[t] = "control" => v \in {"refused", "start", "stop"}
      BY <1>1 DEF Replies, AskedBy
    <2>2. at[t] # "control" => v \in Sessions \cup {"right", "fault", "clear", "echo"}
      BY <1>1 DEF Replies, Register
    <2> QED BY <2>1, <2>2 DEF Answers
  <1>3. at[t] = "control" => v = "refused" \/ v \in {"start", "stop"}
    BY <1>1 DEF Replies, AskedBy
  <1>4. acted' = acted \cup ({v} \cap {"start", "stop"})
        /\ session' = (IF v = "start" THEN "open" ELSE IF v = "stop" THEN "available" ELSE session)
        /\ UNCHANGED <<faults, staged, applied, restart>>
    BY DEF Handles
  <1>5. session' \in Sessions
    BY <1>1, <1>4 DEF Sessions
  <1> QED BY <1>1, <1>2, <1>3, <1>4, <1>5

LEMMA RequestKeeps ==
    ASSUME IInv, NEW t \in Task,
           Answered(t) \/ NotAnswered(t) \/ AnsweredStale(t) \/ NotDelivered(t)
    PROVE  IInv'
  <1>1. /\ late \in [Register -> Answers \cup {None}] /\ LateInv
        /\ session \in Sessions /\ acted \subseteq {"start", "stop"}
    BY TypedHalves DEF IInv, RestTyped
  <1>2. CASE Answered(t)
    <2>1. PICK v \in Replies(t, at[t]) : /\ Handles(t, at[t], v) /\ Turn(t) /\ late' = late
                                         /\ Hears(t, v, v # "refused", FALSE)
      BY <1>2 DEF Answered
    <2>2. /\ v \in Answers /\ (v # "refused") \in BOOLEAN
          /\ at[t] = "control" => v = "refused" \/ v \in acted'
          /\ acted \subseteq acted' /\ acted' \subseteq {"start", "stop"}
          /\ session' \in Sessions /\ UNCHANGED <<faults, staged, applied, restart>>
      BY <2>1, HandlesIs
    <2>3. LateInv'
      BY <1>1, <2>1, <2>2 DEF LateInv
    <2> QED BY <1>1, <2>1, <2>2, <2>3, HearsKeeps
  <1>3. CASE NotAnswered(t)
    <2>1. PICK v \in Replies(t, at[t]), w \in {"timeout", "error"} :
            /\ Handles(t, at[t], v) /\ Turn(t) /\ late' = [late EXCEPT ![at[t]] = v]
            /\ Hears(t, w, v # "refused", FALSE)
      BY <1>3 DEF NotAnswered
    <2>2. /\ v \in Answers /\ (v # "refused") \in BOOLEAN
          /\ at[t] = "control" => v = "refused" \/ v \in acted'
          /\ acted \subseteq acted' /\ acted' \subseteq {"start", "stop"}
          /\ session' \in Sessions /\ UNCHANGED <<faults, staged, applied, restart>>
          /\ at[t] \in Register
      BY <2>1, HandlesIs
    <2>3. late' \in [Register -> Answers \cup {None}] /\ LateInv'
      <3>1. late'["control"] = IF at[t] = "control" THEN v ELSE late["control"]
        BY <1>1, <2>1 DEF Register
      <3> QED BY <1>1, <2>1, <2>2, <3>1 DEF LateInv
    <2> QED BY <2>1, <2>2, <2>3, HearsKeeps
  <1>4. CASE AnsweredStale(t)
    <2> DEFINE w == late[at[t]]
    <2>1. PICK v \in Replies(t, at[t]) :
            /\ Handles(t, at[t], v) /\ Turn(t) /\ late' = [late EXCEPT ![at[t]] = v]
            /\ Hears(t, w, v # "refused", TRUE) /\ w # None
      BY <1>4 DEF AnsweredStale
    <2>2. /\ v \in Answers /\ (v # "refused") \in BOOLEAN
          /\ at[t] = "control" => v = "refused" \/ v \in acted'
          /\ acted \subseteq acted' /\ acted' \subseteq {"start", "stop"}
          /\ session' \in Sessions /\ UNCHANGED <<faults, staged, applied, restart>>
          /\ at[t] \in Register
      BY <2>1, HandlesIs
    <2>3. late' \in [Register -> Answers \cup {None}] /\ LateInv'
      <3>1. late'["control"] = IF at[t] = "control" THEN v ELSE late["control"]
        BY <1>1, <2>1 DEF Register
      <3> QED BY <1>1, <2>1, <2>2, <3>1 DEF LateInv
    <2>4. w \in Answers /\ (at[t] = "control" => w = "refused" \/ w \in acted')
      BY <1>1, <2>1, <2>2 DEF LateInv
    <2> HIDE DEF w
    <2> QED BY <2>1, <2>2, <2>3, <2>4, HearsKeeps
  <1>5. CASE NotDelivered(t)
    <2>1. PICK w \in {"timeout", "error"} :
            /\ Turn(t) /\ Hears(t, w, FALSE, FALSE) /\ late' = late /\ acted' = acted
            /\ UNCHANGED <<session, faults, staged, applied, restart>>
      BY <1>5 DEF NotDelivered, charger
    <2>2. LateInv'
      BY <1>1, <2>1 DEF LateInv
    <2> QED BY <1>1, <2>1, <2>2, HearsKeeps
  <1> QED BY <1>2, <1>3, <1>4, <1>5

-----------------------------------------------------------------------------
(* Lists of writes *)

LEMMA OneWriter ==
    ASSUME HolderInv, NEW t \in Task, pc[t] = "writing"
    PROVE  /\ \A u \in Task \ {t} : pc[u] # "writing"
           /\ \A g \in Group : Under(g) => /\ left[t] # <<Commit>> /\ call[t].frames = g
                                           /\ Len(left[t]) < Len(g)
  BY DEF HolderInv, Under

LEMMA StagedWholeKeeps ==
    ASSUME NEW g \in Group, WholeIn(staged, g), broken \subseteq broken',
           \A f \in InList(g) : staged'[f] = staged[f]
    PROVE  WholeIn(staged, g)'
  BY DEF WholeIn, InList

LEMMA AppliedWholeKeeps ==
    ASSUME NEW g \in Group, WholeIn(applied, g), broken \subseteq broken', applied' = applied
    PROVE  WholeIn(applied, g)'
  BY DEF WholeIn, InList

LEMMA ListBeginsKeeps ==
    ASSUME IInv, NEW t \in Task, ListBegins(t)
    PROVE  IInv'
  <1>1. /\ pc[t] = "line" /\ holder = None /\ pc' = [pc EXCEPT ![t] = "writing"]
        /\ holder' = t /\ stamps' = stamps + 1
        /\ log' = [log EXCEPT ![t].stamp = IF Head(left[t]) = Commit THEN @ ELSE stamps + 1]
        /\ UNCHANGED <<call, at, seen, left, outcome, known, linkUp, late>>
        /\ UNCHANGED <<session, faults, staged, applied, restart, broken, calls, acted>>
    BY DEF ListBegins, HolderOfList, charger
  <1>2. MovesTyped /\ RestTyped /\ TaskInv(t)
    BY TypedHalves DEF IInv
  <1>3. call[t] \in Offered /\ call[t].op \in {"limit", "set"} /\ log[t] \in Logged /\ stamps \in Nat
    BY <1>1, <1>2 DEF TaskInv, Place, RestTyped
  <1> DEFINE stamp == IF Head(left[t]) = Commit THEN log[t].stamp ELSE stamps + 1
             new == [log[t] EXCEPT !.stamp = stamp]
  <1>4. /\ new.did = log[t].did /\ new.wasOpen = log[t].wasOpen /\ new.stale = log[t].stale
        /\ new.before = log[t].before /\ new.found = log[t].found /\ new.silent = log[t].silent
        /\ new.stamp = stamp /\ stamp \in 0..stamps'
        /\ new \in Logged'
    <2>1. stamp \in 0..stamps'
      BY <1>1, <1>3 DEF Logged
    <2> HIDE DEF stamp
    <2> QED BY <1>3, <2>1 DEF Logged
  <1>5. log' = [log EXCEPT ![t] = new]
    BY <1>1, <1>2 DEF RestTyped
  <1> HIDE DEF new
  <1>6. Logged \subseteq Logged'
    BY <1>1, <1>3 DEF Logged
  <1>7. log' \in [Task -> Logged'] /\ log'[t] = new /\ \A u \in Task \ {t} : log'[u] = log[u]
    BY <1>2, <1>4, <1>5, <1>6 DEF RestTyped
  <1>8. RestTyped'
    <2>1. /\ staged' \in [Field -> 0..stamps'] /\ applied' \in [Field -> 0..stamps']
          /\ broken' \subseteq 1..stamps' /\ stamps' \in Nat
      <3>1. 0..stamps \subseteq 0..stamps' /\ 1..stamps \subseteq 1..stamps' /\ stamps' \in Nat
        BY <1>1, <1>3
      <3> QED BY <1>1, <1>2, <3>1 DEF RestTyped
    <2>2. holder' \in Task \cup {None}
      BY <1>1
    <2> QED BY <1>1, <1>2, <1>7, <2>1, <2>2 DEF RestTyped
  <1>9. MovesTyped' /\ pc'[t] = "writing" /\ left'[t] = left[t] /\ \A u \in Task \ {t} : Unmoved(u)
    BY <1>1, <1>2, <1>7 DEF MovesTyped, Unmoved, Still
  <1>10. \A u \in Task : pc[u] # "writing"
    BY <1>1, MethodsAssumption DEF IInv, HolderInv
  <1>11. Grow
    BY <1>1, <1>2, GrowSame
  <1>12. ListInv(t)'
    <2>1. CASE left[t] = <<Commit>>
      <3>1. stamp = log[t].stamp
        BY <2>1
      <3> QED BY <1>1, <1>2, <1>4, <1>7, <1>9, <2>1, <3>1 DEF TaskInv, ListInv
    <2>2. CASE left[t] # <<Commit>>
      <3> DEFINE g == call[t].frames
      <3>1. call[t].op = "set" /\ left[t] = g
        BY <1>1, <1>2, <2>2 DEF TaskInv, ListInv
      <3>2. g \in Group /\ g \in Seq(Field) /\ g # <<>> /\ Len(g) \in Nat \ {0}
        BY <1>3, <2>2, <3>1, CallKinds, GroupKinds
      <3>3. Head(g) # Commit
        BY <3>2, GroupsAssumption
      <3>4. stamp = stamps'
        BY <1>1, <3>1, <3>3
      <3> HIDE DEF g, stamp
      <3>5. left'[t] = g /\ call'[t] = call[t] /\ call'[t].frames = g
        BY <1>1, <1>9, <3>1 DEF g
      <3>6. Written(t)' = 0
        BY <3>2, <3>5 DEF Written
      <3>7. Midway(t)'
        <4>1. \A i \in 1..Len(g) : left'[t][i] = g[0 + i]
          BY <3>2, <3>5
        <4>2. Len(g) \in 1..Len(g)
          BY <3>2
        <4>3. stamps' # 0
          BY <1>1, <1>3
        <4> QED BY <1>4, <1>7, <3>1, <3>2, <3>4, <3>5, <3>6, <4>1, <4>2, <4>3 DEF Midway
      <3>8. left'[t] # <<Commit>>
        BY <1>9, <2>2
      <3> QED BY <1>9, <3>7, <3>8 DEF ListInv
    <2> QED BY <2>1, <2>2
  <1>13. Place(t)' /\ LimitInv(t)' /\ ControlInv(t)' /\ AlarmInv(t)'
    BY <1>1, <1>2, <1>3, <1>4, <1>7, <1>9
       DEF TaskInv, Place, LimitInv, ControlInv, AlarmInv, Awaiting
  <1>14. ASSUME NEW u \in Task PROVE TaskInv(u)'
    <2>1. CASE u = t
      BY <1>12, <1>13, <2>1 DEF TaskInv
    <2>2. CASE u # t
      BY <1>2, <1>8, <1>9, <1>10, <1>11, <2>2, UnmovedKeeps DEF IInv
    <2> QED BY <2>1, <2>2
  <1>15. HolderInv'
    <2> SUFFICES ASSUME NEW u \in Task PROVE pc'[u] = "writing" <=> holder' = u
      BY DEF HolderInv
    <2>1. u # t => pc'[u] # "writing"
      BY <1>9, <1>10 DEF Unmoved, Still
    <2> QED BY <1>1, <1>9, <2>1
  <1>16. LateInv' /\ GrowInv'
    BY <1>1 DEF IInv, LateInv, GrowInv
  <1>17. WholeInv'
    <2>1. \A g \in Group : ~Under(g)
      BY <1>10 DEF Under
    <2> QED BY <1>1, <2>1 DEF IInv, WholeInv, WholeIn
  <1> QED BY <1>8, <1>9, <1>14, <1>15, <1>16, <1>17, TypedHalves DEF IInv

\* A step of the task that writes.
LEMMA WriterStep ==
    ASSUME IInv, MovesTyped', NEW t \in Task, pc[t] = "writing",
           \A u \in Task \ {t} : Still(u) /\ log'[u] = log[u],
           pc'[t] \notin {"asking", "told"}, holder' = IF pc'[t] = "writing" THEN t ELSE None,
           UNCHANGED <<call, known, linkUp, late, stamps, calls, acted, session, faults>>,
           restart' \in BOOLEAN, log' \in [Task -> Logged],
           \A r \in Register : r \in log'[t].did <=> r \in log[t].did,
           log'[t].wasOpen = log[t].wasOpen, log'[t].stale = log[t].stale,
           staged' \in [Field -> 0..stamps], applied' \in [Field -> 0..stamps],
           broken' \subseteq 1..stamps, Grow, GrowInv', WholeInv', ListInv(t)'
    PROVE  IInv'
  <1>1. MovesTyped /\ RestTyped /\ TaskInv(t)
    BY TypedHalves DEF IInv
  <1>2. RestTyped'
    <2>1. holder' \in Task \cup {None}
      OBVIOUS
    <2> QED BY <1>1, <2>1 DEF RestTyped, Logged
  <1>3. call[t] \in Offered /\ call[t].op \in {"limit", "set"}
    BY <1>1 DEF TaskInv, Place
  <1>4. Place(t)' /\ ControlInv(t)' /\ AlarmInv(t)'
    BY <1>3 DEF Place, ControlInv, AlarmInv, Awaiting
  <1>5. LimitInv(t)'
    <2>1. {"limit", "state"} \subseteq Register
      BY DEF Register
    <2>2. "limit" \in log[t].did =>
            call[t].allow \/ log[t].stale \/ ("state" \in log[t].did /\ ~log[t].wasOpen)
      BY <1>1 DEF TaskInv, LimitInv
    <2> QED BY <2>1, <2>2 DEF LimitInv, Awaiting
  <1>6. \A u \in Task \ {t} : pc[u] # "writing"
    BY OneWriter DEF IInv
  <1>7. ASSUME NEW u \in Task PROVE TaskInv(u)'
    <2>1. CASE u = t
      BY <1>4, <1>5, <2>1 DEF TaskInv
    <2>2. CASE u # t
      <3>1. Unmoved(u)
        BY <2>2 DEF Unmoved
      <3> QED BY <1>1, <1>2, <1>6, <2>2, <3>1, UnmovedKeeps DEF IInv
    <2> QED BY <2>1, <2>2
  <1>8. HolderInv'
    <2> SUFFICES ASSUME NEW u \in Task PROVE pc'[u] = "writing" <=> holder' = u
      BY DEF HolderInv
    <2>1. u # t => pc'[u] # "writing"
      BY <1>6 DEF Still
    <2> QED BY <2>1, MethodsAssumption
  <1>9. LateInv'
    BY DEF IInv, LateInv
  <1> QED BY <1>2, <1>7, <1>8, <1>9, TypedHalves DEF IInv

\* What the log records of a frame that reaches the charger.
LEMMA ReachesLogs ==
    ASSUME RestTyped, NEW t \in Task, Reaches(t), stamps' = stamps
    PROVE  /\ log' \in [Task -> Logged] /\ \A u \in Task \ {t} : log'[u] = log[u]
           /\ \A r \in Register : r \in log'[t].did <=> r \in log[t].did
           /\ log'[t].wasOpen = log[t].wasOpen /\ log'[t].stale = log[t].stale
           /\ log'[t].stamp = log[t].stamp
           /\ restart' \in BOOLEAN /\ UNCHANGED <<session, faults>>
  <1> DEFINE did == IF Head(left[t]) = Commit THEN log[t].did \cup {Commit} ELSE log[t].did
             new == [log[t] EXCEPT !.did = did]
  <1>1. log[t] \in Logged /\ log \in [Task -> Logged] /\ restart \in BOOLEAN
    BY DEF RestTyped
  <1>2. did \in SUBSET (Register \cup {Commit}) /\ \A r \in Register : r \in did <=> r \in log[t].did
    <2>1. Commit \notin Register
      BY DEF Commit, Register
    <2> QED BY <1>1, <2>1 DEF Logged
  <1>3. log' = [log EXCEPT ![t].did = IF Head(left[t]) = Commit THEN @ \cup {Commit} ELSE @]
        /\ restart' = (restart \/ Head(left[t]) = Commit) /\ UNCHANGED <<session, faults>>
    BY DEF Reaches
  <1>4. log' = [log EXCEPT ![t] = new]
    BY <1>1, <1>3
  <1> HIDE DEF did
  <1>5. /\ new \in Logged /\ new.did = did /\ new.wasOpen = log[t].wasOpen
        /\ new.stale = log[t].stale /\ new.stamp = log[t].stamp
    BY <1>1, <1>2 DEF Logged
  <1> HIDE DEF new
  <1>6. log' \in [Task -> Logged] /\ log'[t] = new /\ \A u \in Task \ {t} : log'[u] = log[u]
    BY <1>1, <1>4, <1>5
  <1> QED BY <1>1, <1>2, <1>3, <1>5, <1>6

\* The commit puts into effect what the charger holds.
LEMMA CommitReaches ==
    ASSUME RestTyped, GrowInv, NEW t \in Task, left[t] = <<Commit>>, Reaches(t),
           acted' = acted
    PROVE  /\ staged' = staged /\ applied' = staged
           /\ Grow /\ GrowInv'
  <1>1. staged' = staged /\ applied' = staged /\ faults' = faults
    BY DEF Reaches
  <1>2. \A f \in Field : staged[f] \in Nat /\ applied[f] \in Nat
    BY DEF RestTyped
  <1> QED BY <1>1, <1>2 DEF Grow, GrowInv

\* The next frame of a list.
LEMMA MidwayIs ==
    ASSUME RestTyped, MovesTyped, NEW t \in Task, Midway(t), NEW g, g = call[t].frames,
           NEW k, k = Written(t), NEW f, f = Head(left[t])
    PROVE  /\ left[t] # <<Commit>> /\ f # Commit /\ f \in Field
           /\ k \in Nat /\ k + 1 \in 1..Len(g) /\ f = g[k + 1] /\ Len(left[t]) = Len(g) - k
           /\ g \in Group /\ g \in Seq(Field) /\ Len(g) \in Nat
           /\ \A i \in 1..k : staged[g[i]] = stamps
           /\ log[t].stamp = stamps /\ stamps \in Nat \ {0}
           /\ left[t] \in Seq(Field \cup {Commit})
           /\ \A i \in 1..Len(left[t]) : left[t][i] = g[k + i]
  <1>1. /\ left[t] \in Seq(Field \cup {Commit}) /\ stamps \in Nat
    BY DEF MovesTyped, RestTyped
  <1>2. /\ g \in Seq(Field) /\ g \in Group
        /\ Len(left[t]) \in 1..Len(g)
        /\ \A i \in 1..Len(left[t]) : left[t][i] = g[k + i]
        /\ \A i \in 1..k : staged[g[i]] = stamps
        /\ log[t].stamp = stamps /\ stamps # 0
    BY DEF Midway
  <1>3. Len(g) \in Nat /\ Len(left[t]) \in Nat /\ k = Len(g) - Len(left[t])
    BY <1>1, <1>2 DEF Written
  <1>4. /\ k \in Nat /\ k + 1 \in 1..Len(g) /\ Len(left[t]) = Len(g) - k /\ 1 \in 1..Len(left[t])
    <2> DEFINE n == Len(g)
               l == Len(left[t])
    <2>1. n \in Nat /\ l \in 1..n /\ k = n - l
      BY <1>2, <1>3
    <2> HIDE DEF n, l
    <2>2. k \in Nat /\ k + 1 \in 1..n /\ l = n - k /\ 1 \in 1..l
      BY <2>1
    <2> QED BY <2>2 DEF n, l
  <1>5. f = left[t][1]
    BY <1>1, <1>4
  <1>6. f = g[k + 1] /\ f \in Field
    BY <1>2, <1>4, <1>5
  <1>7. f # Commit /\ left[t] # <<Commit>>
    BY <1>5, <1>6, GroupsAssumption
  <1> QED BY <1>1, <1>2, <1>3, <1>4, <1>6, <1>7

LEMMA FrameReaches ==
    ASSUME RestTyped, MovesTyped, GrowInv, NEW t \in Task, Midway(t), Reaches(t),
           acted' = acted, stamps' = stamps,
           NEW g, g = call[t].frames, NEW k, k = Written(t)
    PROVE  /\ staged' \in [Field -> 0..stamps] /\ applied' = applied
           /\ Grow /\ GrowInv'
           /\ \A i \in 1..(k + 1) : staged'[g[i]] = stamps
           /\ \A h \in Group \ {g} : \A e \in InList(h) : staged'[e] = staged[e]
  <1> DEFINE f == Head(left[t])
  <1>1. /\ left[t] # <<Commit>> /\ f # Commit /\ f \in Field
        /\ k \in Nat /\ k + 1 \in 1..Len(g) /\ f = g[k + 1]
        /\ g \in Group /\ g \in Seq(Field) /\ Len(g) \in Nat
        /\ \A i \in 1..k : staged[g[i]] = stamps
        /\ log[t].stamp = stamps /\ stamps \in Nat \ {0}
    BY MidwayIs
  <1>2. staged' = [staged EXCEPT ![f] = stamps] /\ applied' = applied /\ faults' = faults
    BY <1>1 DEF Reaches
  <1> HIDE DEF f
  <1>3. /\ staged \in [Field -> 0..stamps] /\ applied \in [Field -> 0..stamps]
    BY DEF RestTyped
  <1>4. staged' \in [Field -> 0..stamps]
    BY <1>1, <1>2, <1>3
  <1>5. \A e \in Field : staged'[e] = IF e = f THEN stamps ELSE staged[e]
    BY <1>1, <1>2, <1>3
  <1>6. \A e \in Field : /\ staged[e] \in 0..stamps /\ applied[e] \in 0..stamps
                         /\ staged[e] <= staged'[e] /\ applied[e] <= staged[e]
    <2> SUFFICES ASSUME NEW e \in Field
                 PROVE  /\ staged[e] \in 0..stamps /\ applied[e] \in 0..stamps
                        /\ staged[e] <= staged'[e] /\ applied[e] <= staged[e]
      OBVIOUS
    <2>1. staged[e] \in 0..stamps /\ applied[e] \in 0..stamps
      BY <1>3
    <2>2. applied[e] <= staged[e]
      BY <1>1 DEF GrowInv
    <2>3. stamps \in Nat /\ staged'[e] = (IF e = f THEN stamps ELSE staged[e])
      BY <1>1, <1>5
    <2> QED BY ONLY <2>1, <2>2, <2>3
  <1>7. Grow /\ GrowInv'
    <2>1. ASSUME NEW e \in Field
          PROVE  /\ staged[e] <= staged'[e] /\ applied[e] <= applied'[e]
                 /\ applied'[e] <= staged'[e]
      <3>1. staged[e] \in Nat /\ applied[e] \in Nat /\ staged'[e] \in Nat
        BY <1>3, <1>4
      <3> QED BY <1>2, <1>6, <3>1
    <2> QED BY <1>2, <2>1 DEF Grow, GrowInv
  <1>8. ASSUME NEW i \in 1..(k + 1) PROVE staged'[g[i]] = stamps
    <2>1. i \in 1..Len(g) /\ g[i] \in Field
      BY <1>1
    <2>2. i = k + 1 \/ i \in 1..k
      BY <1>1
    <2> QED BY <1>1, <1>5, <2>1, <2>2
  <1>9. ASSUME NEW h \in Group \ {g}, NEW e \in InList(h) PROVE staged'[e] = staged[e]
    <2>1. f \in InList(g)
      <3>1. k + 1 \in DOMAIN g
        BY <1>1
      <3> QED BY <1>1, <3>1 DEF InList
    <2>2. e # f
      BY <1>1, <1>9, <2>1, ListsApart
    <2> QED BY <1>5, <2>2 DEF InList
  <1> QED BY <1>2, <1>4, <1>7, <1>8, <1>9

LEMMA FrameWrittenKeeps ==
    ASSUME IInv, NEW t \in Task, FrameWritten(t)
    PROVE  IInv'
  <1>1. /\ pc[t] = "writing" /\ Reaches(t)
        /\ UNCHANGED <<call, known, linkUp, late, stamps, broken, calls, acted>>
    BY DEF FrameWritten
  <1>2. MovesTyped /\ RestTyped /\ TaskInv(t) /\ GrowInv /\ HolderInv /\ WholeInv /\ holder = t
    BY <1>1, TypedHalves DEF IInv, HolderInv
  <1>3. /\ log' \in [Task -> Logged] /\ \A u \in Task \ {t} : log'[u] = log[u]
        /\ \A r \in Register : r \in log'[t].did <=> r \in log[t].did
        /\ log'[t].wasOpen = log[t].wasOpen /\ log'[t].stale = log[t].stale
        /\ log'[t].stamp = log[t].stamp
        /\ restart' \in BOOLEAN /\ UNCHANGED <<session, faults>>
    BY <1>1, <1>2, ReachesLogs
  <1>4. call[t] \in Offered /\ (left[t] = <<Commit>> \/ Midway(t))
    BY <1>1, <1>2 DEF TaskInv, Place, ListInv
  <1>5. /\ staged \in [Field -> 0..stamps] /\ broken \subseteq 1..stamps
        /\ broken' = broken /\ broken \subseteq broken'
    BY <1>1, <1>2 DEF RestTyped
  <1>6. CASE left[t] = <<Commit>>
    <2>1. staged' = staged /\ applied' = staged /\ Grow /\ GrowInv'
      BY <1>1, <1>2, <1>6, CommitReaches
    <2>2. ~(Len(left[t]) > 1) /\ Head(left[t]) = Commit
      BY <1>6
    <2>3. holder' = None /\ Ends(t, "ok")
      BY <2>2 DEF FrameWritten
    <2>4. MovesTyped' /\ pc'[t] = "idle" /\ \A u \in Task \ {t} : Still(u)
      BY <1>2, <2>3, EndsMoves DEF Verdicts
    <2>5. ListInv(t)'
      <3>1. /\ call' = call /\ applied' = staged /\ log'[t].stamp = log[t].stamp
        BY <1>1, <1>3, <2>1
      <3> QED BY <1>1, <1>2, <1>6, <2>4, <3>1 DEF TaskInv, ListInv
    <2>6. WholeInv'
      <3> SUFFICES ASSUME NEW g \in Group PROVE WholeIn(staged, g)' /\ WholeIn(applied, g)'
        BY DEF WholeInv
      <3>1. WholeIn(staged, g)
        BY <1>1, <1>2, <1>6, OneWriter DEF WholeInv
      <3> QED BY <1>5, <2>1, <3>1 DEF WholeIn
    <2>7. staged' \in [Field -> 0..stamps] /\ applied' \in [Field -> 0..stamps]
      BY <1>5, <2>1
    <2> QED BY <1>1, <1>2, <1>3, <1>5, <2>1, <2>3, <2>4, <2>5, <2>6, <2>7, WriterStep
  <1>7. CASE Midway(t)
    <2> PICK g, k : g = call[t].frames /\ k = Written(t)
      OBVIOUS
    <2>1. /\ left[t] # <<Commit>> /\ Head(left[t]) # Commit
          /\ k \in Nat /\ k + 1 \in 1..Len(g) /\ Len(left[t]) = Len(g) - k
          /\ g \in Group /\ g \in Seq(Field) /\ Len(g) \in Nat
          /\ log[t].stamp = stamps /\ stamps \in Nat \ {0}
          /\ left[t] \in Seq(Field \cup {Commit})
          /\ \A i \in 1..Len(left[t]) : left[t][i] = g[k + i]
      BY <1>2, <1>7, MidwayIs
    <2>2. /\ staged' \in [Field -> 0..stamps] /\ applied' = applied
          /\ Grow /\ GrowInv'
          /\ \A i \in 1..(k + 1) : staged'[g[i]] = stamps
          /\ \A h \in Group \ {g} : \A e \in InList(h) : staged'[e] = staged[e]
      BY <1>1, <1>2, <1>7, FrameReaches
    <2>3. call[t].op = "set"
      BY <1>7 DEF Midway
    <2>4. g = call[t].frames /\ g = call'[t].frames
      BY <1>1
    <2>5. k = Len(g) - Len(left[t])
      BY DEF Written
    <2>6. applied' \in [Field -> 0..stamps] /\ \A h \in Group : WholeIn(applied, h)'
      BY <1>2, <1>5, <2>2, AppliedWholeKeeps DEF WholeInv, RestTyped
    <2>7. \A h \in Group \ {g} : WholeIn(staged, h)'
      <3> SUFFICES ASSUME NEW h \in Group \ {g} PROVE WholeIn(staged, h)'
        OBVIOUS
      <3>1. WholeIn(staged, h)
        BY <1>1, <1>2, <2>4, OneWriter DEF WholeInv
      <3> QED BY <1>5, <2>2, <3>1, StagedWholeKeeps
    <2>8. CASE Len(left[t]) > 1
      <3>1. left' = [left EXCEPT ![t] = Tail(@)] /\ UNCHANGED <<pc, at, seen, outcome, holder>>
        BY <2>8 DEF FrameWritten
      <3>2. /\ left'[t] = Tail(left[t]) /\ MovesTyped' /\ \A u \in Task \ {t} : Still(u)
        <4>1. Tail(left[t]) \in Seq(Field \cup {Commit})
          BY <2>1, <2>8
        <4> QED BY <1>2, <3>1, <4>1 DEF MovesTyped, Still
      <3>3. /\ Len(left'[t]) = Len(left[t]) - 1
            /\ \A i \in 1..Len(left'[t]) : left'[t][i] = left[t][i + 1]
        BY <2>1, <2>8, <3>2
      <3>4. Len(left[t]) \in Nat
        BY <2>1
      <3>5. Len(left'[t]) \in 1..Len(g) /\ Len(left'[t]) < Len(g) /\ Len(left'[t]) \in Nat
        <4> DEFINE l == Len(left[t])
                   m == Len(left'[t])
                   n == Len(g)
        <4>1. m = l - 1 /\ l = n - k /\ l > 1 /\ l \in Nat /\ n \in Nat /\ k \in Nat
          BY <2>1, <2>8, <3>3, <3>4
        <4> HIDE DEF l, m, n
        <4>2. m \in 1..n /\ m < n /\ m \in Nat
          BY <4>1
        <4> QED BY <4>2 DEF m, n
      <3>6. Written(t)' = k + 1
        <4> DEFINE l == Len(left[t])
                   m == Len(left'[t])
                   n == Len(g)
        <4>1. Written(t)' = n - m /\ m = l - 1 /\ k = n - l /\ n \in Nat /\ l \in Nat
          BY <2>1, <2>4, <2>5, <3>3, <3>4 DEF Written
        <4> HIDE DEF l, m, n
        <4> QED BY <4>1
      <3>7. \A i \in 1..Len(left'[t]) : left'[t][i] = g[(k + 1) + i]
        <4> SUFFICES ASSUME NEW i \in 1..Len(left'[t]) PROVE left'[t][i] = g[(k + 1) + i]
          OBVIOUS
        <4>1. i + 1 \in 1..Len(left[t])
          BY <3>3, <3>4
        <4>2. left'[t][i] = g[k + (i + 1)]
          BY <2>1, <3>3, <4>1
        <4>3. k + (i + 1) = (k + 1) + i
          BY <2>1
        <4> QED BY <4>2, <4>3
      <3>8. Midway(t)'
        BY <1>1, <1>3, <2>1, <2>2, <2>3, <2>4, <3>5, <3>6, <3>7 DEF Midway
      <3>9. left'[t] # <<Commit>>
        <4>1. left'[t][1] = g[(k + 1) + 1] /\ (k + 1) + 1 \in 1..Len(g)
          <5>1. \A n, l \in Nat : l = n - k /\ l > 1 => (k + 1) + 1 \in 1..n /\ 1 \in 1..(l - 1)
            BY <2>1
          <5>2. (k + 1) + 1 \in 1..Len(g) /\ 1 \in 1..Len(left'[t])
            BY <2>1, <2>8, <3>3, <3>4, <5>1
          <5> QED BY <3>7, <5>2
        <4>2. g[(k + 1) + 1] \in Field
          BY <2>1, <4>1
        <4> QED BY <4>1, <4>2, GroupsAssumption
      <3>10. ListInv(t)'
        BY <1>1, <3>1, <3>8, <3>9 DEF ListInv
      <3>11. WholeInv'
        <4>1. Under(g)'
          BY <1>1, <2>4, <3>1, <3>5, <3>9 DEF Under
        <4> QED BY <2>6, <2>7, <4>1 DEF WholeInv
      <3> QED BY <1>1, <1>2, <1>3, <1>5, <2>2, <2>6, <3>1, <3>2, <3>10, <3>11, WriterStep
    <2>9. CASE ~(Len(left[t]) > 1)
      <3>1. holder' = None /\ CommitIf(t)
        BY <2>1, <2>9 DEF FrameWritten
      <3>2. Len(g) = k + 1
        <4>1. \A n, m, l \in Nat : l = n - m /\ m + 1 \in 1..n /\ ~(l > 1) => n = m + 1
          OBVIOUS
        <4>2. Len(left[t]) \in Nat
          BY <2>1
        <4> QED BY <2>1, <2>9, <4>1, <4>2
      <3>3. /\ MovesTyped' /\ \A u \in Task \ {t} : Still(u)
            /\ \/ pc'[t] = "line" /\ left'[t] = <<Commit>>
               \/ pc'[t] = "idle" /\ ~call[t].commit
        <4>1. linkUp
          BY DEF FrameWritten
        <4> QED BY <1>2, <3>1, <4>1, CommitIfMoves
      <3>4. \A i \in 1..Len(g) : staged'[g[i]] = stamps
        BY <2>2, <3>2
      <3>5. ListInv(t)'
        <4>1. \A i \in 1..Len(g) : staged'[g[i]] >= log'[t].stamp
          BY <1>3, <2>1, <3>4
        <4>2. pc'[t] # "writing" /\ (pc'[t] = "line" => left'[t] = <<Commit>>)
          BY <3>3
        <4>3. pc'[t] = "idle" => ~call'[t].commit
          BY <1>1, <3>3
        <4> QED BY <1>1, <2>4, <4>1, <4>2, <4>3 DEF ListInv
      <3>6. WholeIn(staged, g)'
        <4>1. ASSUME NEW e \in InList(g) PROVE staged'[e] = stamps
          <5>1. PICK i \in DOMAIN g : g[i] = e
            BY DEF InList
          <5>2. i \in 1..Len(g)
            BY <2>1
          <5> QED BY <3>4, <5>1, <5>2
        <4> QED BY <4>1 DEF WholeIn, InList
      <3>7. WholeInv'
        BY <2>6, <2>7, <3>6 DEF WholeInv
      <3>8. pc'[t] \notin {"asking", "told", "writing"}
        BY <3>3
      <3> QED BY <1>1, <1>2, <1>3, <1>5, <2>2, <2>6, <3>1, <3>3, <3>5, <3>7, <3>8, WriterStep
    <2> QED BY <2>8, <2>9
  <1> QED BY <1>4, <1>6, <1>7

\* The task stops in the middle of a list: its frame reached the charger or
\* not, and the list broke off.
LEMMA WriterStops ==
    ASSUME IInv, NEW t \in Task, pc[t] = "writing", NEW o \in Verdicts \ {"ok"}, Ends(t, o),
           Reaches(t) \/ UNCHANGED <<charger, log>>, holder' = None, broken' = BrokenBy(t),
           UNCHANGED <<call, known, linkUp, late, stamps, calls, acted>>
    PROVE  IInv'
  <1>1. MovesTyped /\ RestTyped /\ TaskInv(t) /\ GrowInv /\ HolderInv /\ WholeInv
    BY TypedHalves DEF IInv
  <1>2. /\ log' \in [Task -> Logged] /\ \A u \in Task \ {t} : log'[u] = log[u]
        /\ \A r \in Register : r \in log'[t].did <=> r \in log[t].did
        /\ log'[t].wasOpen = log[t].wasOpen /\ log'[t].stale = log[t].stale
        /\ log'[t].stamp = log[t].stamp
        /\ restart' \in BOOLEAN /\ UNCHANGED <<session, faults>>
    <2>1. CASE Reaches(t)
      BY <1>1, <2>1, ReachesLogs
    <2>2. CASE UNCHANGED <<charger, log>>
      BY <1>1, <2>2 DEF RestTyped, charger, Logged
    <2> QED BY <2>1, <2>2
  <1>3. MovesTyped' /\ pc'[t] = "idle" /\ outcome'[t] = o /\ \A u \in Task \ {t} : Still(u)
    BY <1>1, EndsMoves
  <1>4. ListInv(t)'
    BY <1>3 DEF ListInv
  <1>5. left[t] = <<Commit>> \/ Midway(t)
    BY <1>1 DEF TaskInv, ListInv
  <1>6. /\ staged \in [Field -> 0..stamps] /\ applied \in [Field -> 0..stamps]
        /\ broken \subseteq 1..stamps
    BY <1>1 DEF RestTyped
  <1>7. UNCHANGED <<charger, log>> => staged' = staged /\ applied' = applied /\ Grow /\ GrowInv'
    <2> SUFFICES ASSUME UNCHANGED <<charger, log>>
                 PROVE  staged' = staged /\ applied' = applied /\ Grow /\ GrowInv'
      OBVIOUS
    <2> QED BY <1>1, GrowSame DEF charger, GrowInv
  <1>8. CASE left[t] = <<Commit>>
    <2>1. staged' = staged /\ applied' \in {staged, applied} /\ Grow /\ GrowInv'
      BY <1>1, <1>7, <1>8, CommitReaches
    <2>2. broken' = broken
      BY <1>8 DEF BrokenBy
    <2>3. WholeInv'
      <3> SUFFICES ASSUME NEW g \in Group PROVE WholeIn(staged, g)' /\ WholeIn(applied, g)'
        BY DEF WholeInv
      <3>1. WholeIn(staged, g) /\ WholeIn(applied, g)
        BY <1>1, <1>8, OneWriter DEF WholeInv
      <3> QED BY <2>1, <2>2, <3>1 DEF WholeIn
    <2>4. /\ staged' \in [Field -> 0..stamps] /\ applied' \in [Field -> 0..stamps]
          /\ broken' \subseteq 1..stamps
      BY <1>6, <2>1, <2>2
    <2> QED BY <1>2, <1>3, <1>4, <2>1, <2>3, <2>4, WriterStep
  <1>9. CASE Midway(t)
    <2> PICK g, k : g = call[t].frames /\ k = Written(t)
      OBVIOUS
    <2>1. /\ Head(left[t]) # Commit
          /\ k \in Nat /\ k + 1 \in 1..Len(g) /\ Len(left[t]) = Len(g) - k
          /\ g \in Group /\ g \in Seq(Field) /\ Len(g) \in Nat
          /\ \A i \in 1..k : staged[g[i]] = stamps
          /\ log[t].stamp = stamps /\ stamps \in Nat \ {0}
      <3>1. MovesTyped /\ RestTyped /\ Midway(t)
        BY <1>1, <1>9
      <3> QED BY ONLY <3>1, t \in Task, g = call[t].frames, k = Written(t), MidwayIs
    <2>2. broken' = broken \cup {stamps} /\ broken \subseteq broken' /\ broken' \subseteq 1..stamps
      <3>1. stamps \in 1..stamps
        BY <2>1
      <3> QED BY <1>6, <2>1, <3>1 DEF BrokenBy
    <2>3. Reaches(t) => /\ staged' \in [Field -> 0..stamps] /\ applied' = applied
                        /\ Grow /\ GrowInv'
                        /\ \A i \in 1..(k + 1) : staged'[g[i]] = stamps
                        /\ \A h \in Group \ {g} : \A e \in InList(h) : staged'[e] = staged[e]
      BY <1>1, <1>9, FrameReaches
    <2>5. /\ staged' \in [Field -> 0..stamps] /\ applied' = applied /\ Grow /\ GrowInv'
          /\ \A h \in Group \ {g} : \A e \in InList(h) : staged'[e] = staged[e]
      BY <1>6, <1>7, <2>3
    <2>6. applied' \in [Field -> 0..stamps] /\ \A h \in Group : WholeIn(applied, h)'
      BY <1>1, <1>6, <2>2, <2>5, AppliedWholeKeeps DEF WholeInv
    <2>7. \A h \in Group \ {g} : WholeIn(staged, h)'
      <3> SUFFICES ASSUME NEW h \in Group \ {g} PROVE WholeIn(staged, h)'
        OBVIOUS
      <3>1. WholeIn(staged, h)
        BY <1>1, OneWriter DEF WholeInv
      <3> QED BY <2>2, <2>5, <3>1, StagedWholeKeeps
    <2>8. WholeIn(staged, g)'
      <3>1. ASSUME staged'[g[1]] = stamps PROVE WholeIn(staged, g)'
        <4>1. 1 \in DOMAIN g /\ g[1] \in Field
          BY <2>1
        <4>2. g[1] \in InList(g)
          BY <4>1 DEF InList
        <4> QED BY <2>2, <3>1, <4>2 DEF WholeIn, InList
      <3>2. CASE Reaches(t)
        <4>1. 1 \in 1..(k + 1)
          BY <2>1
        <4> QED BY <2>3, <3>1, <3>2, <4>1
      <3>3. CASE UNCHANGED <<charger, log>> /\ k # 0
        <4>1. 1 \in 1..k
          BY <2>1, <3>3
        <4> QED BY <1>7, <2>1, <3>1, <3>3, <4>1
      <3>4. CASE UNCHANGED <<charger, log>> /\ k = 0
        <4>1. ~(Len(left[t]) < Len(g))
          BY <2>1, <3>4
        <4>2. WholeIn(staged, g)
          BY <1>1, <2>1, <4>1, OneWriter DEF WholeInv
        <4> QED BY <1>7, <2>1, <2>2, <3>4, <4>2, StagedWholeKeeps
      <3> QED BY <3>2, <3>3, <3>4
    <2>9. WholeInv'
      BY <2>6, <2>7, <2>8 DEF WholeInv
    <2> QED BY <1>2, <1>3, <1>4, <2>2, <2>5, <2>6, <2>9, WriterStep
  <1> QED BY <1>5, <1>8, <1>9

LEMMA FrameFailsKeeps ==
    ASSUME IInv, NEW t \in Task, FrameFails(t)
    PROVE  IInv'
  <1>1. PICK o \in {"timeout", "error", "cancelled"} : Ends(t, o)
    BY DEF FrameFails
  <1>2. o \in Verdicts \ {"ok"}
    BY DEF Verdicts
  <1> QED BY <1>1, <1>2, WriterStops DEF FrameFails

\* Cancelled at any other await.
LEMMA CancelledKeeps ==
    ASSUME IInv, NEW t \in Task, Cancelled(t)
    PROVE  IInv'
  <1>1. /\ pc[t] \notin {"idle", "writing"} /\ Ends(t, "cancelled")
        /\ UNCHANGED <<call, holder, known, linkUp, late, charger, history>>
    BY DEF Cancelled
  <1>2. pc[t] \in {"told", "asking", "line"}
    BY <1>1, TypedHalves DEF IInv, MovesTyped
  <1>3. "cancelled" \in Verdicts \ {"ok", "rejected", "protocol"}
    BY DEF Verdicts
  <1> QED BY <1>1, <1>2, <1>3, StopsKeeps

-----------------------------------------------------------------------------
(* The theorems *)

LEMMA StepKeeps ==
    ASSUME IInv, [Next]_vars
    PROVE  IInv'
  <1>1. CASE UNCHANGED vars
    <2>1. UNCHANGED <<pc, call, at, seen, left, outcome, holder, known, linkUp, late>>
          /\ UNCHANGED <<session, faults, staged, applied, restart>>
          /\ UNCHANGED <<stamps, broken, calls, acted, log>>
      BY <1>1 DEF vars, client, charger, history
    <2>2. TypeOK' <=> TypeOK
      BY <2>1 DEF TypeOK
    <2>3. ASSUME NEW t \in Task PROVE TaskInv(t)' <=> TaskInv(t)
      BY <2>1 DEF TaskInv, Place, LimitInv, ControlInv, AlarmInv, ListInv, Midway, Written,
                  Awaiting, Good
    <2>4. /\ HolderInv' <=> HolderInv
          /\ LateInv' <=> LateInv
          /\ GrowInv' <=> GrowInv
          /\ WholeInv' <=> WholeInv
      BY <2>1 DEF HolderInv, LateInv, GrowInv, WholeInv, WholeIn, Under
    <2> QED BY <2>2, <2>3, <2>4 DEF IInv
  <1>2. ASSUME NEW t \in Task, \E c \in Offered : Begin(t, c) PROVE IInv'
    BY <1>2, BeginKeeps
  <1>3. ASSUME NEW t \in Task,
               Answered(t) \/ NotAnswered(t) \/ AnsweredStale(t) \/ NotDelivered(t)
        PROVE  IInv'
    BY <1>3, RequestKeeps
  <1>4. ASSUME NEW t \in Task,
               \/ Fails(t) \/ LimitChecked(t) \/ LimitWritten(t) \/ PasswordRead(t)
               \/ ControlAnswered(t) \/ StatusGoesOn(t) \/ AlarmWordRead(t)
        PROVE  IInv'
    BY <1>4, FailsKeeps, LimitCheckedKeeps, LimitWrittenKeeps, PasswordReadKeeps,
       ControlAnsweredKeeps, StatusGoesOnKeeps, AlarmWordReadKeeps
  <1>5. ASSUME NEW t \in Task,
               ListBegins(t) \/ FrameWritten(t) \/ FrameFails(t) \/ Cancelled(t)
        PROVE  IInv'
    BY <1>5, ListBeginsKeeps, FrameWrittenKeeps, FrameFailsKeeps, CancelledKeeps
  <1>6. CASE SessionChanges \/ FaultRises \/ LinkDrops \/ Restarts \/ Reconnects
    BY <1>6, OutsideSteps
  <1> QED BY <1>1, <1>2, <1>3, <1>4, <1>5, <1>6 DEF Next

\* What every method, list and charger keep, in any interleaving.
THEOREM Invariance == Spec => []IInv
  <1>1. Init => IInv
    BY InitInv
  <1>2. IInv /\ [Next]_vars => IInv'
    BY StepKeeps
  <1> QED BY <1>1, <1>2, PTL DEF Spec

\* Every variable keeps its type, whatever the tasks call.
THEOREM MethodsTyped == Spec => []TypeOK
  <1>1. IInv => TypeOK
    BY DEF IInv
  <1> QED BY <1>1, Invariance, PTL

\* async_set_current_limit writes only where its check of the session allowed.
THEOREM LimitFollowsCheck == Spec => []LimitAfterCheck
  <1>1. IInv => LimitAfterCheck
    BY DEF IInv, TaskInv, LimitInv, LimitAfterCheck
  <1> QED BY <1>1, Invariance, PTL

\* A start or stop reports what the charger did.
THEOREM ReportsTruth == Spec => []OutcomeTellsTruth
  <1>1. ASSUME IInv PROVE OutcomeTellsTruth
    <2> SUFFICES ASSUME NEW t \in Task, Done(t), call[t].op \in {"start", "stop"}
                 PROVE  /\ outcome[t] = "ok" =>
                             call[t].op \in acted /\ ("control" \in log[t].did \/ log[t].stale)
                        /\ outcome[t] = "rejected" => "control" \notin log[t].did \/ log[t].stale
                        /\ outcome[t] = "protocol" => log[t].stale
      BY DEF OutcomeTellsTruth
    <2>1. call[t] \in Offered /\ pc[t] = "idle"
      BY <1>1, TypedHalves DEF Done, IInv, RestTyped
    <2>2. ControlInv(t)
      BY <1>1 DEF IInv, TaskInv
    <2> QED BY <2>1, <2>2 DEF ControlInv
  <1> QED BY <1>1, Invariance, PTL

\* async_get_alarms and async_get_status report the faults there were.
THEOREM FaultsReported == Spec => []FaultsReachCaller
  <1>1. ASSUME IInv PROVE FaultsReachCaller
    <2> SUFFICES ASSUME NEW t \in Task, Done(t), call[t].op \in {"alarms", "status"},
                        outcome[t] = "ok", ~log[t].stale
                 PROVE  /\ log[t].silent \subseteq {"bank2"}
                        /\ log[t].before \subseteq log[t].found \cup log[t].silent
      BY DEF FaultsReachCaller
    <2>1. call[t] \in Offered /\ pc[t] = "idle"
      BY <1>1, TypedHalves DEF Done, IInv, RestTyped
    <2>2. AlarmInv(t)
      BY <1>1 DEF IInv, TaskInv
    <2> QED BY <2>1, <2>2 DEF AlarmInv
  <1> QED BY <1>1, Invariance, PTL

\* A commit applies each list whole, or one that broke off shows in it.
THEOREM CommitAppliesWhole == Spec => []AppliedWhole
  <1>1. ASSUME IInv PROVE AppliedWhole
    <2> SUFFICES ASSUME NEW g \in Group
                 PROVE  LET written == {applied[f] : f \in {g[i] : i \in 1..Len(g)} \ {Commit}}
                        IN  (\A m, n \in written : m = n) \/ written \cap broken # {}
      BY DEF AppliedWhole
    <2>1. {g[i] : i \in 1..Len(g)} \ {Commit} = InList(g)
      <3>1. g \in Seq(Field \cup {Commit})
        BY GroupKinds
      <3>2. \A i \in DOMAIN g : g[i] \in Field \cup {Commit}
        BY <3>1
      <3>3. DOMAIN g = 1..Len(g)
        BY <3>1
      <3> QED BY <3>2, <3>3, GroupsAssumption DEF InList
    <2>2. WholeIn(applied, g)
      BY <1>1 DEF IInv, WholeInv
    <2> QED BY <2>1, <2>2 DEF WholeIn
  <1> QED BY <1>1, Invariance, PTL

\* A setter that commits and returns has its values, or later ones, in effect.
THEOREM ReturnMeansApplied == Spec => []OkMeansApplied
  <1>1. ASSUME IInv PROVE OkMeansApplied
    <2> SUFFICES ASSUME NEW t \in Task, Done(t), call[t].op = "set", call[t].commit,
                        outcome[t] = "ok", NEW i \in 1..Len(call[t].frames),
                        call[t].frames[i] # Commit
                 PROVE  applied[call[t].frames[i]] >= log[t].stamp
      BY DEF OkMeansApplied
    <2>1. call[t] \in Offered /\ pc[t] = "idle"
      BY <1>1, TypedHalves DEF Done, IInv, RestTyped
    <2>2. ListInv(t)
      BY <1>1 DEF IInv, TaskInv
    <2> QED BY <2>1, <2>2 DEF ListInv
  <1> QED BY <1>1, Invariance, PTL

-----------------------------------------------------------------------------
(* The methods implement Configuration *)

\* A step of a task that writes no list leaves the lists of the others alone.
Apart(t) == /\ pc[t] # "writing" /\ UNCHANGED <<holder, staged, applied>>
            /\ \A u \in Task \ {t} : left'[u] = left[u] /\ log'[u] = log[u]

LEMMA MethodsApart ==
    ASSUME IInv, NEW t \in Task,
           \/ \E c \in Offered : Begin(t, c)
           \/ Answered(t) \/ NotAnswered(t) \/ AnsweredStale(t) \/ NotDelivered(t)
           \/ Fails(t) \/ LimitChecked(t) \/ LimitWritten(t) \/ PasswordRead(t)
           \/ ControlAnswered(t) \/ StatusGoesOn(t) \/ AlarmWordRead(t) \/ Cancelled(t)
    PROVE  Apart(t)
  <1>1. /\ log \in [Task -> Logged] /\ left \in [Task -> Seq(Field \cup {Commit})]
    BY TypedHalves DEF IInv, RestTyped, MovesTyped
  <1>2. ASSUME NEW r, Asks(t, r) PROVE \A u \in Task \ {t} : left'[u] = left[u]
    BY <1>2 DEF Asks
  <1>3. ASSUME NEW frames, Writes(t, frames) PROVE \A u \in Task \ {t} : left'[u] = left[u]
    BY <1>1, <1>3 DEF Writes
  <1>4. ASSUME NEW o, Ends(t, o) PROVE \A u \in Task \ {t} : left'[u] = left[u]
    BY <1>1, <1>4 DEF Ends
  <1>5. ASSUME CommitIf(t) PROVE \A u \in Task \ {t} : left'[u] = left[u]
    BY <1>3, <1>4, <1>5 DEF CommitIf, WriteFrames
  <1>6. CASE \E c \in Offered : Begin(t, c)
    <2>1. PICK c \in Offered : Begin(t, c)
      BY <1>6
    <2>2. \A u \in Task \ {t} : left'[u] = left[u]
      BY <1>2, <1>3, <1>4, <2>1 DEF Begin, Starts, WriteFrames
    <2> QED BY <1>1, <2>1, <2>2 DEF Begin, charger, Apart
  <1>7. CASE Answered(t) \/ NotAnswered(t) \/ AnsweredStale(t) \/ NotDelivered(t)
    <2>1. Turn(t) /\ UNCHANGED <<staged, applied>>
      BY <1>7 DEF Answered, NotAnswered, AnsweredStale, NotDelivered, Handles, charger
    <2>2. \E v, did, stale : Hears(t, v, did, stale)
      BY <1>7 DEF Answered, NotAnswered, AnsweredStale, NotDelivered
    <2> QED BY <1>1, <2>1, <2>2 DEF Hears, Turn, Apart
  <1>8. CASE Fails(t) \/ ControlAnswered(t) \/ Cancelled(t)
    <2>1. /\ pc[t] # "writing" /\ \E o : Ends(t, o)
          /\ UNCHANGED <<holder, charger, history>>
      BY <1>8 DEF Fails, ControlAnswered, Cancelled, Told
    <2>2. \A u \in Task \ {t} : left'[u] = left[u]
      BY <1>4, <2>1
    <2>3. holder' = holder /\ staged' = staged /\ applied' = applied /\ log' = log
      BY <2>1 DEF charger, history
    <2> QED BY <2>1, <2>2, <2>3 DEF Apart
  <1>9. CASE LimitChecked(t) \/ LimitWritten(t) \/ PasswordRead(t) \/ StatusGoesOn(t)
    <2>1. /\ pc[t] # "writing"
          /\ CommitIf(t) \/ (\E r : Asks(t, r)) \/ (\E o : Ends(t, o))
          /\ UNCHANGED <<holder, charger, history>>
      BY <1>9 DEF LimitChecked, LimitWritten, PasswordRead, StatusGoesOn, Told
    <2>2. \A u \in Task \ {t} : left'[u] = left[u]
      BY <1>2, <1>4, <1>5, <2>1
    <2>3. holder' = holder /\ staged' = staged /\ applied' = applied /\ log' = log
      BY <2>1 DEF charger, history
    <2> QED BY <2>1, <2>2, <2>3 DEF Apart
  <1>10. CASE AlarmWordRead(t)
    <2>1. /\ pc[t] # "writing"
          /\ (\E r : Asks(t, r)) \/ (\E o : Ends(t, o))
          /\ UNCHANGED <<holder, charger>>
      BY <1>10 DEF AlarmWordRead, Told
    <2>2. \A u \in Task \ {t} : log'[u] = log[u]
      BY <1>1, <1>10 DEF AlarmWordRead
    <2> QED BY <1>2, <1>4, <2>1, <2>2 DEF charger, Apart
  <1> QED BY <1>6, <1>7, <1>8, <1>9, <1>10

\* So does a step of the charger or the link.
LEMMA ApartStutters ==
    ASSUME IInv, UNCHANGED <<holder, staged, applied>>,
           holder # None => left'[holder] = left[holder] /\ log'[holder] = log[holder]
    PROVE  UNCHANGED Promise!vars
  <1>1. Unwritten' = Unwritten
    BY DEF Unwritten
  <1>2. ToWrite' = ToWrite
    <2>1. CASE holder = None
      BY <1>1, <2>1 DEF ToWrite, Unwritten
    <2>2. CASE holder # None
      BY <1>1, <2>2 DEF ToWrite
    <2> QED BY <2>1, <2>2
  <1> QED BY <1>2 DEF Promise!vars

\* What is left to write: nothing without a holder or for a commit, else the
\* rest of the list.
LEMMA UnwrittenIs ==
    /\ holder = None => DOMAIN ToWrite = {}
    /\ \A t \in Task : holder = t /\ left[t] = <<Commit>> => DOMAIN ToWrite = {}
    /\ \A t \in Task : holder = t =>
         /\ DOMAIN ToWrite = {left[t][i] : i \in DOMAIN left[t]} \ {Commit}
         /\ \A f \in DOMAIN ToWrite : ToWrite[f] = log[t].stamp
    /\ ToWrite = [f \in DOMAIN ToWrite |-> ToWrite[f]]
  <1>1. ASSUME NEW t \in Task, holder = t, left[t] = <<Commit>> PROVE Unwritten = {}
    BY <1>1, MethodsAssumption DEF Unwritten
  <1>2. ASSUME NEW t \in Task, holder = t
        PROVE  Unwritten = {left[t][i] : i \in DOMAIN left[t]} \ {Commit}
    BY <1>2, MethodsAssumption DEF Unwritten
  <1>3. holder = None => Unwritten = {}
    BY DEF Unwritten
  <1> QED BY <1>1, <1>2, <1>3 DEF ToWrite

LEMMA ListBeginsConfigures ==
    ASSUME IInv, NEW t \in Task, ListBegins(t)
    PROVE  [Promise!Next]_(Promise!vars)
  <1>1. /\ pc[t] = "line" /\ holder = None /\ holder' = t
        /\ UNCHANGED <<left, staged, applied>>
    BY DEF ListBegins, HolderOfList, charger
  <1>2. left[t] = <<Commit>> \/ (call[t].op = "set" /\ left[t] = call[t].frames)
    BY <1>1 DEF IInv, TaskInv, ListInv
  <1>3. DOMAIN ToWrite = {} /\ ToWrite = [f \in {} |-> ToWrite[f]]
    BY <1>1, UnwrittenIs
  <1>4. CASE left[t] = <<Commit>>
    <2>1. Unwritten' = {} /\ Unwritten = {}
      BY <1>1, <1>4, MethodsAssumption DEF Unwritten
    <2>2. ToWrite' = ToWrite
      BY <2>1 DEF ToWrite
    <2> QED BY <1>1, <2>2 DEF Promise!vars
  <1>5. CASE left[t] # <<Commit>>
    <2>1. left[t] \in Group /\ left[t] # <<Commit>>
      BY <1>1, <1>2, <1>5, CallKinds DEF IInv, TaskInv, Place
    <2>2. left[t] \in Seq(Field) /\ left[t] # <<>>
      BY <2>1, GroupKinds
    <2>3. Unwritten' = {left[t][i] : i \in DOMAIN left[t]} \ {Commit}
      BY <1>1, MethodsAssumption DEF Unwritten
    <2>4. /\ \A i \in DOMAIN left[t] : left[t][i] \in Field
          /\ 1 \in DOMAIN left[t]
      BY <2>2
    <2>5. Unwritten' \subseteq Field /\ left[t][1] \in Unwritten'
      <3>1. \A i \in DOMAIN left[t] : left[t][i] # Commit
        BY <2>4, GroupsAssumption
      <3> QED BY <2>3, <2>4, <3>1
    <2>6. DOMAIN ToWrite' = Unwritten'
      BY DEF ToWrite
    <2> QED BY <1>1, <1>3, <2>5, <2>6 DEF Promise!Next, Promise!Open
  <1> QED BY <1>4, <1>5

\* The commit, delivered or not, is outside any list.
LEMMA CommitConfigures ==
    ASSUME IInv, NEW t \in Task, pc[t] = "writing", left[t] = <<Commit>>, holder' = None,
           Reaches(t) \/ UNCHANGED <<staged, applied>>
    PROVE  [Promise!Next]_(Promise!vars)
  <1>1. holder = t
    BY DEF IInv, HolderInv
  <1>2. Unwritten = {} /\ Unwritten' = {}
    BY <1>1, MethodsAssumption DEF Unwritten
  <1>3. ToWrite' = ToWrite /\ DOMAIN ToWrite = {}
    BY <1>2 DEF ToWrite
  <1>4. CASE Reaches(t)
    <2>1. staged' = staged /\ applied' = staged
      BY <1>4 DEF Reaches
    <2> QED BY <1>3, <2>1 DEF Promise!Next, Promise!Commit
  <1>5. CASE UNCHANGED <<staged, applied>>
    BY <1>3, <1>5 DEF Promise!vars
  <1> QED BY <1>4, <1>5

\* A frame of a list that reaches the charger changes its own field.
LEMMA FrameReachesField ==
    ASSUME IInv, NEW t \in Task, pc[t] = "writing", Midway(t)
    PROVE  /\ holder = t /\ Head(left[t]) \in DOMAIN ToWrite /\ Head(left[t]) \in Field
           /\ DOMAIN ToWrite = {left[t][i] : i \in 1..Len(left[t])}
           /\ \A i \in 1..Len(left[t]) : left[t][i] \in Field
           /\ Len(left[t]) \in Nat \ {0} /\ left[t] \in Seq(Field \cup {Commit})
           /\ Reaches(t) => /\ Promise!Reaches(Head(left[t])) /\ applied' = applied
                            /\ staged'[Head(left[t])] = log[t].stamp
                            /\ log'[t].stamp = log[t].stamp
  <1> DEFINE f == Head(left[t])
  <1>1. MovesTyped /\ RestTyped /\ holder = t
    BY TypedHalves DEF IInv, HolderInv
  <1> PICK g, k : g = call[t].frames /\ k = Written(t)
    OBVIOUS
  <1>2. /\ f # Commit /\ f \in Field /\ left[t] \in Seq(Field \cup {Commit})
        /\ k \in Nat /\ k + 1 \in 1..Len(g) /\ Len(left[t]) = Len(g) - k
        /\ g \in Seq(Field) /\ Len(g) \in Nat
        /\ \A i \in 1..Len(left[t]) : left[t][i] = g[k + i]
    <2>1. MovesTyped /\ RestTyped /\ Midway(t)
      BY <1>1
    <2>2. f = Head(left[t])
      OBVIOUS
    <2> HIDE DEF f
    <2>3. /\ left[t] # <<Commit>> /\ f # Commit /\ f \in Field
          /\ k \in Nat /\ k + 1 \in 1..Len(g) /\ f = g[k + 1] /\ Len(left[t]) = Len(g) - k
          /\ g \in Group /\ g \in Seq(Field) /\ Len(g) \in Nat
          /\ \A i \in 1..k : staged[g[i]] = stamps
          /\ log[t].stamp = stamps /\ stamps \in Nat \ {0}
          /\ left[t] \in Seq(Field \cup {Commit})
          /\ \A i \in 1..Len(left[t]) : left[t][i] = g[k + i]
      BY ONLY <2>1, <2>2, t \in Task, g = call[t].frames, k = Written(t), MidwayIs, SMTT(60)
    <2> QED BY ONLY <2>3
  <1>3. Len(left[t]) \in Nat \ {0} /\ DOMAIN left[t] = 1..Len(left[t]) /\ f = left[t][1]
    <2>1. Len(left[t]) \in Nat \ {0}
      BY <1>2
    <2> QED BY <1>2, <2>1
  <1>4. \A i \in 1..Len(left[t]) : left[t][i] \in Field
    <2> SUFFICES ASSUME NEW i \in 1..Len(left[t]) PROVE left[t][i] \in Field
      OBVIOUS
    <2>1. \A l, n \in Nat : \A j \in 1..l : l = n - k => k + j \in 1..n
      BY <1>2
    <2>2. Len(left[t]) \in Nat /\ Len(g) \in Nat /\ Len(left[t]) = Len(g) - k
      BY <1>2, <1>3
    <2>3. k + i \in 1..Len(g)
      BY <2>1, <2>2
    <2>4. left[t][i] = g[k + i]
      BY <1>2
    <2> QED BY <1>2, <2>3, <2>4
  <1>5. DOMAIN ToWrite = {left[t][i] : i \in 1..Len(left[t])}
    <2>1. DOMAIN ToWrite = {left[t][i] : i \in 1..Len(left[t])} \ {Commit}
      BY <1>1, <1>3, UnwrittenIs
    <2> QED BY <1>4, <2>1, GroupsAssumption
  <1>6. f \in DOMAIN ToWrite
    <2>1. 1 \in 1..Len(left[t])
      BY <1>3
    <2> QED BY <1>3, <1>5, <2>1
  <1>7. ASSUME Reaches(t)
        PROVE  /\ Promise!Reaches(f) /\ applied' = applied /\ staged'[f] = log[t].stamp
               /\ log'[t].stamp = log[t].stamp
    <2>1. staged' = [staged EXCEPT ![f] = log[t].stamp] /\ applied' = applied
      BY <1>2, <1>7 DEF Reaches
    <2>2. log' = log
      <3>1. log' = [log EXCEPT ![t].did = @]
        BY <1>2, <1>7 DEF Reaches
      <3> QED BY <1>1, <3>1 DEF RestTyped, Logged
    <2>3. staged \in [Field -> 0..stamps]
      BY <1>1 DEF RestTyped
    <2> HIDE DEF f
    <2> QED BY <1>2, <1>6, <2>1, <2>2, <2>3 DEF Promise!Reaches
  <1> QED BY <1>1, <1>2, <1>3, <1>4, <1>5, <1>6, <1>7

LEMMA FrameWrittenConfigures ==
    ASSUME IInv, NEW t \in Task, FrameWritten(t)
    PROVE  [Promise!Next]_(Promise!vars)
  <1>1. /\ pc[t] = "writing" /\ Reaches(t)
    BY DEF FrameWritten
  <1>2. left[t] = <<Commit>> \/ Midway(t)
    BY <1>1 DEF IInv, TaskInv, ListInv
  <1>3. CASE left[t] = <<Commit>>
    <2>1. holder' = None
      BY <1>3 DEF FrameWritten
    <2> QED BY <1>1, <1>3, <2>1, CommitConfigures
  <1>4. CASE Midway(t)
    <2> DEFINE f == Head(left[t])
    <2>1. /\ holder = t /\ f \in DOMAIN ToWrite /\ f \in Field
          /\ DOMAIN ToWrite = {left[t][i] : i \in 1..Len(left[t])}
          /\ \A i \in 1..Len(left[t]) : left[t][i] \in Field
          /\ Len(left[t]) \in Nat \ {0} /\ left[t] \in Seq(Field \cup {Commit})
          /\ Promise!Reaches(f) /\ applied' = applied
          /\ staged'[f] = log[t].stamp /\ log'[t].stamp = log[t].stamp
      BY <1>1, <1>4, FrameReachesField
    <2>2. ToWrite[f] = log[t].stamp
      BY <2>1, UnwrittenIs
    <2> HIDE DEF f
    <2>3. CASE Len(left[t]) > 1
      <3>1. holder' = t /\ left'[t] = Tail(left[t])
        <4>1. left \in [Task -> Seq(Field \cup {Commit})]
          BY TypedHalves DEF IInv, MovesTyped
        <4> QED BY <2>1, <2>3, <4>1 DEF FrameWritten
      <3>2. /\ DOMAIN left'[t] = 1..(Len(left[t]) - 1)
            /\ \A i \in 1..(Len(left[t]) - 1) : left'[t][i] = left[t][i + 1]
        BY <2>1, <2>3, <3>1
      <3>3. \A i \in 1..Len(left[t]) : i = 1 \/ (i - 1 \in 1..(Len(left[t]) - 1) /\ (i - 1) + 1 = i)
        BY <2>1
      <3>4. Unwritten' = {left'[t][i] : i \in DOMAIN left'[t]} \ {Commit}
        BY <3>1, MethodsAssumption DEF Unwritten
      <3>5. \A i \in 1..(Len(left[t]) - 1) : i + 1 \in 1..Len(left[t])
        BY <2>1
      <3>6. \A e : e \in Unwritten' => e \in DOMAIN ToWrite
        BY <2>1, <3>2, <3>4, <3>5
      <3>7. \A e \in DOMAIN ToWrite : e = f \/ e \in Unwritten'
        <4> SUFFICES ASSUME NEW i \in 1..Len(left[t]) PROVE left[t][i] = f \/ left[t][i] \in Unwritten'
          BY <2>1
        <4>1. CASE i = 1
          BY <2>1, <4>1 DEF f
        <4>2. CASE i # 1
          <5>1. i - 1 \in 1..(Len(left[t]) - 1) /\ (i - 1) + 1 = i
            BY <3>3, <4>2
          <5>2. left[t][i] = left'[t][i - 1] /\ left[t][i] # Commit
            BY <2>1, <3>2, <5>1, GroupsAssumption
          <5> QED BY <3>2, <3>4, <5>1, <5>2
        <4> QED BY <4>1, <4>2
      <3>8. \A e \in DOMAIN ToWrite : ToWrite[e] = log[t].stamp
        BY <2>1, UnwrittenIs
      <3>9. ToWrite' = [e \in Unwritten' |-> log[t].stamp]
        BY <2>1, <3>1 DEF ToWrite
      <3>10. CASE f \in Unwritten'
        <4>1. Unwritten' = DOMAIN ToWrite
          BY <3>6, <3>7, <3>10
        <4>2. ToWrite = [e \in DOMAIN ToWrite |-> ToWrite[e]]
          BY UnwrittenIs
        <4>3. ToWrite' = ToWrite
          BY <3>8, <3>9, <4>1, <4>2
        <4> QED BY <2>1, <4>3 DEF Promise!Next, Promise!Touch
      <3>11. CASE f \notin Unwritten'
        <4>1. Unwritten' = DOMAIN ToWrite \ {f}
          BY <3>6, <3>7, <3>11
        <4>2. ToWrite' = [e \in DOMAIN ToWrite \ {f} |-> ToWrite[e]]
          BY <3>8, <3>9, <4>1
        <4> QED BY <2>1, <2>2, <4>2 DEF Promise!Next, Promise!Settle, AsWritten
      <3> QED BY <3>10, <3>11
    <2>4. CASE ~(Len(left[t]) > 1)
      <3>1. holder' = None
        BY <2>4 DEF FrameWritten
      <3>2. Unwritten' = {}
        BY <3>1 DEF Unwritten
      <3>3. DOMAIN ToWrite \ {f} = {}
        <4>1. \A i \in 1..Len(left[t]) : i = 1
          BY <2>1, <2>4
        <4>2. f = left[t][1]
          BY <2>1 DEF f
        <4> QED BY <2>1, <4>1, <4>2
      <3>4. ToWrite' = [e \in DOMAIN ToWrite \ {f} |-> ToWrite[e]]
        BY <3>2, <3>3 DEF ToWrite
      <3> QED BY <2>1, <2>2, <3>4 DEF Promise!Next, Promise!Settle, AsWritten
    <2> QED BY <2>3, <2>4
  <1> QED BY <1>2, <1>3, <1>4

LEMMA FrameFailsConfigures ==
    ASSUME IInv, NEW t \in Task, FrameFails(t)
    PROVE  [Promise!Next]_(Promise!vars)
  <1>1. /\ pc[t] = "writing" /\ holder' = None
        /\ Reaches(t) \/ UNCHANGED <<staged, applied>>
    BY DEF FrameFails, charger
  <1>2. left[t] = <<Commit>> \/ Midway(t)
    BY <1>1 DEF IInv, TaskInv, ListInv
  <1>3. CASE left[t] = <<Commit>>
    BY <1>1, <1>3, CommitConfigures
  <1>4. CASE Midway(t)
    <2>1. DOMAIN ToWrite' = {}
      BY <1>1 DEF ToWrite, Unwritten
    <2>2. applied' = applied
      BY <1>1, <1>4, FrameReachesField
    <2>3. staged' = staged \/ \E f \in Field : Promise!Reaches(f)
      BY <1>1, <1>4, FrameReachesField
    <2> QED BY <2>1, <2>2, <2>3 DEF Promise!Next, Promise!GiveUp
  <1> QED BY <1>2, <1>3, <1>4

\* The methods implement the abstract configuration: one list at a time, each
\* field ending with what its list asked, no commit in the middle of one.
THEOREM MethodsConfigure == Spec => ConfiguresInTurn
  <1>1. Init => Promise!Init
    BY UnwrittenIs DEF Init, Promise!Init
  <1>2. IInv /\ [Next]_vars => [Promise!Next]_(Promise!vars)
    <2> SUFFICES ASSUME IInv, [Next]_vars PROVE [Promise!Next]_(Promise!vars)
      OBVIOUS
    <2>1. ASSUME NEW t \in Task, Apart(t) PROVE UNCHANGED Promise!vars
      <3>1. holder # None => holder \in Task \ {t}
        BY <2>1, TypedHalves DEF IInv, RestTyped, HolderInv, Apart
      <3> QED BY <2>1, <3>1, ApartStutters DEF Apart
    <2>2. ASSUME NEW t \in Task,
                 \/ \E c \in Offered : Begin(t, c)
                 \/ Answered(t) \/ NotAnswered(t) \/ AnsweredStale(t) \/ NotDelivered(t)
                 \/ Fails(t) \/ LimitChecked(t) \/ LimitWritten(t) \/ PasswordRead(t)
                 \/ ControlAnswered(t) \/ StatusGoesOn(t) \/ AlarmWordRead(t) \/ Cancelled(t)
          PROVE  UNCHANGED Promise!vars
      BY <2>1, <2>2, MethodsApart
    <2>3. ASSUME NEW t \in Task, ListBegins(t) \/ FrameWritten(t) \/ FrameFails(t)
          PROVE  [Promise!Next]_(Promise!vars)
      BY <2>3, ListBeginsConfigures, FrameWrittenConfigures, FrameFailsConfigures
    <2>4. CASE SessionChanges \/ FaultRises \/ LinkDrops \/ Restarts \/ Reconnects
      <3>1. UNCHANGED <<client, staged, applied, history>>
        BY <2>4 DEF SessionChanges, FaultRises, LinkDrops, Restarts, Reconnects, charger
      <3> QED BY <3>1, ApartStutters DEF client, history
    <2>5. CASE UNCHANGED vars
      <3>1. UNCHANGED <<client, charger, history>>
        BY <2>5 DEF vars
      <3> QED BY <3>1, ApartStutters DEF client, charger, history
    <2> QED BY <2>2, <2>3, <2>4, <2>5 DEF Next
  <1> QED BY <1>1, <1>2, Invariance, PTL DEF Spec, ConfiguresInTurn, Promise!Spec
=============================================================================
