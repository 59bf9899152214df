------------------------ MODULE ChargerClientProofs ------------------------
(* Machine-checked facts about ChargerClient, for every value of its constants. *)
EXTENDS ChargerClient, FiniteSetTheorems, TLAPS

(***************************************************************************)
(* Sequences: what is left when one entry of a queue is removed.           *)
(***************************************************************************)
LEMMA RemoveOne ==
    ASSUME NEW S, NEW q \in Seq(S), NEW k \in 1..Len(q)
    PROVE  LET r == SubSeq(q, 1, k - 1) \o SubSeq(q, k + 1, Len(q))
           IN  /\ r \in Seq(S)
               /\ Len(r) = Len(q) - 1
               /\ \A n \in 1..Len(r) : r[n] = IF n < k THEN q[n] ELSE q[n + 1]
  <1> DEFINE m == Len(q)
             a == SubSeq(q, 1, k - 1)
             b == SubSeq(q, k + 1, m)
  <1>1. m \in Nat /\ k \in Nat /\ 1 <= k /\ k <= m
    OBVIOUS
  <1>2. a \in Seq(S) /\ Len(a) = k - 1
    BY <1>1
  <1>3. \A n \in 1..(k - 1) : a[n] = q[n]
    BY <1>1
  <1>4. b \in Seq(S) /\ Len(b) = m - k
    BY <1>1
  <1>5. \A n \in 1..(m - k) : b[n] = q[n + k]
    BY <1>1
  <1> HIDE DEF a, b, m
  <1>6. a \o b \in Seq(S) /\ Len(a \o b) = m - 1
    BY <1>1, <1>2, <1>4
  <1>7. ASSUME NEW n \in 1..(m - 1)
        PROVE  (a \o b)[n] = IF n < k THEN q[n] ELSE q[n + 1]
    <2>1. n \in Nat /\ 1 <= n /\ n <= m - 1
      BY <1>1
    <2>2. CASE n < k
      <3>1. n \in 1..Len(a)
        BY <2>1, <2>2, <1>1, <1>2
      <3>2. (a \o b)[n] = a[n]
        BY <3>1, <1>2, <1>4
      <3> QED BY <3>1, <3>2, <2>2, <1>2, <1>3
    <2>3. CASE k <= n
      <3>1. n - (k - 1) \in 1..(m - k) /\ ~(n < k)
        BY <2>1, <2>3, <1>1
      <3>2. n \in Len(a)+1 .. Len(a)+Len(b) /\ n - Len(a) = n - (k - 1)
        BY <3>1, <1>1, <1>2, <1>4, <2>1
      <3>3. (a \o b)[n] = b[n - Len(a)]
        BY <3>2, <1>2, <1>4
      <3>4. b[n - (k - 1)] = q[(n - (k - 1)) + k]
        BY <3>1, <1>5
      <3>5. (n - (k - 1)) + k = n + 1
        BY <2>1, <1>1
      <3> QED BY <3>1, <3>2, <3>3, <3>4, <3>5
    <2>4. n < k \/ k <= n
      BY <2>1, <1>1
    <2> QED BY <2>2, <2>3, <2>4
  <1> QED BY <1>6, <1>7 DEF a, b, m

LEMMA TailOf ==
    ASSUME NEW S, NEW q \in Seq(S), NEW m \in Nat, Len(q) = m, m > 1
    PROVE  /\ Tail(q) \in Seq(S) /\ Tail(q) # <<>>
           /\ \A i \in 1..Len(Tail(q)) : i + 1 \in 1..Len(q) /\ Tail(q)[i] = q[i + 1]
  <1>1. q # <<>>
    OBVIOUS
  <1>2. Tail(q) \in Seq(S) /\ Len(Tail(q)) = m - 1
    BY <1>1
  <1>3. \A i \in 1..(m - 1) : Tail(q)[i] = q[i + 1]
    BY <1>1
  <1>4. Tail(q) # <<>>
    BY <1>2
  <1>5. \A i \in 1..(m - 1) : i + 1 \in 1..m
    OBVIOUS
  <1> QED BY <1>2, <1>3, <1>4, <1>5

-----------------------------------------------------------------------------
(***************************************************************************)
(* Type correctness.                                                       *)
(***************************************************************************)

\* A job is a well-formed call, with keys of the right class.
LEMMA JobTyped ==
    ASSUME TypeOK, NEW job \in Job
    PROVE  /\ NewCall(job) \in CallState
           /\ NewCall(job).kind = job.kind /\ NewCall(job).frames = job.frames
           /\ job.kind \in {"request", "write", "history"}
           /\ job.frames \in Seq(Key) /\ job.frames # <<>>
           /\ job.kind = "request" => Head(job.frames) \in RequestKey
           /\ job.kind # "request" =>
                \A i \in 1..Len(job.frames) : job.frames[i] \notin RequestKey
  <1>1. job.kind \in {"request", "write", "history"}
    BY DEF Job
  <1>2. job.frames \in Seq(Key) /\ job.frames # <<>>
    <2>1. CASE \E k \in RequestKey \cup HistoryKey : job.frames = <<k>>
      <3>1. PICK k \in RequestKey \cup HistoryKey : job.frames = <<k>>
        BY <2>1
      <3>2. k \in Key
        BY KeysAssumption
      <3> QED BY <3>1, <3>2
    <2>2. CASE job.frames \in Setter
      <3>1. job.frames \in Seq(Key \ (RequestKey \cup HistoryKey)) /\ job.frames # <<>>
        BY <2>2, KeysAssumption
      <3> QED BY <3>1
    <2>3. (\E k \in RequestKey \cup HistoryKey : job.frames = <<k>>) \/ job.frames \in Setter
      BY DEF Job
    <2> QED BY <2>1, <2>2, <2>3
  <1>3. job.kind = "request" => Head(job.frames) \in RequestKey
    BY KeysAssumption DEF Job
  <1>4. ASSUME job.kind # "request", NEW i \in 1..Len(job.frames)
        PROVE  job.frames[i] \notin RequestKey
    <2>1. CASE job.frames \in Setter
      BY <2>1, KeysAssumption
    <2>2. CASE \E k \in HistoryKey : job.frames = <<k>>
      BY <2>2, KeysAssumption
    <2> QED BY <1>4, <2>1, <2>2 DEF Job
  <1>5. NewCall(job) \in CallState
    <2>1. calls + 1 \in Nat
      BY DEF TypeOK
    <2>2. NoCall \in CallState
      BY DEF NoCall, CallState
    <2> QED BY <2>1, <2>2, <1>1, <1>2 DEF NewCall, CallState
  <1>6. NewCall(job).kind = job.kind /\ NewCall(job).frames = job.frames
    BY DEF NewCall, NoCall
  <1> QED BY <1>1, <1>2, <1>3, <1>4, <1>5, <1>6

LEMMA FrameTyped ==
    ASSUME TypeOK, CallInv, NEW c \in Caller, pc[c] # "idle"
    PROVE  /\ Frame(c) \in Key
           /\ Frame(c).reg \in Register /\ Frame(c).flag \in Flag
  <1>1. call[c].frames \in Seq(Key) /\ call[c].frames # <<>>
    BY DEF TypeOK, CallInv, CallState
  <1>2. Frame(c) \in Key
    BY <1>1 DEF Frame
  <1> QED BY <1>2 DEF Key

LEMMA QueueTyped ==
    ASSUME TypeOK, LockInv, NEW c \in Caller, pc[c] = "queued"
    PROVE  /\ QueueWithout(c) \in Seq(Caller)
           /\ \A i, j \in 1..Len(QueueWithout(c)) :
                QueueWithout(c)[i] = QueueWithout(c)[j] => i = j
           /\ \A d \in Caller :
                (\E i \in 1..Len(QueueWithout(c)) : QueueWithout(c)[i] = d)
                  <=> d # c /\ \E i \in 1..Len(queue) : queue[i] = d
  <1> DEFINE k == CHOOSE n \in 1..Len(queue) : queue[n] = c
             r == QueueWithout(c)
  <1>1. k \in 1..Len(queue) /\ queue[k] = c
    BY DEF LockInv
  <1>2. /\ r \in Seq(Caller)
        /\ Len(r) = Len(queue) - 1
        /\ \A n \in 1..Len(r) : r[n] = IF n < k THEN queue[n] ELSE queue[n + 1]
    BY <1>1, RemoveOne DEF QueueWithout, TypeOK
  <1>3. Len(queue) \in Nat
    BY DEF TypeOK
  <1>4. \A i, j \in 1..Len(queue) : queue[i] = queue[j] => i = j
    BY DEF LockInv
  <1> HIDE DEF k, r
  <1>5. ASSUME NEW i \in 1..Len(r), NEW j \in 1..Len(r), r[i] = r[j]
        PROVE  i = j
    <2>1. /\ i \in 1..(Len(queue) - 1) /\ j \in 1..(Len(queue) - 1)
          /\ i \in Nat /\ j \in Nat /\ k \in Nat
      BY <1>1, <1>2, <1>3
    <2>2. CASE i < k /\ j < k
      BY <2>1, <2>2, <1>2, <1>3, <1>4, <1>5
    <2>3. CASE i < k /\ ~(j < k)
      <3>1. queue[i] = queue[j + 1] /\ i \in 1..Len(queue) /\ j + 1 \in 1..Len(queue)
        BY <2>1, <2>3, <1>2, <1>3, <1>5
      <3>2. i = j + 1
        BY <3>1, <1>4
      <3> QED BY <3>2, <2>1, <2>3
    <2>4. CASE ~(i < k) /\ j < k
      <3>1. queue[i + 1] = queue[j] /\ i + 1 \in 1..Len(queue) /\ j \in 1..Len(queue)
        BY <2>1, <2>4, <1>2, <1>3, <1>5
      <3>2. i + 1 = j
        BY <3>1, <1>4
      <3> QED BY <3>2, <2>1, <2>4
    <2>5. CASE ~(i < k) /\ ~(j < k)
      <3>1. queue[i + 1] = queue[j + 1] /\ i + 1 \in 1..Len(queue) /\ j + 1 \in 1..Len(queue)
        BY <2>1, <2>5, <1>2, <1>3, <1>5
      <3>2. i + 1 = j + 1
        BY <3>1, <1>4
      <3> QED BY <3>2, <2>1
    <2> QED BY <2>2, <2>3, <2>4, <2>5
  <1>6. ASSUME NEW d \in Caller, NEW i \in 1..Len(r), r[i] = d
        PROVE  d # c /\ \E j \in 1..Len(queue) : queue[j] = d
    BY <1>1, <1>2, <1>3, <1>4, <1>6
  <1>7. ASSUME NEW d \in Caller, d # c, NEW j \in 1..Len(queue), queue[j] = d
        PROVE  \E i \in 1..Len(r) : r[i] = d
    <2>1. j # k
      BY <1>1, <1>7
    <2>2. CASE j < k
      BY <2>2, <1>1, <1>2, <1>3, <1>7
    <2>3. CASE j > k
      <3>1. j - 1 \in 1..Len(r) /\ r[j - 1] = queue[j]
        BY <2>3, <1>1, <1>2, <1>3
      <3> QED BY <3>1, <1>7
    <2> QED BY <2>1, <2>2, <2>3, <1>1, <1>3
  <1> QED BY <1>2, <1>5, <1>6, <1>7 DEF r

-----------------------------------------------------------------------------
(***************************************************************************)
(* The inductive invariant holds initially.                                *)
(***************************************************************************)

LEMMA InitInv == Init => IInv
  <1> SUFFICES ASSUME Init PROVE IInv
    OBVIOUS
  <1>1. TypeOK
    <2>1. NoCall \in CallState
      BY DEF NoCall, CallState
    <2>2. queue = <<>> /\ <<>> \in Seq(Caller)
      BY DEF Init
    <2>3. /\ sends = {} /\ strays = {} /\ bulk = {} /\ owed = {} /\ tainted = {}
          /\ calls = 0 /\ lock = None /\ bulkEvent = FALSE /\ linkUp = FALSE
      BY DEF Init
    <2>4. /\ pc = [c \in Caller |-> "idle"] /\ call = [c \in Caller |-> NoCall]
          /\ outcome = [c \in Caller |-> "none"] /\ waiters = [r \in Register |-> None]
      BY DEF Init
    <2> QED BY <2>1, <2>2, <2>3, <2>4 DEF TypeOK, Inside
  <1>2. LockInv
    BY NoneAssumption DEF Init, LockInv, Inside
  <1>3. CallInv
    BY DEF Init, CallInv, NoCall
  <1>4. SendsInv /\ OwedInv /\ StraysInv
    BY DEF Init, SendsInv, OwedInv, StraysInv
  <1>5. RegisteredByHolder
    BY DEF Init, RegisteredByHolder
  <1>6. NothingOrphaned /\ DropSettles /\ HistoryIsFresh
    BY DEF Init, NothingOrphaned, DropSettles, HistoryIsFresh, Inside
  <1>7. AnsweredInv
    BY DEF Init, AnsweredInv, OwnAnswer, NoCall
  <1>8. RelayedInv
    BY DEF Init, RelayedInv, Inside
  <1> QED BY <1>1, <1>2, <1>3, <1>4, <1>5, <1>6, <1>7, <1>8 DEF IInv

-----------------------------------------------------------------------------
(***************************************************************************)
(* Entering and leaving a call preserve it.                                *)
(***************************************************************************)

\* While the lock is free nothing is registered and no reply of a key without
\* failures is owed.
LEMMA FreeLock ==
    ASSUME IInv, lock = None
    PROVE  /\ \A d \in Caller : pc[d] \notin Inside
           /\ waiters = [r \in Register |-> None]
           /\ sends = {}
           /\ \A o \in owed : o.key \notin RequestKey \ tainted
  <1>1. \A d \in Caller : pc[d] \notin Inside
    BY NoneAssumption DEF IInv, LockInv
  <1>2. \A r \in Register : waiters[r] = None
    BY NoneAssumption DEF IInv, RegisteredByHolder, TypeOK
  <1>3. waiters = [r \in Register |-> None]
    BY <1>2 DEF IInv, TypeOK
  <1>4. sends = {}
    BY NoneAssumption DEF IInv, RegisteredByHolder, TypeOK
  <1>5. \A o \in owed : o.key \notin RequestKey \ tainted
    BY NoneAssumption DEF IInv, OwedInv
  <1> QED BY <1>1, <1>3, <1>4, <1>5

LEMMA EnterInv ==
    ASSUME IInv, lock = None,
           NEW c \in Caller, pc[c] \in {"idle", "queued"},
           NEW s \in CallState, Enter(c, s),
           s.kind # "none", s.frames # <<>>,
           s.kind = "request" => Head(s.frames) \in RequestKey,
           s.kind # "request" => \A i \in 1..Len(s.frames) : s.frames[i] \notin RequestKey,
           s.answer = None, s.cut = "no",
           calls' \in Nat, queue' \in Seq(Caller),
           \A i, j \in 1..Len(queue') : queue'[i] = queue'[j] => i = j,
           \A d \in Caller : (\E i \in 1..Len(queue') : queue'[i] = d)
                               <=> d # c /\ \E i \in 1..Len(queue) : queue[i] = d
    PROVE  IInv'
  <1>1. /\ \A d \in Caller : pc[d] \notin Inside
        /\ waiters = [r \in Register |-> None]
        /\ sends = {}
        /\ \A o \in owed : o.key \notin RequestKey \ tainted
    BY FreeLock
  <1>2. /\ call \in [Caller -> CallState] /\ pc \in [Caller -> Inside \cup {"idle", "queued"}]
        /\ waiters \in [Register -> [who : Caller, flag : Flag] \cup {None}]
    BY DEF IInv, TypeOK
  <1>3. Head(s.frames) \in Key
    BY DEF CallState
  <1> DEFINE t == [s EXCEPT !.fut = "pending", !.send = "scheduled"]
  <1>t. /\ t \in CallState
        /\ t.fut = "pending" /\ t.send = "scheduled" /\ t.kind = s.kind
        /\ t.frames = s.frames /\ t.answer = s.answer /\ t.cut = s.cut
        /\ t.serial = s.serial
    BY DEF CallState
  <1>u. call' = [call EXCEPT ![c] = t]
    BY DEF Enter
  <1> HIDE DEF t
  <1>4. /\ call'[c] = t
        /\ \A d \in Caller : d # c => call'[d] = call[d]
        /\ call' \in [Caller -> CallState]
    BY <1>2, <1>t, <1>u
  <1>5. /\ call'[c].fut = "pending" /\ call'[c].send = "scheduled"
        /\ call'[c].kind = s.kind /\ call'[c].frames = s.frames
        /\ call'[c].answer = None /\ call'[c].cut = "no"
        /\ call'[c].serial = s.serial
    BY <1>4, <1>t
  <1>6. /\ pc'[c] = "delivering" /\ lock' = c
        /\ \A d \in Caller : d # c => pc'[d] = pc[d]
        /\ pc' \in [Caller -> Inside \cup {"idle", "queued"}]
    BY <1>2 DEF Enter, Inside
  <1>7. /\ s.kind = "request" =>
             /\ waiters' = [waiters EXCEPT ![Head(s.frames).reg] =
                               [who |-> c, flag |-> Head(s.frames).flag]]
             /\ sends' = {}
        /\ s.kind # "request" => waiters' = waiters /\ sends' = {c}
    BY <1>1 DEF Enter
  <1>8. Frame(c)' = Head(s.frames)
    BY <1>5 DEF Frame
  <1>9. TypeOK'
    <2>1. waiters' \in [Register -> [who : Caller, flag : Flag] \cup {None}]
      BY <1>2, <1>3, <1>7 DEF Key
    <2>2. sends' \subseteq Caller
      BY <1>7
    <2>3. bulk' \subseteq [of : Nat, at : Nat] /\ bulkEvent' \in BOOLEAN
      BY DEF Enter, BulkAtStart, IInv, TypeOK
    <2>4. /\ outcome' = outcome /\ strays' = strays /\ linkUp' = linkUp
          /\ owed' = owed /\ tainted' = tainted
      BY DEF Enter
    <2> QED BY <1>4, <1>6, <2>1, <2>2, <2>3, <2>4 DEF IInv, TypeOK
  <1>10. LockInv'
    <2>1. \A d \in Caller : pc'[d] \in Inside <=> lock' = d
      BY <1>1, <1>6 DEF Inside
    <2>2. \A d \in Caller : pc'[d] = "queued" <=> \E i \in 1..Len(queue') : queue'[i] = d
      BY <1>6 DEF IInv, LockInv
    <2> QED BY <2>1, <2>2 DEF LockInv
  <1>11. CallInv'
    <2> SUFFICES ASSUME NEW d \in Caller
                 PROVE  CallInv!(d)'
      BY DEF CallInv
    <2>1. CASE d = c
      BY <2>1, <1>5, <1>6, <1>8
    <2>2. CASE d # c
      <3>1. CallInv!(d) /\ call'[d] = call[d] /\ pc'[d] = pc[d] /\ Frame(d)' = Frame(d)
        BY <2>2, <1>4, <1>6 DEF IInv, CallInv, Frame
      <3> QED BY <3>1
    <2> QED BY <2>1, <2>2
  <1>12. SendsInv'
    BY <1>5, <1>6, <1>7 DEF SendsInv
  <1>13. RegisteredByHolder'
    <2>1. CASE s.kind = "request"
      <3>1. ASSUME NEW r \in Register, waiters'[r] # None
            PROVE  /\ r = Head(s.frames).reg
                   /\ waiters'[r] = [who |-> c, flag |-> Head(s.frames).flag]
        BY <3>1, <2>1, <1>1, <1>3, <1>7 DEF Key
      <3>2. Head(s.frames) = [reg |-> Head(s.frames).reg, flag |-> Head(s.frames).flag]
        BY <1>3 DEF Key
      <3> QED BY <3>1, <3>2, <2>1, <1>5, <1>6, <1>7, <1>8 DEF RegisteredByHolder
    <2>2. CASE s.kind # "request"
      BY <2>2, <1>1, <1>6, <1>7 DEF RegisteredByHolder
    <2> QED BY <2>1, <2>2
  <1>14. NothingOrphaned'
    <2> SUFFICES ASSUME NEW d \in Caller, pc'[d] \in {"delivering", "awaiting"}
                 PROVE  Registered(d)'
      BY DEF NothingOrphaned
    <2>1. d = c
      BY <1>1, <1>6 DEF Inside
    <2>2. CASE s.kind = "request"
      <3>1. Head(s.frames).reg \in Register
        BY <1>3 DEF Key
      <3>2. waiters'[Head(s.frames).reg] = [who |-> c, flag |-> Head(s.frames).flag]
        BY <3>1, <2>2, <1>2, <1>7
      <3>3. waiters'[Head(s.frames).reg] # None
        BY <3>2, <1>3, NoneAssumption DEF Key
      <3> QED BY <3>1, <3>2, <3>3, <2>1 DEF Registered
    <2>3. CASE s.kind # "request"
      BY <2>1, <2>3, <1>7 DEF Registered
    <2> QED BY <2>2, <2>3
  <1>15. DropSettles'
    BY <1>1, <1>5, <1>6 DEF DropSettles, Inside
  <1>16. HistoryIsFresh'
    BY <1>1, <1>5, <1>6 DEF HistoryIsFresh, Enter, BulkAtStart
  <1>17. OwedInv'
    BY <1>1 DEF OwedInv, Enter
  <1>18. AnsweredInv'
    <2> SUFFICES ASSUME NEW d \in Caller, AnsweredInv!(d)!1'
                 PROVE  call'[d].send \notin {"scheduled", "inflight"}
      BY DEF AnsweredInv
    <2>1. d # c
      BY <1>5 DEF OwnAnswer
    <2>2. call'[d] = call[d] /\ tainted' = tainted
      BY <2>1, <1>4 DEF Enter
    <2> QED BY <2>2 DEF IInv, AnsweredInv, OwnAnswer, Frame
  <1>19. StraysInv'
    BY DEF IInv, StraysInv, Enter
  <1>20. RelayedInv'
    <2> SUFFICES ASSUME NEW d \in Caller
                 PROVE  RelayedInv!(d)'
      BY DEF RelayedInv
    <2>1. CASE d = c
      BY <2>1, <1>5, <1>6
    <2>2. CASE d # c
      BY <2>2, <1>1, <1>6 DEF Inside
    <2> QED BY <2>1, <2>2
  <1> QED BY <1>9, <1>10, <1>11, <1>12, <1>13, <1>14, <1>15, <1>16, <1>17, <1>18, <1>19,
             <1>20
          DEF IInv

LEMMA LeaveInv ==
    ASSUME IInv, NEW c \in Caller, pc[c] \in Inside,
           NEW o \in {"ok", "timeout", "error", "cancelled"}, Leave(c, o)
    PROVE  IInv'
  <1>1. /\ call \in [Caller -> CallState] /\ pc \in [Caller -> Inside \cup {"idle", "queued"}]
        /\ waiters \in [Register -> [who : Caller, flag : Flag] \cup {None}]
        /\ call[c] \in CallState /\ call[c].serial \in Nat
    BY DEF IInv, TypeOK, CallState
  <1>2. pc[c] # "idle" /\ lock = c /\ \A d \in Caller : d # c => pc[d] \notin Inside
    BY DEF IInv, LockInv, Inside
  <1>3. Frame(c) \in Key /\ Frame(c).reg \in Register
    BY <1>2, FrameTyped DEF IInv
  <1>4. NoCall \in CallState
    BY DEF NoCall, CallState
  <1>5. /\ call'[c] = NoCall /\ \A d \in Caller : d # c => call'[d] = call[d]
        /\ call' \in [Caller -> CallState]
    BY <1>1, <1>4 DEF Leave
  <1>6. /\ pc'[c] = "idle" /\ \A d \in Caller : d # c => pc'[d] = pc[d]
        /\ pc' \in [Caller -> Inside \cup {"idle", "queued"}] /\ lock' = None
        /\ \A d \in Caller : pc'[d] \notin Inside
    BY <1>1, <1>2 DEF Leave, Inside
  <1>7. \A r \in Register : waiters'[r] = None
    <2> SUFFICES ASSUME NEW r \in Register PROVE waiters'[r] = None
      OBVIOUS
    <2>1. waiters[r] # None => /\ call[c].kind = "request"
                              /\ Frame(c) = [reg |-> r, flag |-> waiters[r].flag]
      BY <1>2 DEF IInv, RegisteredByHolder
    <2>2. CASE call[c].kind = "request"
      BY <2>1, <2>2, <1>1, <1>3 DEF Leave, WaitersWithout
    <2>3. CASE call[c].kind # "request"
      BY <2>1, <2>3 DEF Leave, WaitersWithout
    <2> QED BY <2>2, <2>3
  <1>8. sends' = {}
    BY <1>2 DEF Leave, IInv, RegisteredByHolder
  <1>9. TypeOK'
    <2>1. waiters' \in [Register -> [who : Caller, flag : Flag] \cup {None}]
      BY <1>1, <1>3 DEF Leave, WaitersWithout
    <2>2. outcome' \in [Caller -> {"none", "ok", "timeout", "error", "cancelled"}]
      BY DEF Leave, IInv, TypeOK
    <2>3. strays' \subseteq Nat
      BY <1>1 DEF Leave, IInv, TypeOK
    <2>4. bulk' \subseteq [of : Nat, at : Nat] /\ tainted' \subseteq Key
      BY <1>3 DEF Leave, IInv, TypeOK
    <2>5. UNCHANGED <<queue, bulkEvent, linkUp, owed, calls>>
      BY DEF Leave
    <2> QED BY <1>5, <1>6, <1>8, <2>1, <2>2, <2>3, <2>4, <2>5 DEF IInv, TypeOK
  <1>10. LockInv'
    <2>1. \A d \in Caller : pc'[d] \in Inside <=> lock' = d
      BY <1>6, NoneAssumption
    <2>2. \A d \in Caller : pc'[d] = "queued" <=> pc[d] = "queued"
      BY <1>6 DEF Inside
    <2>3. queue' = queue
      BY DEF Leave
    <2> QED BY <2>1, <2>2, <2>3 DEF IInv, LockInv
  <1>11. CallInv'
    <2> SUFFICES ASSUME NEW d \in Caller
                 PROVE  CallInv!(d)'
      BY DEF CallInv
    <2>1. CASE d = c
      BY <2>1, <1>5, <1>6 DEF NoCall
    <2>2. CASE d # c
      <3>1. CallInv!(d) /\ call'[d] = call[d] /\ pc'[d] = pc[d] /\ Frame(d)' = Frame(d)
        BY <2>2, <1>5, <1>6 DEF IInv, CallInv, Frame
      <3> QED BY <3>1
    <2> QED BY <2>1, <2>2
  <1>12. SendsInv' /\ RegisteredByHolder'
    BY <1>7, <1>8 DEF SendsInv, RegisteredByHolder
  <1>13. NothingOrphaned' /\ DropSettles' /\ HistoryIsFresh'
    BY <1>6 DEF NothingOrphaned, DropSettles, HistoryIsFresh, Inside
  <1>14. OwedInv'
    <2> SUFFICES ASSUME NEW w \in owed', w.key \in RequestKey \ tainted'
                 PROVE  FALSE
      BY DEF OwedInv
    <2>1. w \in owed /\ w.key \in RequestKey \ tainted
      BY DEF Leave
    <2>2. w.key = Frame(c) /\ call[c].cut = "no" /\ ~OwnAnswer(c)
      BY <2>1, <1>2 DEF IInv, OwedInv
    <2>3. call[c].kind = "request"
      <3>1. call[c].frames # <<>> /\ call[c].frames \in Seq(Key)
        BY <1>1, <1>2 DEF IInv, CallInv, CallState
      <3>2. Frame(c) = call[c].frames[1] /\ 1 \in 1..Len(call[c].frames)
        BY <3>1 DEF Frame
      <3> QED BY <3>2, <2>1, <2>2, <1>2 DEF IInv, CallInv
    <2> QED BY <2>1, <2>2, <2>3 DEF Leave
  <1>15. AnsweredInv'
    <2> SUFFICES ASSUME NEW d \in Caller, AnsweredInv!(d)!1'
                 PROVE  call'[d].send \notin {"scheduled", "inflight"}
      BY DEF AnsweredInv
    <2>1. d # c
      BY <1>5 DEF OwnAnswer, NoCall
    <2>2. call'[d] = call[d] /\ tainted \subseteq tainted'
      BY <2>1, <1>5 DEF Leave
    <2> QED BY <2>2 DEF IInv, AnsweredInv, OwnAnswer, Frame
  <1>16. StraysInv'
    BY DEF IInv, StraysInv, Leave
  <1>17. RelayedInv'
    BY <1>6 DEF RelayedInv, Inside
  <1> QED BY <1>9, <1>10, <1>11, <1>12, <1>13, <1>14, <1>15, <1>16, <1>17 DEF IInv

\* A step that changes the send of the call inside the lock, or cancels its
\* wait, and at most adds the reply to the frame that has just been delivered.
LEMMA UpdateInv ==
    ASSUME IInv, NEW c \in Caller, pc[c] \in Inside, NEW s \in CallState,
           call' = [call EXCEPT ![c] = s],
           s.kind = call[c].kind, s.frames = call[c].frames,
           s.serial = call[c].serial, s.answer = call[c].answer, s.cut = call[c].cut,
           s.fut = call[c].fut \/ (pc[c] = "awaiting" /\ s.fut = "cancelled"),
           s.send \in {"scheduled", "inflight"} => call[c].send \in {"scheduled", "inflight"},
           s.send # "none",
           s.send = "scheduled" => call[c].send = "scheduled",
           pc[c] = "awaiting" /\ s.cancel # "no" => s.fut # "pending",
           pc[c] = "finishing" /\ s.cancel # "no" => s.send \notin {"inflight", "delivered"},
           pc[c] = "collecting" => s.cancel # "timeout",
           \/ owed' = owed
           \/ /\ owed' = owed \cup {[call |-> call[c].serial, key |-> Frame(c)]}
              /\ call[c].send = "inflight" /\ call[c].cut = "no" /\ s.send = "delivered",
           UNCHANGED <<pc, outcome, lock, queue, waiters, sends, strays, bulk,
                       bulkEvent, linkUp, tainted, calls>>
    PROVE  IInv'
  <1>1. /\ call \in [Caller -> CallState] /\ pc[c] # "idle" /\ pc[c] # "queued"
        /\ lock = c
    BY DEF IInv, TypeOK, LockInv, Inside
  <1>2. /\ call'[c] = s /\ \A d \in Caller : d # c => call'[d] = call[d]
        /\ call' \in [Caller -> CallState]
    BY <1>1
  <1>3. Frame(c) \in Key
    BY <1>1, FrameTyped DEF IInv
  <1>4. \A d \in Caller : Frame(d)' = Frame(d)
    BY <1>2 DEF Frame
  <1>5. \A d \in Caller : OwnAnswer(d)' <=> OwnAnswer(d)
    BY <1>2 DEF OwnAnswer
  <1>6. \A d \in Caller : Registered(d)' <=> Registered(d)
    BY DEF Registered
  <1>7. TypeOK'
    <2>1. owed' \subseteq Reply
      BY <1>1, <1>3 DEF IInv, TypeOK, CallState, Reply
    <2> QED BY <1>2, <2>1 DEF IInv, TypeOK
  <1>8. LockInv' /\ StraysInv'
    BY DEF IInv, LockInv, StraysInv
  <1>9. CallInv'
    <2> SUFFICES ASSUME NEW d \in Caller
                 PROVE  CallInv!(d)'
      BY DEF CallInv
    <2>1. CallInv!(d)
      BY DEF IInv, CallInv
    <2>2. CASE d = c
      BY <2>1, <2>2, <1>1, <1>2, <1>4
    <2>3. CASE d # c
      BY <2>1, <2>3, <1>2, <1>4
    <2> QED BY <2>2, <2>3
  <1>10. SendsInv'
    BY <1>2 DEF IInv, SendsInv, TypeOK
  <1>11. RegisteredByHolder'
    BY <1>1, <1>2, <1>4 DEF IInv, RegisteredByHolder
  <1>12. NothingOrphaned'
    BY <1>2, <1>6 DEF IInv, NothingOrphaned
  <1>13. DropSettles'
    BY <1>2 DEF IInv, DropSettles
  <1>14. HistoryIsFresh'
    BY <1>2 DEF IInv, HistoryIsFresh
  <1>15. OwedInv'
    <2> SUFFICES ASSUME NEW o \in owed', o.key \in RequestKey \ tainted
                 PROVE  /\ o = [call |-> call[c].serial, key |-> Frame(c)]
                        /\ s.send \notin {"scheduled", "inflight"}
                        /\ call[c].cut = "no" /\ ~OwnAnswer(c)
      BY <1>1, <1>2, <1>4, <1>5 DEF OwedInv
    <2>1. CASE o \in owed
      BY <2>1, <1>1 DEF IInv, OwedInv
    <2>2. CASE o \notin owed
      <3>1. /\ o = [call |-> call[c].serial, key |-> Frame(c)]
            /\ call[c].send = "inflight" /\ call[c].cut = "no" /\ s.send = "delivered"
        BY <2>2
      <3> QED BY <3>1 DEF IInv, AnsweredInv
    <2> QED BY <2>1, <2>2
  <1>16. AnsweredInv'
    BY <1>2, <1>4, <1>5 DEF IInv, AnsweredInv
  <1>17. RelayedInv'
    BY <1>2 DEF IInv, RelayedInv
  <1> QED BY <1>7, <1>8, <1>9, <1>10, <1>11, <1>12, <1>13, <1>14, <1>15, <1>16, <1>17 DEF IInv

\* A step that moves no task and touches no future.
LEMMA QuietInv ==
    ASSUME IInv,
           UNCHANGED <<pc, call, lock, queue, waiters, sends, tainted, calls>>,
           owed' \subseteq owed, strays' \subseteq strays,
           outcome' \in [Caller -> {"none", "ok", "timeout", "error", "cancelled"}],
           bulkEvent' \in BOOLEAN, linkUp' \in BOOLEAN,
           bulk' \subseteq [of : Nat, at : Nat], HistoryIsFresh'
    PROVE  IInv'
  <1>1. \A d \in Caller : /\ Frame(d)' = Frame(d) /\ (OwnAnswer(d)' <=> OwnAnswer(d))
                         /\ (Registered(d)' <=> Registered(d))
    BY DEF Frame, OwnAnswer, Registered
  <1>2. TypeOK'
    BY DEF IInv, TypeOK
  <1>3. LockInv' /\ StraysInv' /\ SendsInv' /\ DropSettles'
    BY DEF IInv, LockInv, StraysInv, SendsInv, DropSettles
  <1>4. CallInv'
    BY <1>1 DEF IInv, CallInv
  <1>5. RegisteredByHolder'
    BY DEF IInv, RegisteredByHolder, Frame
  <1>6. NothingOrphaned'
    BY <1>1 DEF IInv, NothingOrphaned
  <1>7. OwedInv' /\ AnsweredInv' /\ RelayedInv'
    BY <1>1 DEF IInv, OwedInv, AnsweredInv, RelayedInv
  <1> QED BY <1>2, <1>3, <1>4, <1>5, <1>6, <1>7 DEF IInv

-----------------------------------------------------------------------------
(***************************************************************************)
(* Every other action preserves it.                                        *)
(***************************************************************************)

LEMMA QueuesInv ==
    ASSUME IInv, NEW c \in Caller, NEW job \in Job, CallQueues(c, job)
    PROVE  IInv'
  <1>1. /\ call \in [Caller -> CallState] /\ pc \in [Caller -> Inside \cup {"idle", "queued"}]
        /\ queue \in Seq(Caller) /\ calls \in Nat /\ pc[c] = "idle" /\ lock # c
    BY DEF IInv, TypeOK, CallQueues, LockInv, Inside
  <1>2. /\ NewCall(job) \in CallState
        /\ NewCall(job).kind = job.kind /\ NewCall(job).frames = job.frames
        /\ job.kind \in {"request", "write", "history"}
        /\ job.frames \in Seq(Key) /\ job.frames # <<>>
        /\ job.kind = "request" => Head(job.frames) \in RequestKey
        /\ job.kind # "request" =>
             \A i \in 1..Len(job.frames) : job.frames[i] \notin RequestKey
    BY JobTyped DEF IInv
  <1>3. /\ NewCall(job).fut = "none" /\ NewCall(job).send = "none"
        /\ NewCall(job).cut = "no" /\ NewCall(job).cancel = "no"
        /\ NewCall(job).answer = None
    BY DEF NewCall, NoCall
  <1>4. /\ call'[c] = NewCall(job) /\ \A d \in Caller : d # c => call'[d] = call[d]
        /\ call' \in [Caller -> CallState]
        /\ pc'[c] = "queued" /\ \A d \in Caller : d # c => pc'[d] = pc[d]
        /\ pc' \in [Caller -> Inside \cup {"idle", "queued"}]
    BY <1>1, <1>2 DEF CallQueues
  <1>5. /\ queue' \in Seq(Caller) /\ Len(queue') = Len(queue) + 1
        /\ queue'[Len(queue) + 1] = c
        /\ \A i \in 1..Len(queue) : queue'[i] = queue[i]
        /\ Len(queue) \in Nat
    BY <1>1 DEF CallQueues
  <1>6. \A d \in Caller : /\ d # c => Frame(d)' = Frame(d)
                         /\ (Registered(d)' <=> Registered(d))
    BY <1>4 DEF Frame, Registered, CallQueues
  <1>7. TypeOK'
    BY <1>1, <1>4, <1>5 DEF IInv, TypeOK, CallQueues
  <1>8. LockInv'
    <2>1. \A d \in Caller : pc'[d] \in Inside <=> lock' = d
      BY <1>1, <1>4 DEF IInv, LockInv, CallQueues, Inside
    <2>2. \A i \in 1..Len(queue) : queue[i] # c
      BY <1>1 DEF IInv, LockInv
    <2>3. ASSUME NEW d \in Caller
          PROVE  pc'[d] = "queued" <=> \E i \in 1..Len(queue') : queue'[i] = d
      <3>1. CASE d = c
        BY <3>1, <1>4, <1>5
      <3>2. CASE d # c
        <4>1. pc'[d] = "queued" <=> \E i \in 1..Len(queue) : queue[i] = d
          BY <3>2, <1>4 DEF IInv, LockInv
        <4> QED BY <4>1, <3>2, <1>5
      <3> QED BY <3>1, <3>2
    <2>4. ASSUME NEW i \in 1..Len(queue'), NEW j \in 1..Len(queue'), queue'[i] = queue'[j]
          PROVE  i = j
      <3>1. i \in 1..Len(queue) \/ i = Len(queue) + 1
        BY <1>5
      <3>2. j \in 1..Len(queue) \/ j = Len(queue) + 1
        BY <1>5
      <3> QED BY <3>1, <3>2, <2>2, <2>4, <1>5 DEF IInv, LockInv
    <2> QED BY <2>1, <2>3, <2>4 DEF LockInv
  <1>9. CallInv'
    <2> SUFFICES ASSUME NEW d \in Caller
                 PROVE  CallInv!(d)'
      BY DEF CallInv
    <2>1. CASE d = c
      <3>1. Frame(c)' = Head(job.frames)
        BY <1>2, <1>4 DEF Frame
      <3> QED BY <2>1, <3>1, <1>2, <1>3, <1>4
    <2>2. CASE d # c
      <3>1. CallInv!(d) /\ call'[d] = call[d] /\ pc'[d] = pc[d] /\ Frame(d)' = Frame(d)
        BY <2>2, <1>4, <1>6 DEF IInv, CallInv
      <3> QED BY <3>1
    <2> QED BY <2>1, <2>2
  <1>10. c \notin sends
    BY <1>1 DEF IInv, SendsInv
  <1>11. SendsInv'
    BY <1>4, <1>10 DEF IInv, SendsInv, CallQueues, TypeOK
  <1>12. RegisteredByHolder'
    <2> SUFFICES ASSUME NEW r \in Register, waiters[r] # None
                 PROVE  RegisteredByHolder!2!(r)!2'
      BY DEF RegisteredByHolder, CallQueues, IInv
    <2>1. waiters[r].who \in Caller
      BY DEF IInv, TypeOK
    <2>2. RegisteredByHolder!2!(r)!2 /\ lock \in Caller
      BY <2>1 DEF IInv, RegisteredByHolder
    <2>3. call'[lock] = call[lock] /\ lock' = lock /\ waiters' = waiters
      BY <2>2, <1>1, <1>4 DEF CallQueues
    <2> QED BY <2>2, <2>3 DEF Frame
  <1>13. NothingOrphaned' /\ DropSettles' /\ HistoryIsFresh'
    BY <1>4, <1>6 DEF IInv, NothingOrphaned, DropSettles, HistoryIsFresh, CallQueues, Inside
  <1>14. OwedInv'
    <2>1. owed' = owed /\ tainted' = tainted /\ lock' = lock
      BY DEF CallQueues
    <2> QED BY <2>1, <1>1, <1>4, <1>6 DEF IInv, OwedInv, OwnAnswer
  <1>15. AnsweredInv'
    <2>1. ~OwnAnswer(c)'
      BY <1>3, <1>4 DEF OwnAnswer
    <2>2. tainted' = tainted
      BY DEF CallQueues
    <2> QED BY <2>1, <2>2, <1>4, <1>6 DEF IInv, AnsweredInv, OwnAnswer
  <1>16. StraysInv'
    BY DEF IInv, StraysInv, CallQueues
  <1>17. RelayedInv'
    BY <1>4 DEF IInv, RelayedInv, Inside
  <1> QED BY <1>7, <1>8, <1>9, <1>11, <1>12, <1>13, <1>14, <1>15, <1>16, <1>17 DEF IInv

LEMMA CancelQueuedInv ==
    ASSUME IInv, NEW c \in Caller, CancelQueued(c)
    PROVE  IInv'
  <1>1. /\ call \in [Caller -> CallState] /\ pc \in [Caller -> Inside \cup {"idle", "queued"}]
        /\ pc[c] = "queued"
    BY DEF IInv, TypeOK, CancelQueued
  <1>a. lock # c
    BY <1>1 DEF IInv, LockInv, Inside
  <1>b. NoCall \in CallState
    BY DEF NoCall, CallState
  <1>2. /\ call'[c] = NoCall /\ \A d \in Caller : d # c => call'[d] = call[d]
        /\ call' \in [Caller -> CallState]
        /\ pc'[c] = "idle" /\ \A d \in Caller : d # c => pc'[d] = pc[d]
        /\ pc' \in [Caller -> Inside \cup {"idle", "queued"}]
    BY <1>1, <1>b DEF CancelQueued
  <1>3. \A d \in Caller : /\ d # c => Frame(d)' = Frame(d)
                         /\ (Registered(d)' <=> Registered(d))
    BY <1>2 DEF Frame, Registered, CancelQueued
  <1>4. /\ queue' \in Seq(Caller)
        /\ \A i, j \in 1..Len(queue') : queue'[i] = queue'[j] => i = j
        /\ \A d \in Caller : (\E i \in 1..Len(queue') : queue'[i] = d)
                             <=> d # c /\ \E i \in 1..Len(queue) : queue[i] = d
    <2>1. queue' = QueueWithout(c)
      BY DEF CancelQueued
    <2> QED BY <2>1, <1>1, QueueTyped DEF IInv
  <1>5. TypeOK'
    BY <1>2, <1>4 DEF IInv, TypeOK, CancelQueued
  <1>6. LockInv'
    <2>1. \A d \in Caller : pc'[d] \in Inside <=> lock' = d
      BY <1>a, <1>2 DEF IInv, LockInv, CancelQueued, Inside
    <2>2. \A d \in Caller : pc'[d] = "queued" <=> \E i \in 1..Len(queue') : queue'[i] = d
      BY <1>2, <1>4 DEF IInv, LockInv
    <2> QED BY <2>1, <2>2, <1>4 DEF LockInv
  <1>7. CallInv'
    <2> SUFFICES ASSUME NEW d \in Caller
                 PROVE  CallInv!(d)'
      BY DEF CallInv
    <2>1. CASE d = c
      BY <2>1, <1>2 DEF NoCall
    <2>2. CASE d # c
      <3>1. CallInv!(d) /\ call'[d] = call[d] /\ pc'[d] = pc[d] /\ Frame(d)' = Frame(d)
        BY <2>2, <1>2, <1>3 DEF IInv, CallInv
      <3> QED BY <3>1
    <2> QED BY <2>1, <2>2
  <1>8. SendsInv'
    <2>1. c \notin sends
      BY <1>1 DEF IInv, SendsInv
    <2> QED BY <2>1, <1>2 DEF IInv, SendsInv, CancelQueued, TypeOK
  <1>9. RegisteredByHolder'
    <2> SUFFICES ASSUME NEW r \in Register, waiters[r] # None
                 PROVE  RegisteredByHolder!2!(r)!2'
      BY DEF RegisteredByHolder, CancelQueued, IInv
    <2>1. waiters[r].who \in Caller
      BY DEF IInv, TypeOK
    <2>2. RegisteredByHolder!2!(r)!2 /\ lock \in Caller
      BY <2>1 DEF IInv, RegisteredByHolder
    <2>3. call'[lock] = call[lock] /\ lock' = lock /\ waiters' = waiters
      BY <2>2, <1>a, <1>2 DEF CancelQueued
    <2> QED BY <2>2, <2>3 DEF Frame
  <1>10. NothingOrphaned' /\ DropSettles' /\ HistoryIsFresh'
    BY <1>2, <1>3 DEF IInv, NothingOrphaned, DropSettles, HistoryIsFresh, CancelQueued, Inside
  <1>11. OwedInv'
    <2>1. owed' = owed /\ tainted' = tainted /\ lock' = lock
      BY DEF CancelQueued
    <2> QED BY <2>1, <1>a, <1>2, <1>3 DEF IInv, OwedInv, OwnAnswer
  <1>12. AnsweredInv'
    <2>1. ~OwnAnswer(c)'
      BY <1>2 DEF OwnAnswer, NoCall
    <2>2. tainted' = tainted
      BY DEF CancelQueued
    <2> QED BY <2>1, <2>2, <1>2, <1>3 DEF IInv, AnsweredInv, OwnAnswer
  <1>13. StraysInv'
    BY DEF IInv, StraysInv, CancelQueued
  <1>14. RelayedInv'
    BY <1>2 DEF IInv, RelayedInv, Inside
  <1> QED BY <1>5, <1>6, <1>7, <1>8, <1>9, <1>10, <1>11, <1>12, <1>13, <1>14 DEF IInv

\* DeliveryAnswered and DeliveryAwaits only move the task.
LEMMA MovesInv ==
    ASSUME IInv, NEW c \in Caller, DeliveryAnswered(c) \/ DeliveryAwaits(c)
    PROVE  IInv'
  <1>1. /\ pc \in [Caller -> Inside \cup {"idle", "queued"}] /\ pc[c] = "delivering"
        /\ call[c].kind = "request"
    BY DEF IInv, TypeOK, DeliveryAnswered, DeliveryAwaits, Woken, CallInv
  <1>2. /\ UNCHANGED <<call, outcome, lock, queue, waiters, sends, strays, bulk,
                       bulkEvent, linkUp, owed, tainted, calls>>
        /\ pc'[c] \in {"finishing", "awaiting"}
        /\ pc'[c] = "awaiting" => call[c].fut = "pending"
        /\ \A d \in Caller : d # c => pc'[d] = pc[d]
        /\ pc' \in [Caller -> Inside \cup {"idle", "queued"}]
    BY <1>1 DEF DeliveryAnswered, DeliveryAwaits, Inside
  <1>3. \A d \in Caller : /\ Frame(d)' = Frame(d) /\ (OwnAnswer(d)' <=> OwnAnswer(d))
                         /\ (Registered(d)' <=> Registered(d))
    BY <1>2 DEF Frame, OwnAnswer, Registered
  <1>4. TypeOK'
    BY <1>2 DEF IInv, TypeOK
  <1>5. LockInv'
    BY <1>1, <1>2 DEF IInv, LockInv, Inside
  <1>6. CallInv'
    BY <1>1, <1>2, <1>3 DEF IInv, CallInv
  <1>7. SendsInv'
    BY <1>1, <1>2 DEF IInv, SendsInv, TypeOK
  <1>8. RegisteredByHolder'
    BY <1>2 DEF IInv, RegisteredByHolder, Frame
  <1>9. NothingOrphaned'
    BY <1>1, <1>2, <1>3 DEF IInv, NothingOrphaned
  <1>10. DropSettles'
    BY <1>1, <1>2 DEF IInv, DropSettles
  <1>11. HistoryIsFresh'
    BY <1>1, <1>2 DEF IInv, HistoryIsFresh, Inside
  <1>12. OwedInv' /\ AnsweredInv' /\ StraysInv'
    BY <1>2, <1>3 DEF IInv, OwedInv, AnsweredInv, StraysInv
  <1>13. call[c].cancel = "no" /\ call[c].send # "scheduled"
    BY DEF DeliveryAnswered, DeliveryAwaits, Woken
  <1>14. RelayedInv'
    BY <1>1, <1>2, <1>13 DEF IInv, RelayedInv, Inside
  <1> QED BY <1>4, <1>5, <1>6, <1>7, <1>8, <1>9, <1>10, <1>11, <1>12, <1>14 DEF IInv

\* A write goes on to its next frame, or a history read to collecting.
LEMMA FrameSentInv ==
    ASSUME IInv, NEW c \in Caller, NextFrame(c) \/ HistoryRequested(c)
    PROVE  IInv'
  <1>1. /\ pc \in [Caller -> Inside \cup {"idle", "queued"}] /\ pc[c] = "delivering"
        /\ call \in [Caller -> CallState] /\ call[c] \in CallState
        /\ call[c].kind \notin {"none", "request"} /\ call[c].answer = None /\ lock = c
        /\ call[c].frames \in Seq(Key) /\ call[c].frames # <<>>
        /\ \A i \in 1..Len(call[c].frames) : call[c].frames[i] \notin RequestKey
    BY DEF IInv, TypeOK, NextFrame, HistoryRequested, Woken, CallInv, CallState, LockInv, Inside
  <1>2. \A r \in Register : waiters[r] = None
    BY <1>1 DEF IInv, RegisteredByHolder
  <1>3. \A o \in owed : o.key \notin RequestKey \ tainted
    <2>1. Frame(c) \notin RequestKey
      BY <1>1 DEF Frame
    <2> QED BY <2>1, <1>1 DEF IInv, OwedInv
  <1>4. \A d \in Caller : d # c => pc[d] \notin Inside
    BY <1>1 DEF IInv, LockInv
  <1>5. CASE NextFrame(c)
    <2>1. Len(call[c].frames) > 1
      BY <1>5 DEF NextFrame
    <2>2. /\ Tail(call[c].frames) \in Seq(Key) /\ Tail(call[c].frames) # <<>>
          /\ \A i \in 1..Len(Tail(call[c].frames)) :
               Tail(call[c].frames)[i] \notin RequestKey
      BY <2>1, <1>1, TailOf
    <2> DEFINE t == [call[c] EXCEPT !.frames = Tail(@), !.fut = "pending",
                                    !.send = "scheduled", !.cut = "no"]
    <2>t. /\ t \in CallState
          /\ t.frames = Tail(call[c].frames) /\ t.fut = "pending"
          /\ t.send = "scheduled" /\ t.cut = "no"
          /\ t.kind = call[c].kind /\ t.serial = call[c].serial
          /\ t.answer = None
      BY <1>1, <2>2 DEF CallState
    <2>u. call' = [call EXCEPT ![c] = t]
      BY <1>5 DEF NextFrame
    <2> HIDE DEF t
    <2>4. /\ call' \in [Caller -> CallState] /\ call'[c] = t
          /\ \A d \in Caller : d # c => call'[d] = call[d]
      BY <1>1, <2>t, <2>u
    <2>3. /\ call'[c] \in CallState
          /\ call'[c].frames = Tail(call[c].frames) /\ call'[c].fut = "pending"
          /\ call'[c].send = "scheduled" /\ call'[c].cut = "no"
          /\ call'[c].kind = call[c].kind /\ call'[c].serial = call[c].serial
          /\ call'[c].answer = None
      BY <2>t, <2>4
    <2>5. /\ sends' = sends \cup {c} /\ sends' = {c}
          /\ UNCHANGED <<pc, outcome, lock, queue, waiters, strays, bulk, bulkEvent,
                         linkUp, owed, tainted, calls>>
      BY <1>5, <1>1 DEF NextFrame, IInv, RegisteredByHolder
    <2>6. TypeOK'
      BY <2>4, <2>5 DEF IInv, TypeOK
    <2>7. LockInv' /\ StraysInv'
      BY <2>5 DEF IInv, LockInv, StraysInv
    <2>8. CallInv'
      <3> SUFFICES ASSUME NEW d \in Caller
                   PROVE  CallInv!(d)'
        BY DEF CallInv
      <3>1. CASE d = c
        BY <3>1, <2>2, <2>3, <2>5, <1>1
      <3>2. CASE d # c
        <4>1. CallInv!(d) /\ call'[d] = call[d] /\ pc'[d] = pc[d] /\ Frame(d)' = Frame(d)
          BY <3>2, <2>4, <2>5 DEF IInv, CallInv, Frame
        <4> QED BY <4>1
      <3> QED BY <3>1, <3>2
    <2>9. SendsInv' /\ RegisteredByHolder'
      BY <1>1, <1>2, <2>3, <2>5 DEF SendsInv, RegisteredByHolder
    <2>10. NothingOrphaned'
      BY <1>4, <2>5 DEF NothingOrphaned, Registered, Inside
    <2>11. DropSettles' /\ HistoryIsFresh'
      BY <1>4, <2>3, <2>4, <2>5 DEF IInv, DropSettles, HistoryIsFresh, Inside
    <2>12. OwedInv'
      BY <1>3, <2>5 DEF OwedInv
    <2>13. AnsweredInv'
      BY <2>3, <2>4, <2>5 DEF IInv, AnsweredInv, OwnAnswer, Frame
    <2>14. RelayedInv'
      BY <1>1, <1>4, <2>3, <2>5 DEF RelayedInv, Inside
    <2> QED BY <2>6, <2>7, <2>8, <2>9, <2>10, <2>11, <2>12, <2>13, <2>14 DEF IInv
  <1>6. CASE HistoryRequested(c)
    <2>1. /\ call'[c] \in CallState
          /\ call'[c].frames = call[c].frames /\ call'[c].fut = "none"
          /\ call'[c].send = call[c].send /\ call'[c].cut = call[c].cut
          /\ call'[c].kind = call[c].kind /\ call'[c].serial = call[c].serial
          /\ call'[c].answer = None
      BY <1>6, <1>1 DEF HistoryRequested, CallState
    <2>2. /\ call' \in [Caller -> CallState]
          /\ \A d \in Caller : d # c => call'[d] = call[d]
      BY <1>6, <1>1, <2>1 DEF HistoryRequested
    <2>3. /\ pc'[c] = "collecting" /\ \A d \in Caller : d # c => pc'[d] = pc[d]
          /\ pc' \in [Caller -> Inside \cup {"idle", "queued"}]
      BY <1>6, <1>1 DEF HistoryRequested, Inside
    <2>4. /\ sends' = {}
          /\ UNCHANGED <<outcome, lock, queue, waiters, strays, bulk, bulkEvent,
                         linkUp, owed, tainted, calls>>
      BY <1>6, <1>1 DEF HistoryRequested, IInv, RegisteredByHolder
    <2>5. TypeOK'
      BY <2>2, <2>3, <2>4 DEF IInv, TypeOK
    <2>6. LockInv' /\ StraysInv'
      BY <1>1, <2>3, <2>4 DEF IInv, LockInv, StraysInv, Inside
    <2>7. CallInv'
      <3> SUFFICES ASSUME NEW d \in Caller
                   PROVE  CallInv!(d)'
        BY DEF CallInv
      <3>1. CASE d = c
        BY <3>1, <2>1, <2>3, <1>1
      <3>2. CASE d # c
        <4>1. CallInv!(d) /\ call'[d] = call[d] /\ pc'[d] = pc[d] /\ Frame(d)' = Frame(d)
          BY <3>2, <2>2, <2>3 DEF IInv, CallInv, Frame
        <4> QED BY <4>1
      <3> QED BY <3>1, <3>2
    <2>8. SendsInv' /\ RegisteredByHolder'
      BY <1>2, <2>4 DEF SendsInv, RegisteredByHolder
    <2>9. NothingOrphaned' /\ DropSettles'
      BY <1>4, <2>3 DEF NothingOrphaned, DropSettles, Inside
    <2>10. HistoryIsFresh'
      BY <1>1, <1>4, <2>1, <2>2, <2>3, <2>4 DEF IInv, HistoryIsFresh, Inside
    <2>11. OwedInv'
      BY <1>3, <2>4 DEF OwedInv
    <2>12. AnsweredInv'
      BY <2>1, <2>2, <2>4 DEF IInv, AnsweredInv, OwnAnswer, Frame
    <2>13. call'[c].cancel = "no" /\ call'[c].send = "ok"
      BY <1>6, <1>1, <2>1 DEF HistoryRequested, CallState
    <2>14. RelayedInv'
      BY <1>4, <2>3, <2>13 DEF RelayedInv, Inside
    <2> QED BY <2>5, <2>6, <2>7, <2>8, <2>9, <2>10, <2>11, <2>12, <2>14 DEF IInv
  <1> QED BY <1>5, <1>6

LEMMA ReplyMatchedInv ==
    ASSUME IInv, NEW o \in owed, ReplyMatched(o)
    PROVE  IInv'
  <1>1. /\ o \in Reply /\ o.key \in Key /\ o.key.reg \in Register
        /\ o.key = [reg |-> o.key.reg, flag |-> o.key.flag]
        /\ o = [call |-> o.call, key |-> o.key]
    BY DEF IInv, TypeOK, Reply, Key
  <1>2. waiters[o.key.reg] # None /\ waiters[o.key.reg].flag = o.key.flag
    BY DEF ReplyMatched, Waits
  <1>a. waiters[o.key.reg].who \in Caller
    BY <1>1, <1>2 DEF IInv, TypeOK
  <1>b. PICK c \in Caller : c = waiters[o.key.reg].who
    BY <1>a
  <1>3. /\ c \in Caller /\ lock = c /\ call[c].kind = "request" /\ Frame(c) = o.key
    BY <1>1, <1>2, <1>b DEF IInv, RegisteredByHolder
  <1>4. call' = IF call[c].fut = "pending"
                THEN [call EXCEPT ![c] = [@ EXCEPT !.fut = "result", !.answer = o]]
                ELSE call
    BY <1>b DEF ReplyMatched
  <1>5. /\ call \in [Caller -> CallState] /\ call[c] \in CallState
        /\ pc[c] \in Inside /\ \A d \in Caller : d # c => pc[d] \notin Inside
    BY <1>3 DEF IInv, TypeOK, LockInv
  <1>6. /\ call' \in [Caller -> CallState]
        /\ \A d \in Caller : d # c => call'[d] = call[d]
        /\ call'[c].kind = call[c].kind /\ call'[c].frames = call[c].frames
        /\ call'[c].serial = call[c].serial /\ call'[c].send = call[c].send
        /\ call'[c].cut = call[c].cut /\ call'[c].fut # "pending"
    BY <1>1, <1>3, <1>4, <1>5 DEF CallState
  <1>7. \/ call'[c].fut = "result" /\ call'[c].answer = o
        \/ call'[c].fut = call[c].fut /\ call'[c].answer = call[c].answer
    BY <1>3, <1>4, <1>5 DEF CallState
  <1>8. /\ UNCHANGED <<pc, outcome, lock, queue, sends, strays, bulk, bulkEvent,
                       linkUp, tainted, calls>>
        /\ owed' = owed \ {o}
        /\ waiters' = [waiters EXCEPT ![o.key.reg] = None]
    BY DEF ReplyMatched
  <1>9. \A d \in Caller : Frame(d)' = Frame(d)
    BY <1>6 DEF Frame
  <1>10. TypeOK'
    BY <1>1, <1>6, <1>8 DEF IInv, TypeOK
  <1>11. LockInv' /\ StraysInv'
    BY <1>8 DEF IInv, LockInv, StraysInv
  <1>12. CallInv'
    <2> SUFFICES ASSUME NEW d \in Caller
                 PROVE  CallInv!(d)'
      BY DEF CallInv
    <2>1. CallInv!(d)
      BY DEF IInv, CallInv
    <2>2. CASE d = c
      BY <2>1, <2>2, <1>3, <1>5, <1>6, <1>7, <1>8, <1>9 DEF Inside
    <2>3. CASE d # c
      BY <2>1, <2>3, <1>6, <1>8, <1>9
    <2> QED BY <2>2, <2>3
  <1>13. c \notin sends
    BY <1>3 DEF IInv, SendsInv
  <1>14. SendsInv'
    BY <1>6, <1>8, <1>13 DEF IInv, SendsInv, TypeOK
  <1>15. RegisteredByHolder'
    <2>1. ASSUME NEW r \in Register
          PROVE  waiters'[r] = None
      <3>1. CASE r = o.key.reg
        BY <3>1, <1>8 DEF IInv, TypeOK
      <3>2. CASE r # o.key.reg
        <4>1. waiters[r] # None => Frame(c) = [reg |-> r, flag |-> waiters[r].flag]
          BY <1>3 DEF IInv, RegisteredByHolder
        <4>2. waiters[r] = None
          BY <4>1, <3>2, <1>3
        <4> QED BY <4>2, <3>2, <1>8 DEF IInv, TypeOK
      <3> QED BY <3>1, <3>2
    <2> QED BY <2>1, <1>8 DEF IInv, RegisteredByHolder
  <1>16. NothingOrphaned'
    BY <1>5, <1>6, <1>8 DEF NothingOrphaned, Inside
  <1>17. DropSettles'
    BY <1>6, <1>8 DEF IInv, DropSettles
  <1>18. HistoryIsFresh'
    BY <1>6, <1>8 DEF IInv, HistoryIsFresh
  <1>19. OwedInv'
    <2> SUFFICES ASSUME NEW w \in owed', w.key \in RequestKey \ tainted
                 PROVE  /\ w = [call |-> call[c].serial, key |-> Frame(c)]
                        /\ call[c].send \notin {"scheduled", "inflight"}
                        /\ call[c].cut = "no"
                        /\ ~OwnAnswer(c)'
      BY <1>3, <1>6, <1>8, <1>9 DEF OwedInv
    <2>1. w \in owed /\ w # o
      BY <1>8
    <2>2. /\ w = [call |-> call[c].serial, key |-> Frame(c)]
          /\ call[c].send \notin {"scheduled", "inflight"}
          /\ call[c].cut = "no" /\ ~OwnAnswer(c)
      BY <2>1, <1>3 DEF IInv, OwedInv
    <2>3. o.call # call[c].serial
      BY <2>1, <2>2, <1>1, <1>3
    <2> QED BY <2>2, <2>3, <1>6, <1>7 DEF OwnAnswer
  <1>20. AnsweredInv'
    <2> SUFFICES ASSUME NEW d \in Caller, OwnAnswer(d)', Frame(d) \notin tainted,
                        call[d].cut = "no"
                 PROVE  call[d].send \notin {"scheduled", "inflight"}
      BY <1>6, <1>8, <1>9 DEF AnsweredInv
    <2>1. CASE OwnAnswer(d)
      BY <2>1 DEF IInv, AnsweredInv
    <2>2. CASE ~OwnAnswer(d)
      <3>1. d = c /\ o.call = call[c].serial
        BY <2>2, <1>6, <1>7 DEF OwnAnswer
      <3>2. o.key \in RequestKey
        BY <1>3, <1>5 DEF IInv, CallInv, Inside
      <3> QED BY <3>1, <3>2, <1>3 DEF IInv, OwedInv
    <2> QED BY <2>1, <2>2
  <1>21. call'[c].cancel = call[c].cancel
    BY <1>1, <1>3, <1>4, <1>5 DEF CallState
  <1>22. RelayedInv'
    BY <1>6, <1>8, <1>21 DEF IInv, RelayedInv
  <1> QED BY <1>10, <1>11, <1>12, <1>14, <1>15, <1>16, <1>17, <1>18, <1>19, <1>20, <1>22
          DEF IInv

\* A lost link: dropped with a callback, or closed without.
LEMMA DropInv ==
    ASSUME IInv, Drop
    PROVE  IInv'
  <1>1. /\ call \in [Caller -> CallState]
        /\ \A d \in Caller : call[d] \in CallState
        /\ pc' = pc /\ lock' = lock
    BY DEF IInv, TypeOK, Drop
  <1>2. \A d \in Caller :
          /\ call'[d] \in CallState
          /\ call'[d].kind = call[d].kind /\ call'[d].frames = call[d].frames
          /\ call'[d].serial = call[d].serial /\ call'[d].answer = call[d].answer
          /\ call'[d].send = call[d].send
          /\ pc[d] \notin Inside => call'[d] = call[d]
          /\ pc[d] \in Inside => call'[d].cut = "dropped"
          /\ \/ call'[d].fut = call[d].fut /\ ~(call[d].fut = "pending" /\ Registered(d))
             \/ call[d].fut = "pending" /\ Registered(d) /\ call'[d].fut = "error"
             \/ pc[d] \notin Inside
    <2> SUFFICES ASSUME NEW d \in Caller
                 PROVE  <1>2!(d)
      OBVIOUS
    <2>1. CASE pc[d] \notin Inside
      <3>1. call'[d] = call[d]
        BY <2>1 DEF Drop
      <3> QED BY <3>1, <2>1, <1>1
    <2>2. CASE pc[d] \in Inside
      <3>1. call'[d] = [call[d] EXCEPT !.cut = "dropped",
                           !.fut = IF call[d].fut = "pending" /\ Registered(d)
                                   THEN "error" ELSE call[d].fut]
        BY <2>2 DEF Drop
      <3> QED BY <3>1, <2>2, <1>1 DEF CallState
    <2> QED BY <2>1, <2>2
  <1>3. call' \in [Caller -> CallState]
    BY <1>2 DEF Drop
  <1>4. \A d \in Caller : Frame(d)' = Frame(d)
    BY <1>2 DEF Frame
  <1>5. TypeOK'
    BY <1>1, <1>3 DEF IInv, TypeOK, Drop
  <1>6. LockInv' /\ StraysInv'
    BY DEF IInv, LockInv, StraysInv, Drop
  <1>7. CallInv'
    <2> SUFFICES ASSUME NEW d \in Caller
                 PROVE  CallInv!(d)'
      BY DEF CallInv
    <2>1. CallInv!(d)
      BY DEF IInv, CallInv
    <2>2. CASE pc[d] \in Inside
      BY <2>1, <2>2, <1>1, <1>2, <1>4 DEF Inside
    <2>3. CASE pc[d] \notin Inside
      BY <2>1, <2>3, <1>1, <1>2, <1>4 DEF Inside
    <2> QED BY <2>2, <2>3
  <1>8. SendsInv' /\ RegisteredByHolder' /\ OwedInv'
    BY DEF Drop, SendsInv, RegisteredByHolder, OwedInv
  <1>9. \A d \in Caller : pc[d] \in {"delivering", "awaiting"} => call'[d].fut # "pending"
    BY <1>2 DEF IInv, NothingOrphaned, Inside
  <1>10. NothingOrphaned' /\ DropSettles'
    BY <1>1, <1>9 DEF NothingOrphaned, DropSettles
  <1>11. HistoryIsFresh'
    <2>1. bulk' = bulk
      BY DEF Drop
    <2> QED BY <2>1, <1>1, <1>2 DEF IInv, HistoryIsFresh
  <1>12. AnsweredInv'
    <2> SUFFICES ASSUME NEW d \in Caller, OwnAnswer(d)', call'[d].cut = "no"
                 PROVE  FALSE
      BY DEF AnsweredInv
    <2>1. pc[d] \notin Inside /\ call[d].answer # None
      BY <1>2 DEF OwnAnswer
    <2>2. pc[d] \in {"idle", "queued"}
      BY <2>1 DEF IInv, TypeOK
    <2> QED BY <2>1, <2>2 DEF IInv, CallInv, NoCall
  <1>13. \A d \in Caller : call'[d].cancel = call[d].cancel
    BY <1>1 DEF Drop, CallState
  <1>14. RelayedInv'
    <2> SUFFICES ASSUME NEW d \in Caller
                 PROVE  RelayedInv!(d)'
      BY DEF RelayedInv
    <2>1. RelayedInv!(d)
      BY DEF IInv, RelayedInv
    <2> QED BY <2>1, <1>1, <1>2, <1>9, <1>13
  <1> QED BY <1>5, <1>6, <1>7, <1>8, <1>10, <1>11, <1>12, <1>14 DEF IInv

LEMMA DisconnectInv ==
    ASSUME IInv, Disconnect
    PROVE  IInv'
  <1>1. CASE UNCHANGED <<owed, tainted, call>>
    <2>1. HistoryIsFresh'
      BY <1>1 DEF IInv, HistoryIsFresh, Disconnect
    <2> QED BY <1>1, <2>1, QuietInv DEF Disconnect, IInv, TypeOK
  <1>2. CASE /\ owed' = {} /\ tainted' = {}
             /\ call' = [d \in Caller |-> IF pc[d] \in Inside
                                          THEN [call[d] EXCEPT !.cut = "closed"]
                                          ELSE call[d]]
    <2>1. /\ \A d \in Caller : call[d] \in CallState
          /\ UNCHANGED <<pc, outcome, lock, queue, waiters, sends, strays, bulk,
                         bulkEvent, calls>>
          /\ linkUp' = FALSE
      BY DEF IInv, TypeOK, Disconnect
    <2>2. \A d \in Caller :
            /\ call'[d] \in CallState
            /\ call'[d].kind = call[d].kind /\ call'[d].frames = call[d].frames
            /\ call'[d].serial = call[d].serial /\ call'[d].answer = call[d].answer
            /\ call'[d].send = call[d].send /\ call'[d].fut = call[d].fut
            /\ pc[d] \notin Inside => call'[d] = call[d]
            /\ pc[d] \in Inside => call'[d].cut = "closed"
      BY <1>2, <2>1 DEF CallState
    <2>3. call' \in [Caller -> CallState]
      BY <1>2, <2>2
    <2>4. \A d \in Caller : Frame(d)' = Frame(d) /\ (Registered(d)' <=> Registered(d))
      BY <2>1, <2>2 DEF Frame, Registered
    <2>5. TypeOK'
      BY <1>2, <2>1, <2>3 DEF IInv, TypeOK
    <2>6. LockInv' /\ StraysInv'
      BY <2>1 DEF IInv, LockInv, StraysInv
    <2>7. CallInv'
      <3> SUFFICES ASSUME NEW d \in Caller
                   PROVE  CallInv!(d)'
        BY DEF CallInv
      <3>1. CallInv!(d)
        BY DEF IInv, CallInv
      <3>2. CASE pc[d] \in Inside
        BY <3>1, <3>2, <2>1, <2>2, <2>4 DEF Inside
      <3>3. CASE pc[d] \notin Inside
        BY <3>1, <3>3, <2>1, <2>2, <2>4 DEF Inside
      <3> QED BY <3>2, <3>3
    <2>8. SendsInv'
      BY <2>1, <2>2 DEF IInv, SendsInv, TypeOK
    <2>9. RegisteredByHolder'
      <3>1. \A r \in Register : waiters[r] # None => lock \in Caller
        BY DEF IInv, RegisteredByHolder, TypeOK
      <3> QED BY <3>1, <2>1, <2>2, <2>4 DEF IInv, RegisteredByHolder
    <2>10. NothingOrphaned'
      BY <2>1, <2>2, <2>4 DEF IInv, NothingOrphaned
    <2>11. DropSettles'
      BY <2>1, <2>2 DEF IInv, DropSettles, Inside
    <2>12. HistoryIsFresh'
      BY <2>1, <2>2 DEF IInv, HistoryIsFresh
    <2>13. OwedInv'
      BY <1>2 DEF OwedInv
    <2>14. AnsweredInv'
      <3> SUFFICES ASSUME NEW d \in Caller, OwnAnswer(d)', call'[d].cut = "no"
                   PROVE  FALSE
        BY DEF AnsweredInv
      <3>1. pc[d] \notin Inside /\ call[d].answer # None
        BY <2>2 DEF OwnAnswer
      <3>2. pc[d] \in {"idle", "queued"}
        BY <3>1 DEF IInv, TypeOK
      <3> QED BY <3>1, <3>2 DEF IInv, CallInv, NoCall
    <2>15. \A d \in Caller : call'[d].cancel = call[d].cancel
      BY <1>2, <2>1 DEF CallState
    <2>16. RelayedInv'
      BY <2>1, <2>2, <2>15 DEF IInv, RelayedInv
    <2> QED BY <2>5, <2>6, <2>7, <2>8, <2>9, <2>10, <2>11, <2>12, <2>13, <2>14, <2>16 DEF IInv
  <1> QED BY <1>1, <1>2 DEF Disconnect

\* The send task and the cancellations, as instances of UpdateInv.
LEMMA SendInv ==
    ASSUME IInv, NEW c \in Caller,
           SendStarts(c) \/ SendReaches(c) \/ SendReturns(c) \/ SendFails(c) \/ SendUnwinds(c)
    PROVE  IInv'
  <1>1. /\ call \in [Caller -> CallState] /\ call[c] \in CallState
        /\ pc \in [Caller -> Inside \cup {"idle", "queued"}]
    BY DEF IInv, TypeOK
  <1>2. PICK to \in {"inflight", "failed", "delivered", "ok", "cancelled"} :
          /\ call[c].send # "none"
          /\ to = "inflight" => call[c].send = "scheduled"
          /\ to = "delivered" => call[c].send = "inflight"
          /\ call' = [call EXCEPT ![c].send = to]
          /\ UNCHANGED <<pc, outcome, lock, queue, waiters, sends, strays, bulk,
                         bulkEvent, linkUp, tainted, calls>>
          /\ \/ owed' = owed
             \/ /\ owed' = owed \cup {[call |-> call[c].serial, key |-> Frame(c)]}
                /\ call[c].send = "inflight" /\ call[c].cut = "no" /\ to = "delivered"
    BY DEF SendStarts, SendReaches, SendReturns, SendFails, SendUnwinds, SendStep
  <1>3. pc[c] \in Inside
    BY <1>1, <1>2 DEF IInv, CallInv, NoCall
  <1> DEFINE s == [call[c] EXCEPT !.send = to]
  <1>4. /\ s \in CallState /\ s.kind = call[c].kind /\ s.frames = call[c].frames
        /\ s.serial = call[c].serial /\ s.answer = call[c].answer /\ s.cut = call[c].cut
        /\ s.fut = call[c].fut /\ s.send = to /\ s.cancel = call[c].cancel
    BY <1>1 DEF CallState
  <1>5. call' = [call EXCEPT ![c] = s]
    BY <1>2
  <1> HIDE DEF s
  <1>6. /\ pc[c] = "awaiting" /\ s.cancel # "no" => s.fut # "pending"
        /\ pc[c] = "finishing" /\ s.cancel # "no" => s.send \notin {"inflight", "delivered"}
        /\ pc[c] = "collecting" => s.cancel # "timeout"
    BY <1>2, <1>3, <1>4 DEF IInv, RelayedInv, Inside
  <1> QED BY <1>2, <1>3, <1>4, <1>5, <1>6, UpdateInv

LEMMA RelayInv ==
    ASSUME IInv, NEW c \in Caller, TimerFires(c) \/ CancelCall(c)
    PROVE  IInv'
  <1>1. /\ call \in [Caller -> CallState] /\ call[c] \in CallState
    BY DEF IInv, TypeOK
  <1>2. PICK why \in {"timeout", "caller"} :
          Relay(c, why) /\ (why = "timeout" => pc[c] # "collecting")
    BY DEF TimerFires, CancelCall, Timed
  <1>3. /\ UNCHANGED <<pc, outcome, lock, queue, waiters, sends, strays, bulk,
                       bulkEvent, linkUp, owed, tainted, calls>>
        /\ pc[c] \in Inside
    BY DEF TimerFires, CancelCall, Timed, Inside
  <1> DEFINE f == IF pc[c] = "awaiting" /\ call[c].fut = "pending"
                  THEN "cancelled" ELSE call[c].fut
             g == IF pc[c] = "finishing" /\ call[c].send \in {"inflight", "delivered"}
                  THEN "cancelling" ELSE call[c].send
             s == [call[c] EXCEPT !.cancel = why, !.fut = f, !.send = g]
  <1>a. f = call[c].fut \/ (pc[c] = "awaiting" /\ f = "cancelled")
    OBVIOUS
  <1>b. g = call[c].send \/ g = "cancelling"
    OBVIOUS
  <1>5. call' = [call EXCEPT ![c] = s]
    BY <1>2 DEF Relay
  <1>c. /\ pc[c] = "awaiting" => f # "pending"
        /\ pc[c] = "finishing" => g \notin {"inflight", "delivered"}
        /\ pc[c] = "collecting" => why # "timeout"
    BY <1>2
  <1> HIDE DEF f, g
  <1>4. /\ s \in CallState /\ s.kind = call[c].kind /\ s.frames = call[c].frames
        /\ s.serial = call[c].serial /\ s.answer = call[c].answer /\ s.cut = call[c].cut
        /\ s.fut = f /\ s.send = g /\ s.cancel = why
    BY <1>1, <1>a, <1>b, ZenonT(60) DEF CallState
  <1> HIDE DEF s
  <1>6. /\ s.send \in {"scheduled", "inflight"} => call[c].send \in {"scheduled", "inflight"}
        /\ s.send # "none" /\ (s.send = "scheduled" => call[c].send = "scheduled")
    BY <1>3, <1>4, <1>b DEF IInv, RelayedInv
  <1>7. /\ pc[c] = "awaiting" /\ s.cancel # "no" => s.fut # "pending"
        /\ pc[c] = "finishing" /\ s.cancel # "no" => s.send \notin {"inflight", "delivered"}
        /\ pc[c] = "collecting" => s.cancel # "timeout"
    BY <1>4, <1>c
  <1> QED BY <1>1, <1>3, <1>4, <1>5, <1>6, <1>7, <1>a, UpdateInv

\* A caller gets the lock: at once, or from the head of the queue.
LEMMA GrantedInv ==
    ASSUME IInv, NEW c \in Caller,
           LockGranted(c) \/ \E job \in Job : CallEnters(c, job)
    PROVE  IInv'
  <1>1. CASE LockGranted(c)
    <2>1. /\ lock = None /\ NextInLine(c) /\ queue' = QueueWithout(c)
          /\ Enter(c, call[c]) /\ calls' = calls
      BY <1>1 DEF LockGranted
    <2>2. queue \in Seq(Caller) /\ call[c] \in CallState /\ calls \in Nat
      BY DEF IInv, TypeOK
    <2>3. 1 \in 1..Len(queue) /\ queue[1] = c
      BY <2>1, <2>2 DEF NextInLine
    <2>4. pc[c] = "queued"
      BY <2>3 DEF IInv, LockInv
    <2>5. /\ queue' \in Seq(Caller)
          /\ \A i, j \in 1..Len(queue') : queue'[i] = queue'[j] => i = j
          /\ \A d \in Caller : (\E i \in 1..Len(queue') : queue'[i] = d)
                               <=> d # c /\ \E i \in 1..Len(queue) : queue[i] = d
      <3>1. queue' = QueueWithout(c)
        BY <2>1
      <3> QED BY <3>1, <2>4, QueueTyped DEF IInv
    <2>6. /\ call[c].kind # "none" /\ call[c].frames # <<>>
          /\ call[c].kind = "request" => Head(call[c].frames) \in RequestKey
          /\ call[c].kind # "request" =>
               \A i \in 1..Len(call[c].frames) : call[c].frames[i] \notin RequestKey
          /\ call[c].answer = None /\ call[c].cut = "no"
      BY <2>4 DEF IInv, CallInv, Frame
    <2> QED BY <2>1, <2>2, <2>4, <2>5, <2>6, EnterInv
  <1>2. ASSUME NEW job \in Job, CallEnters(c, job)
        PROVE  IInv'
    <2>1. /\ lock = None /\ queue = <<>> /\ queue' = queue /\ calls' = calls + 1
          /\ Enter(c, NewCall(job)) /\ pc[c] = "idle"
      BY <1>2 DEF CallEnters, Uncontended
    <2>2. queue \in Seq(Caller) /\ calls \in Nat
      BY DEF IInv, TypeOK
    <2>3. Len(queue) = 0
      BY <2>1
    <2>4. /\ NewCall(job) \in CallState
          /\ NewCall(job).kind = job.kind /\ NewCall(job).frames = job.frames
          /\ job.kind \in {"request", "write", "history"}
          /\ job.frames \in Seq(Key) /\ job.frames # <<>>
          /\ job.kind = "request" => Head(job.frames) \in RequestKey
          /\ job.kind # "request" =>
               \A i \in 1..Len(job.frames) : job.frames[i] \notin RequestKey
      BY JobTyped DEF IInv
    <2>5. NewCall(job).answer = None /\ NewCall(job).cut = "no"
      BY DEF NewCall, NoCall
    <2>6. /\ queue' \in Seq(Caller) /\ calls' \in Nat
          /\ \A i, j \in 1..Len(queue') : queue'[i] = queue'[j] => i = j
          /\ \A d \in Caller : (\E i \in 1..Len(queue') : queue'[i] = d)
                               <=> d # c /\ \E i \in 1..Len(queue) : queue[i] = d
      BY <2>1, <2>2, <2>3
    <2> HIDE DEF NewCall
    <2> QED BY <2>1, <2>4, <2>5, <2>6, EnterInv
  <1> QED BY <1>1, <1>2

\* A caller that leaves does so from inside, with one of the four outcomes.
LEMMA LeavesInside ==
    ASSUME IInv, NEW c \in Caller,
           \/ DeliveryCancelled(c) \/ DeliveryAborted(c) \/ DeliveryFailed(c)
           \/ DeliverySettled(c) \/ LastFrameSent(c) \/ ResumeFinishing(c)
           \/ ResumeAwaiting(c) \/ CollectEnds(c) \/ CollectCancelled(c)
    PROVE  /\ pc[c] \in Inside
           /\ \E o \in {"ok", "timeout", "error", "cancelled"} : Leave(c, o)
  BY DEF DeliveryCancelled, DeliveryAborted, DeliveryFailed, DeliverySettled, LastFrameSent,
         ResumeFinishing, ResumeAwaiting, CollectEnds, CollectCancelled, Woken, Cancelled,
         Inside

LEMMA EventInv ==
    ASSUME IInv,
           \/ \E c \in Caller : CallRefused(c) \/ CollectWakes(c)
           \/ \E o \in owed : ReplyUnmatched(o) \/ Record(o)
           \/ StrayEnds \/ Connect
    PROVE  IInv'
  <1>1. /\ UNCHANGED <<pc, call, lock, queue, waiters, sends, tainted, calls>>
        /\ owed' \subseteq owed /\ strays' \subseteq strays
        /\ bulkEvent' \in BOOLEAN /\ linkUp' \in BOOLEAN
        /\ outcome' \in [Caller -> {"none", "ok", "timeout", "error", "cancelled"}]
    BY DEF IInv, TypeOK, CallRefused, CollectWakes, ReplyUnmatched, Record, StrayEnds, Connect
  <1>2. bulk' \subseteq [of : Nat, at : Nat] /\ HistoryIsFresh'
    <2>1. CASE bulk' = bulk
      BY <2>1, <1>1 DEF IInv, TypeOK, HistoryIsFresh
    <2>2. ASSUME NEW o \in owed, Record(o)
          PROVE  bulk' \subseteq [of : Nat, at : Nat] /\ HistoryIsFresh'
      <3> DEFINE at == IF lock = None THEN 0 ELSE call[lock].serial
      <3>1. bulk' = bulk \cup {[of |-> o.call, at |-> at]}
        BY <2>2 DEF Record
      <3>2. o.call \in Nat /\ at \in Nat
        BY DEF IInv, TypeOK, Reply, CallState
      <3>3. \A c \in Caller : pc[c] \in Inside => at = call[c].serial
        BY NoneAssumption DEF IInv, LockInv
      <3> HIDE DEF at
      <3>4. HistoryIsFresh'
        BY <3>1, <3>3, <1>1 DEF IInv, HistoryIsFresh
      <3> QED BY <3>1, <3>2, <3>4 DEF IInv, TypeOK
    <2> QED BY <2>1, <2>2 DEF CallRefused, CollectWakes, ReplyUnmatched, StrayEnds, Connect
  <1> QED BY <1>1, <1>2, QuietInv

LEMMA NextInv == IInv /\ [Next]_vars => IInv'
  <1> SUFFICES ASSUME IInv, [Next]_vars PROVE IInv'
    OBVIOUS
  <1>1. ASSUME NEW c \in Caller, NEW job \in Job, CallEnters(c, job) \/ CallQueues(c, job)
        PROVE  IInv'
    BY <1>1, GrantedInv, QueuesInv
  <1>2. ASSUME NEW c \in Caller, Step(c)
        PROVE  IInv'
    <2>1. CASE LockGranted(c)
      BY <2>1, GrantedInv
    <2>2. CASE DeliveryAnswered(c) \/ DeliveryAwaits(c)
      BY <2>2, MovesInv
    <2>3. CASE NextFrame(c) \/ HistoryRequested(c)
      BY <2>3, FrameSentInv
    <2>4. CASE \/ DeliveryCancelled(c) \/ DeliveryAborted(c) \/ DeliveryFailed(c)
               \/ DeliverySettled(c) \/ LastFrameSent(c) \/ ResumeFinishing(c)
               \/ ResumeAwaiting(c) \/ CollectEnds(c) \/ CollectCancelled(c)
      BY <2>4, LeavesInside, LeaveInv
    <2> QED BY <1>2, <2>1, <2>2, <2>3, <2>4 DEF Step
  <1>3. ASSUME NEW c \in Caller, TimerFires(c) \/ CancelCall(c) \/ CancelQueued(c)
        PROVE  IInv'
    BY <1>3, RelayInv, CancelQueuedInv
  <1>4. ASSUME NEW c \in Caller,
               SendStarts(c) \/ SendReaches(c) \/ SendReturns(c) \/ SendFails(c) \/ SendUnwinds(c)
        PROVE  IInv'
    BY <1>4, SendInv
  <1>5. ASSUME NEW o \in owed, ReplyMatched(o)
        PROVE  IInv'
    BY <1>5, ReplyMatchedInv
  <1>6. CASE Drop \/ Disconnect
    BY <1>6, DropInv, DisconnectInv
  <1>7. CASE \/ \E c \in Caller : CallRefused(c) \/ CollectWakes(c)
             \/ \E o \in owed : ReplyUnmatched(o) \/ Record(o)
             \/ StrayEnds \/ Connect
    BY <1>7, EventInv
  <1>8. CASE UNCHANGED vars
    <2>1. HistoryIsFresh'
      BY <1>8 DEF IInv, HistoryIsFresh, vars
    <2> QED BY <1>8, <2>1, QuietInv DEF vars, IInv, TypeOK
  <1> QED BY <1>1, <1>2, <1>3, <1>4, <1>5, <1>6, <1>7, <1>8 DEF Next

-----------------------------------------------------------------------------
(***************************************************************************)
(* Theorems.                                                               *)
(***************************************************************************)

\* The engine's invariant holds of every behaviour.
THEOREM Invariance == Spec => []IInv
  <1>1. Init => IInv
    BY InitInv
  <1>2. IInv /\ [Next]_vars => IInv'
    BY NextInv
  <1> QED BY <1>1, <1>2, PTL DEF Spec

\* Type correctness of the request engine.
THEOREM TypeCorrect == Spec => []TypeOK
  <1>1. IInv => TypeOK
    BY DEF IInv
  <1> QED BY <1>1, Invariance, PTL

\* _waiters and _sends hold only what the call inside the lock registered, on
\* every way out of a call: reply, drop, failure, timer or cancellation.
THEOREM NothingLeftBehind == Spec => []RegisteredByHolder
  <1>1. IInv => RegisteredByHolder
    BY DEF IInv
  <1> QED BY <1>1, Invariance, PTL

\* A pending future is always where a reply or a drop finds it.
THEOREM NeverOrphaned == Spec => []NothingOrphaned
  <1>1. IInv => NothingOrphaned
    BY DEF IInv
  <1> QED BY <1>1, Invariance, PTL

\* _on_disconnect never completes an abort twice.
THEOREM AbortsStayPending == Spec => []AbortsPending
  <1>1. IInv => AbortsPending
    BY DEF IInv, SendsInv, AbortsPending
  <1> QED BY <1>1, Invariance, PTL

\* After a drop no call is left waiting for a reply.
THEOREM DropWakes == Spec => []DropWakesWaiting
  <1>1. ASSUME IInv, NEW c \in Caller, call[c].cut = "dropped",
               pc[c] \in {"delivering", "awaiting"}
        PROVE  Ready(c)
    <2>1. call[c].fut # "pending"
      BY <1>1 DEF IInv, DropSettles
    <2>2. CASE pc[c] = "delivering"
      <3>1. call[c].fut \in {"result", "error"}
        BY <2>1, <2>2, <1>1 DEF IInv, CallInv
      <3> QED BY <2>2, <3>1 DEF Ready
    <2>3. CASE pc[c] = "awaiting"
      BY <2>1, <2>3 DEF Ready
    <2> QED BY <1>1, <2>2, <2>3
  <1>2. IInv => DropWakesWaiting
    BY <1>1 DEF DropWakesWaiting
  <1> QED BY <1>2, Invariance, PTL

\* A history read returns only records that came in during it.
THEOREM HistoryFresh == Spec => []HistoryIsFresh
  <1>1. IInv => HistoryIsFresh
    BY DEF IInv
  <1> QED BY <1>1, Invariance, PTL

\* With transports whose cancelled sends end at once, no send overlaps another.
THEOREM SendsDoNotOverlap ==
    ASSUME SlowCancel = FALSE
    PROVE  Spec => []OneSendInFlight
  <1>1. ASSUME IInv
        PROVE  OneSendInFlight
    <2> DEFINE S == {c \in Caller : call[c].send \in {"inflight", "delivered", "cancelling"}}
    <2>1. \A c \in S : lock = c
      <3> SUFFICES ASSUME NEW c \in Caller, call[c].send # "none"
                   PROVE  lock = c
        OBVIOUS
      <3>1. pc[c] \notin {"idle", "queued"}
        BY <1>1 DEF IInv, CallInv, NoCall
      <3>2. pc[c] \in Inside
        BY <3>1, <1>1 DEF IInv, TypeOK
      <3> QED BY <3>2, <1>1 DEF IInv, LockInv
    <2> HIDE DEF S
    <2>2. S = {} \/ S = {lock}
      BY <2>1
    <2>3. IsFiniteSet(S) /\ Cardinality(S) <= 1
      <3>1. Cardinality({}) = 0
        BY FS_EmptySet
      <3>2. Cardinality({lock}) = 1
        BY FS_Singleton
      <3>3. CASE S = {}
        <4>1. IsFiniteSet(S)
          BY <3>3, FS_EmptySet
        <4>2. Cardinality(S) = 0
          BY <3>1, <3>3
        <4> QED BY <4>1, <4>2
      <3>4. CASE S = {lock}
        <4>1. IsFiniteSet(S)
          BY <3>4, FS_Singleton
        <4>2. Cardinality(S) = 1
          BY <3>2, <3>4
        <4> QED BY <4>1, <4>2
      <3> QED BY <2>2, <3>3, <3>4
    <2>4. Cardinality(strays) = 0
      BY <1>1, FS_EmptySet DEF IInv, StraysInv
    <2>5. Cardinality(S) \in Nat
      BY <2>3, FS_CardinalityType
    <2> QED BY <2>3, <2>4, <2>5 DEF OneSendInFlight, S
  <1> QED BY <1>1, Invariance, PTL

-----------------------------------------------------------------------------
(* Answers *)

\* Only a matched reply gives a call an answer.
LEMMA OnlyRepliesAnswer ==
    ASSUME IInv, [Next]_vars, NEW c \in Caller,
           call[c].answer = None, call'[c].answer # None
    PROVE  \E o \in owed : ReplyMatched(o) /\ c = waiters[o.key.reg].who
                          /\ call'[c].answer = o
  <1>1. /\ call \in [Caller -> CallState] /\ \A d \in Caller : call[d] \in CallState
    BY DEF IInv, TypeOK
  <1>2. ASSUME NEW d \in Caller, NEW o, Leave(d, o)
        PROVE  FALSE
    <2>1. call'[c] = NoCall \/ call'[c] = call[c]
      BY <1>1, <1>2 DEF Leave
    <2> QED BY <2>1 DEF NoCall
  <1>3. ASSUME NEW d \in Caller, NEW s \in CallState, Enter(d, s), s.answer = None
        PROVE  FALSE
    BY <1>1, <1>3 DEF Enter, CallState
  <1>4. ASSUME NEW d \in Caller, NEW s \in CallState, call' = [call EXCEPT ![d] = s],
               s.answer = None \/ s.answer = call[d].answer
        PROVE  FALSE
    BY <1>1, <1>4
  <1>5. ASSUME NEW d \in Caller, NEW job \in Job, CallEnters(d, job) \/ CallQueues(d, job)
        PROVE  FALSE
    <2>1. NewCall(job) \in CallState
      BY JobTyped DEF IInv
    <2>2. NewCall(job).answer = None
      BY DEF NewCall, NoCall
    <2> HIDE DEF NewCall
    <2> QED BY <1>3, <1>4, <1>5, <2>1, <2>2 DEF CallEnters, CallQueues
  <1>6. ASSUME NEW d \in Caller, LockGranted(d)
        PROVE  FALSE
    <2>1. queue \in Seq(Caller) /\ queue # <<>> /\ d = Head(queue)
      BY <1>6 DEF LockGranted, NextInLine, IInv, TypeOK
    <2>2. 1 \in 1..Len(queue) /\ queue[1] = d
      BY <2>1
    <2>3. pc[d] = "queued"
      BY <2>2 DEF IInv, LockInv
    <2>4. call[d].answer = None
      BY <2>3 DEF IInv, CallInv
    <2> QED BY <1>1, <1>3, <1>6, <2>4 DEF LockGranted
  <1>7. ASSUME NEW d \in Caller,
               \/ DeliveryCancelled(d) \/ DeliveryAborted(d) \/ DeliveryFailed(d)
               \/ DeliverySettled(d) \/ LastFrameSent(d) \/ ResumeFinishing(d)
               \/ ResumeAwaiting(d) \/ CollectEnds(d) \/ CollectCancelled(d)
        PROVE  FALSE
    BY <1>2, <1>7, LeavesInside
  <1>8. ASSUME NEW d \in Caller, NextFrame(d)
        PROVE  FALSE
    <2>1. Len(call[d].frames) > 1 /\ call[d].frames \in Seq(Key)
      BY <1>1, <1>8 DEF NextFrame, CallState
    <2>2. Tail(call[d].frames) \in Seq(Key)
      BY <2>1
    <2> DEFINE t == [call[d] EXCEPT !.frames = Tail(@), !.fut = "pending",
                                    !.send = "scheduled", !.cut = "no"]
    <2>3. t \in CallState /\ t.answer = call[d].answer
      BY <1>1, <2>2, ZenonT(60) DEF CallState
    <2>4. call' = [call EXCEPT ![d] = t]
      BY <1>8 DEF NextFrame
    <2> HIDE DEF t
    <2> QED BY <1>4, <2>3, <2>4
  <1>9. ASSUME NEW d \in Caller, HistoryRequested(d)
        PROVE  FALSE
    BY <1>1, <1>9 DEF HistoryRequested, CallState
  <1>10. ASSUME NEW d \in Caller, TimerFires(d) \/ CancelCall(d)
         PROVE  FALSE
    <2>1. PICK why : Relay(d, why)
      BY <1>10 DEF TimerFires, CancelCall
    <2> QED BY <2>1, <1>1 DEF Relay, CallState
  <1>11. ASSUME NEW d \in Caller,
               SendStarts(d) \/ SendReaches(d) \/ SendReturns(d) \/ SendFails(d) \/ SendUnwinds(d)
         PROVE  FALSE
    <2>1. PICK to : call' = [call EXCEPT ![d].send = to]
      BY <1>11 DEF SendStarts, SendReaches, SendReturns, SendFails, SendUnwinds, SendStep
    <2> QED BY <2>1, <1>1 DEF CallState
  <1>12. ASSUME NEW d \in Caller, CancelQueued(d)
         PROVE  FALSE
    <2>1. call'[c] = NoCall \/ call'[c] = call[c]
      BY <1>1, <1>12 DEF CancelQueued
    <2> QED BY <2>1 DEF NoCall
  <1>13. CASE Drop
    <2>1. call'[c].answer = call[c].answer
      BY <1>1, <1>13 DEF Drop, CallState
    <2> QED BY <2>1
  <1>14. CASE Disconnect
    <2>1. call'[c].answer = call[c].answer
      BY <1>1, <1>14 DEF Disconnect, CallState
    <2> QED BY <2>1
  <1>15. call' # call
    OBVIOUS
  <1>16. ASSUME NEW o \in owed, ReplyMatched(o)
         PROVE  c = waiters[o.key.reg].who /\ call'[c].answer = o
    <2>1. o.key \in Key
      BY DEF IInv, TypeOK, Reply
    <2>2. waiters[o.key.reg].who \in Caller
      BY <1>16, <2>1 DEF ReplyMatched, Waits, IInv, TypeOK, Key
    <2>3. PICK d \in Caller : d = waiters[o.key.reg].who
      BY <2>2
    <2>4. call' = [call EXCEPT ![d] = [@ EXCEPT !.fut = "result", !.answer = o]]
      BY <1>15, <1>16, <2>3 DEF ReplyMatched
    <2> QED BY <2>3, <2>4, <1>1 DEF CallState
  <1> QED BY <1>5, <1>6, <1>7, <1>8, <1>9, <1>10, <1>11, <1>12, <1>13, <1>14, <1>15, <1>16
          DEF Next, Step, vars, DeliveryAnswered, DeliveryAwaits, CallRefused, CollectWakes,
              ReplyUnmatched, Record, StrayEnds, Connect

\* A request is answered by the reply to its own frame, as long as no request
\* of the same key failed since the link came up.
THEOREM AnswersAreFresh == Spec => FreshAnswer
  <1> DEFINE A == \A c \in Caller :
                    call[c].answer = None /\ call'[c].answer # None =>
                       /\ call'[c].answer.key = Frame(c)
                       /\ OwnAnswer(c)' \/ Frame(c) \in tainted
  <1>1. IInv /\ [Next]_vars => A
    <2> SUFFICES ASSUME IInv, [Next]_vars, NEW c \in Caller,
                        call[c].answer = None, call'[c].answer # None
                 PROVE  /\ call'[c].answer.key = Frame(c)
                        /\ OwnAnswer(c)' \/ Frame(c) \in tainted
      OBVIOUS
    <2>1. PICK o \in owed : /\ ReplyMatched(o) /\ c = waiters[o.key.reg].who
                            /\ call'[c].answer = o
      BY OnlyRepliesAnswer
    <2>2. /\ o.key \in Key /\ o.key = [reg |-> o.key.reg, flag |-> o.key.flag]
          /\ o.key.reg \in Register
      BY SMTT(40) DEF IInv, TypeOK, Reply, Key
    <2>3. lock = c /\ call[c].kind = "request" /\ Frame(c) = o.key
      BY <2>1, <2>2 DEF ReplyMatched, Waits, IInv, RegisteredByHolder
    <2>4. o.key \in RequestKey
      BY <2>3 DEF IInv, CallInv, LockInv, Inside
    <2>5. Frame(c) \notin tainted => o.call = call[c].serial
      BY <2>3, <2>4, SMTT(40) DEF IInv, OwedInv
    <2>6. call'[c].serial = call[c].serial
      BY <2>1 DEF ReplyMatched, IInv, TypeOK, CallState
    <2> QED BY <2>1, <2>3, <2>5, <2>6 DEF OwnAnswer
  <1>2. [][A]_vars <=> FreshAnswer
    BY DEF FreshAnswer
  <1> QED BY <1>1, <1>2, Invariance, PTL DEF Spec

-----------------------------------------------------------------------------
(* No call is left stuck, and every call winds down *)

\* Whatever the charger and the link do, no call inside the lock waits for them
\* alone, nor a queued one behind such a call: the timer, the send or the loop
\* moves it on.
THEOREM NeverStuck == Spec => []NoCallStuck
  <1>1. ASSUME IInv, NEW c \in Caller, pc[c] \in Inside
        PROVE  MovesOn(c)
    <2>1. /\ call[c].send \in {"none", "scheduled", "inflight", "delivered", "ok", "failed",
                               "cancelling", "cancelled"}
          /\ call[c].cancel \in {"no", "timeout", "caller"}
      BY <1>1 DEF IInv, TypeOK, CallState
    <2>2. RelayedInv!(c)
      BY <1>1 DEF IInv, RelayedInv
    <2>3. CASE pc[c] = "delivering"
      <3>1. call[c].cancel # "no" => Ready(c)
        BY <2>3 DEF Ready
      <3> QED BY <3>1, <2>3 DEF MovesOn, Timed
    <2>4. CASE pc[c] = "finishing"
      <3>1. SendDone(c) => Ready(c)
        BY <2>4 DEF Ready
      <3> QED BY <3>1, <2>1, <2>2, <2>4, <1>1 DEF MovesOn, Timed, SendDone
    <2>5. CASE pc[c] = "awaiting"
      <3>1. call[c].fut # "pending" => Ready(c)
        BY <2>5 DEF Ready
      <3> QED BY <3>1, <2>2, <2>5 DEF MovesOn, Timed
    <2>6. CASE pc[c] = "collecting"
      BY <2>2, <2>6 DEF MovesOn
    <2> QED BY <2>3, <2>4, <2>5, <2>6, <1>1 DEF Inside
  <1>2. ASSUME IInv, NEW c \in Caller, pc[c] = "queued"
        PROVE  \E d \in Caller : MovesOn(d)
    <2>1. CASE lock # None
      <3>1. lock \in Caller /\ pc[lock] \in Inside
        BY <2>1, <1>2 DEF IInv, TypeOK, LockInv
      <3> QED BY <3>1, <1>1, <1>2
    <2>2. CASE lock = None
      <3>1. PICK i \in 1..Len(queue) : queue[i] = c
        BY <1>2 DEF IInv, LockInv
      <3>2. queue \in Seq(Caller) /\ queue # <<>>
        BY <3>1, <1>2 DEF IInv, TypeOK
      <3>3. Head(queue) \in Caller /\ Head(queue) = queue[1] /\ 1 \in 1..Len(queue)
        BY <3>2
      <3>4. pc[Head(queue)] = "queued"
        BY <3>3, <1>2 DEF IInv, LockInv
      <3> QED BY <3>2, <3>3, <3>4, <2>2 DEF MovesOn, NextInLine
    <2> QED BY <2>1, <2>2
  <1>3. IInv => NoCallStuck
    BY <1>1, <1>2 DEF NoCallStuck
  <1> QED BY <1>3, Invariance, PTL

LEMMA LeftOver ==
    /\ SendLeft("scheduled") = 4 /\ SendLeft("inflight") = 3 /\ SendLeft("delivered") = 2
    /\ SendLeft("cancelling") = 1 /\ SendLeft("none") = 0 /\ SendLeft("ok") = 0
    /\ SendLeft("failed") = 0 /\ SendLeft("cancelled") = 0
    /\ CancelLeft("no") = 2 /\ CancelLeft("timeout") = 1 /\ CancelLeft("caller") = 0
  BY DEF SendLeft, CancelLeft

\* Losing in one part of the count and gaining in none.
LEMMA Lighter ==
    ASSUME NEW p, NEW q, NEW s \in CallState, NEW t \in CallState,
           t.frames = s.frames,
           SendLeft(t.send) <= SendLeft(s.send),
           CancelLeft(t.cancel) <= CancelLeft(s.cancel),
           q = "delivering" => p = "delivering",
           t.fut = "pending" => s.fut = "pending",
           \/ SendLeft(t.send) < SendLeft(s.send)
           \/ CancelLeft(t.cancel) < CancelLeft(s.cancel)
           \/ q # "delivering" /\ p = "delivering"
           \/ t.fut # "pending" /\ s.fut = "pending"
    PROVE  Work(q, t) < Work(p, s)
  <1> DEFINE n == Len(s.frames)
             a == SendLeft(s.send)
             b == SendLeft(t.send)
             e == CancelLeft(s.cancel)
             f == CancelLeft(t.cancel)
             i == IF p = "delivering" THEN 1 ELSE 0
             j == IF q = "delivering" THEN 1 ELSE 0
             k == IF s.fut = "pending" THEN 1 ELSE 0
             l == IF t.fut = "pending" THEN 1 ELSE 0
  <1>1. n \in Nat
    BY DEF CallState
  <1>2. a \in Nat /\ b \in Nat /\ e \in Nat /\ f \in Nat
    BY LeftOver DEF CallState
  <1>3. i \in Nat /\ j \in Nat /\ k \in Nat /\ l \in Nat /\ j <= i /\ l <= k
    OBVIOUS
  <1>4. b <= a /\ f <= e
    OBVIOUS
  <1>5. b < a \/ f < e \/ j < i \/ l < k
    OBVIOUS
  <1>6. Work(p, s) = 6 * n + a + e + i + k /\ Work(q, t) = 6 * n + b + f + j + l
    BY DEF Work
  <1> HIDE DEF n, a, b, e, f, i, j, k, l
  <1> QED BY <1>1, <1>2, <1>3, <1>4, <1>5, <1>6

\* A frame less outweighs a whole new send.
LEMMA FrameLighter ==
    ASSUME NEW s \in CallState, NEW t \in CallState,
           Len(s.frames) > 1, t.frames = Tail(s.frames), s.send = "ok",
           t.send = "scheduled", t.cancel = s.cancel, t.fut = "pending"
    PROVE  Work("delivering", t) < Work("delivering", s)
  <1> DEFINE n == Len(s.frames)
             m == Len(t.frames)
             e == CancelLeft(s.cancel)
             k == IF s.fut = "pending" THEN 1 ELSE 0
  <1>1. n \in Nat /\ m = n - 1 /\ n > 1
    <2>1. s.frames \in Seq(Key) /\ s.frames # <<>>
      BY DEF CallState
    <2> QED BY <2>1
  <1>2. e \in Nat /\ k \in Nat
    BY LeftOver DEF CallState
  <1>3. Work("delivering", s) = 6 * n + 0 + e + 1 + k
    BY LeftOver DEF Work
  <1>4. Work("delivering", t) = 6 * m + 4 + e + 1 + 1
    BY LeftOver DEF Work
  <1> HIDE DEF n, m, e, k
  <1> QED BY <1>1, <1>2, <1>3, <1>4

\* One step brings the call inside the lock closer to its end, or changes
\* nothing of it but whether its link was cut.
Closer(c) == \/ Work(pc'[c], call'[c]) < Work(pc[c], call[c])
             \/ pc'[c] = pc[c] /\ call'[c] = [call[c] EXCEPT !.cut = call'[c].cut]

LEMMA Untouched ==
    ASSUME IInv, NEW c \in Caller, pc'[c] = pc[c], call'[c] = call[c]
    PROVE  Closer(c)
  <1>1. call[c] \in CallState
    BY DEF IInv, TypeOK
  <1>2. call[c] = [call[c] EXCEPT !.cut = call[c].cut]
    BY <1>1 DEF CallState
  <1> QED BY <1>2 DEF Closer

LEMMA StepCloser ==
    ASSUME IInv, [Next]_vars, NEW c \in Caller, pc[c] \in Inside, pc'[c] \in Inside
    PROVE  Closer(c)
  <1>1. /\ pc \in [Caller -> Inside \cup {"idle", "queued"}]
        /\ call \in [Caller -> CallState] /\ call[c] \in CallState /\ lock = c
        /\ \A d \in Caller : d # c => pc[d] \notin Inside
        /\ pc[c] \notin {"idle", "queued"}
    BY DEF IInv, TypeOK, LockInv, Inside
  <1>a. call[c] \in CallState
    BY <1>1
  <1>2. ASSUME NEW d \in Caller, NEW job \in Job, CallEnters(d, job) \/ CallQueues(d, job)
        PROVE  Closer(c)
    <2>1. d # c
      BY <1>1, <1>2 DEF CallEnters, CallQueues
    <2>2. pc'[c] = pc[c] /\ call'[c] = call[c]
      BY <2>1, <1>1, <1>2 DEF CallEnters, CallQueues, Enter
    <2> QED BY <2>2, Untouched
  <1>3. ASSUME NEW d \in Caller, LockGranted(d)
        PROVE  FALSE
    BY <1>1, <1>3, NoneAssumption DEF LockGranted
  <1>4. ASSUME NEW d \in Caller,
               \/ DeliveryCancelled(d) \/ DeliveryAborted(d) \/ DeliveryFailed(d)
               \/ DeliverySettled(d) \/ LastFrameSent(d) \/ ResumeFinishing(d)
               \/ ResumeAwaiting(d) \/ CollectEnds(d) \/ CollectCancelled(d)
        PROVE  FALSE
    <2>1. PICK o : pc[d] \in Inside /\ Leave(d, o)
      BY <1>4, LeavesInside
    <2>2. d = c /\ pc'[c] = "idle"
      BY <2>1, <1>1 DEF Leave
    <2> QED BY <2>2 DEF Inside
  <1>5. ASSUME NEW d \in Caller, DeliveryAnswered(d) \/ DeliveryAwaits(d)
        PROVE  Closer(c)
    <2>1. d = c /\ pc[c] = "delivering" /\ pc'[c] # "delivering" /\ call'[c] = call[c]
      BY <1>1, <1>5 DEF DeliveryAnswered, DeliveryAwaits, Woken, Inside
    <2>2. SendLeft(call[c].send) \in Int /\ CancelLeft(call[c].cancel) \in Int
      BY <1>1, LeftOver DEF CallState
    <2>3. Work(pc'[c], call[c]) < Work(pc[c], call[c])
      BY <2>1, <2>2, <1>1, Lighter
    <2> QED BY <2>1, <2>3 DEF Closer
  <1>6. ASSUME NEW d \in Caller, NextFrame(d)
        PROVE  Closer(c)
    <2>1. /\ d = c /\ pc[c] = "delivering" /\ pc' = pc /\ call[c].send = "ok"
          /\ Len(call[c].frames) > 1 /\ call[c].frames \in Seq(Key)
      BY <1>1, <1>6 DEF NextFrame, Woken, Inside, CallState
    <2>2. Tail(call[c].frames) \in Seq(Key)
      BY <2>1
    <2> DEFINE t == [call[c] EXCEPT !.frames = Tail(@), !.fut = "pending",
                                    !.send = "scheduled", !.cut = "no"]
    <2>3. /\ t \in CallState /\ t.frames = Tail(call[c].frames) /\ t.fut = "pending"
          /\ t.send = "scheduled" /\ t.cancel = call[c].cancel
      BY <1>1, <2>2, ZenonT(60) DEF CallState
    <2>4. call'[c] = t
      BY <1>1, <1>6, <2>1 DEF NextFrame
    <2> HIDE DEF t
    <2>5. Work("delivering", t) < Work("delivering", call[c])
      BY <1>1, <2>1, <2>3, FrameLighter
    <2> QED BY <2>1, <2>4, <2>5 DEF Closer
  <1>7. ASSUME NEW d \in Caller, HistoryRequested(d)
        PROVE  Closer(c)
    <2>1. d = c /\ pc[c] = "delivering" /\ pc'[c] = "collecting"
      BY <1>1, <1>7 DEF HistoryRequested, Woken, Inside
    <2>2. /\ call'[c] \in CallState /\ call'[c].frames = call[c].frames
          /\ call'[c].send = call[c].send /\ call'[c].cancel = call[c].cancel
          /\ call'[c].fut = "none"
      BY <1>1, <1>7, <2>1 DEF HistoryRequested, CallState
    <2>3. SendLeft(call[c].send) \in Int /\ CancelLeft(call[c].cancel) \in Int
      BY <1>1, LeftOver DEF CallState
    <2>4. Work(pc'[c], call'[c]) < Work(pc[c], call[c])
      BY <2>1, <2>2, <2>3, <1>1, Lighter
    <2> QED BY <2>4 DEF Closer
  <1>8. ASSUME NEW d \in Caller, TimerFires(d) \/ CancelCall(d)
        PROVE  Closer(c)
    <2>1. PICK why : /\ Relay(d, why) /\ pc' = pc
                     /\ \/ why = "timeout" /\ call[d].cancel = "no"
                        \/ why = "caller" /\ call[d].cancel # "caller"
      BY <1>8 DEF TimerFires, CancelCall
    <2>2. d = c
      BY <1>1, <1>8 DEF TimerFires, CancelCall, Timed, Inside
    <2> DEFINE f == IF pc[c] = "awaiting" /\ call[c].fut = "pending"
                    THEN "cancelled" ELSE call[c].fut
               g == IF pc[c] = "finishing" /\ call[c].send \in {"inflight", "delivered"}
                    THEN "cancelling" ELSE call[c].send
               t == [call[c] EXCEPT !.cancel = why, !.fut = f, !.send = g]
    <2>3. call'[c] = t
      BY <2>1, <2>2, <1>1 DEF Relay
    <2>4. f = "pending" => call[c].fut = "pending"
      OBVIOUS
    <2>5. SendLeft(g) <= SendLeft(call[c].send)
      BY <1>1, LeftOver DEF CallState
    <2>6. f \in {"cancelled", call[c].fut} /\ g \in {"cancelling", call[c].send}
      OBVIOUS
    <2> HIDE DEF f, g
    <2>a. /\ why \in {"no", "timeout", "caller"}
          /\ f \in {"none", "pending", "result", "error", "cancelled"}
          /\ g \in {"none", "scheduled", "inflight", "delivered", "ok", "failed",
                    "cancelling", "cancelled"}
      BY <1>1, <2>1, <2>6 DEF CallState
    <2>7. /\ t \in CallState
          /\ t.frames = call[c].frames /\ t.fut = f /\ t.send = g /\ t.cancel = why
      <3>1. t \in CallState
        <4> DEFINE s == call[c]
                   s1 == [s EXCEPT !.cancel = why]
                   s2 == [s1 EXCEPT !.fut = f]
                   s3 == [s2 EXCEPT !.send = g]
        <4>1. s \in CallState
          BY <1>a
        <4> HIDE DEF s
        <4>2. s1 \in CallState
          BY ONLY <4>1, <2>a DEF CallState
        <4> HIDE DEF s1
        <4>3. s2 \in CallState
          BY ONLY <4>2, <2>a DEF CallState
        <4> HIDE DEF s2
        <4>4. s3 \in CallState
          BY ONLY <4>3, <2>a DEF CallState
        <4>5. t = s3
          BY DEF s, s1, s2
        <4> QED BY ONLY <4>4, <4>5
      <3>2. t.frames = call[c].frames
        BY <1>a DEF CallState
      <3>3. t.fut = f
        BY <1>a DEF CallState
      <3>4. t.send = g
        BY <1>a DEF CallState
      <3>5. t.cancel = why
        BY <1>a DEF CallState
      <3> QED BY <3>1, <3>2, <3>3, <3>4, <3>5
    <2>8. CancelLeft(why) < CancelLeft(call[c].cancel)
      <3>1. call[c].cancel \in {"no", "timeout", "caller"}
        BY <1>1 DEF CallState
      <3> QED BY <3>1, <2>1, <2>2, LeftOver
    <2>9. CancelLeft(why) <= CancelLeft(call[c].cancel)
      <3>1. CancelLeft(why) \in Int /\ CancelLeft(call[c].cancel) \in Int
        BY <1>1, <2>1, LeftOver DEF CallState
      <3> QED BY <3>1, <2>8
    <2> HIDE DEF t
    <2>10. Work(pc[c], t) < Work(pc[c], call[c])
      BY <1>1, <2>4, <2>5, <2>7, <2>8, <2>9, Lighter
    <2> QED BY <2>1, <2>3, <2>10 DEF Closer
  <1>9. ASSUME NEW d \in Caller,
               SendStarts(d) \/ SendReaches(d) \/ SendReturns(d) \/ SendFails(d) \/ SendUnwinds(d)
        PROVE  Closer(c)
    <2>1. PICK to \in {"inflight", "failed", "delivered", "ok", "cancelled"} :
            /\ call' = [call EXCEPT ![d].send = to] /\ pc' = pc
            /\ \/ call[d].send = "scheduled" /\ to \in {"inflight", "failed"}
               \/ call[d].send = "inflight" /\ to \in {"delivered", "failed"}
               \/ call[d].send = "delivered" /\ to \in {"ok", "failed"}
               \/ call[d].send = "cancelling" /\ to = "cancelled"
      BY <1>9 DEF SendStarts, SendReaches, SendReturns, SendFails, SendUnwinds, SendStep
    <2>2. CASE d # c
      <3>1. pc'[c] = pc[c] /\ call'[c] = call[c]
        BY <2>1, <2>2, <1>1
      <3> QED BY <3>1, Untouched
    <2>3. CASE d = c
      <3>a. call'[c] = [call[c] EXCEPT !.send = to]
        BY <2>1, <2>3, <1>1
      <3>1. /\ call'[c] \in CallState /\ call'[c].frames = call[c].frames
            /\ call'[c].send = to /\ call'[c].cancel = call[c].cancel
            /\ call'[c].fut = call[c].fut
        BY <3>a, <1>1 DEF CallState
      <3>2. SendLeft(to) < SendLeft(call[c].send) /\ SendLeft(to) <= SendLeft(call[c].send)
        BY <2>1, <2>3, LeftOver
      <3>3. CancelLeft(call[c].cancel) \in Int
        BY <1>1, LeftOver DEF CallState
      <3>4. Work(pc[c], call'[c]) < Work(pc[c], call[c])
        BY <3>1, <3>2, <3>3, <1>1, Lighter
      <3> QED BY <3>4, <2>1 DEF Closer
    <2> QED BY <2>2, <2>3
  <1>10. ASSUME NEW d \in Caller, CancelQueued(d)
         PROVE  Closer(c)
    <2>1. d # c
      BY <1>1, <1>10 DEF CancelQueued
    <2>2. pc'[c] = pc[c] /\ call'[c] = call[c]
      BY <2>1, <1>1, <1>10 DEF CancelQueued
    <2> QED BY <2>2, Untouched
  <1>11. ASSUME NEW o \in owed, ReplyMatched(o)
         PROVE  Closer(c)
    <2>1. o \in Reply /\ pc' = pc
      BY <1>11 DEF IInv, TypeOK, ReplyMatched
    <2>2. CASE call'[c] = call[c]
      BY <2>1, <2>2, Untouched
    <2>3. CASE call'[c] # call[c]
      <3>1. PICK d : call' = [call EXCEPT ![d] = [@ EXCEPT !.fut = "result", !.answer = o]]
                     /\ call[d].fut = "pending"
        BY <1>11, <2>3, ZenonT(60) DEF ReplyMatched
      <3>2. d = c
        BY <3>1, <2>3, <1>1
      <3>3. /\ call'[c] \in CallState /\ call'[c].frames = call[c].frames
            /\ call'[c].send = call[c].send /\ call'[c].cancel = call[c].cancel
            /\ call'[c].fut = "result"
        BY <3>1, <3>2, <2>1, <1>1 DEF CallState
      <3>4. SendLeft(call[c].send) \in Int /\ CancelLeft(call[c].cancel) \in Int
        BY <1>1, LeftOver DEF CallState
      <3>5. Work(pc[c], call'[c]) < Work(pc[c], call[c])
        <4>1. call'[c].fut # "pending" /\ call[c].fut = "pending"
          BY <3>1, <3>2, <3>3
        <4> QED BY <4>1, <3>3, <3>4, <1>a, Lighter
      <3> QED BY <3>5, <2>1, SMTT(40) DEF Closer
    <2> QED BY <2>2, <2>3
  <1>12. CASE Drop
    <2>1. pc' = pc
      BY <1>12 DEF Drop
    <2>2. CASE call[c].fut = "pending" /\ Registered(c)
      <3>1. call'[c] = [call[c] EXCEPT !.cut = "dropped", !.fut = "error"]
        BY <1>12, <2>2 DEF Drop
      <3>2. /\ call'[c] \in CallState /\ call'[c].frames = call[c].frames
            /\ call'[c].send = call[c].send /\ call'[c].cancel = call[c].cancel
            /\ call'[c].fut = "error"
        BY <3>1, <1>1, ZenonT(60) DEF CallState
      <3>3. SendLeft(call[c].send) \in Int /\ CancelLeft(call[c].cancel) \in Int
        BY <1>1, LeftOver DEF CallState
      <3>a. call'[c].fut # "pending" /\ call[c].fut = "pending"
        BY <3>2, <2>2
      <3>4. Work(pc[c], call'[c]) < Work(pc[c], call[c])
        BY <3>2, <3>3, <3>a, <1>a, Lighter
      <3> QED BY <3>4, <2>1 DEF Closer
    <2>3. CASE ~(call[c].fut = "pending" /\ Registered(c))
      <3>1. call'[c] = [call[c] EXCEPT !.cut = "dropped", !.fut = call[c].fut]
        BY <1>12, <2>3 DEF Drop
      <3> DEFINE s == call[c]
      <3>a. s \in CallState /\ call'[c] = [s EXCEPT !.cut = "dropped", !.fut = s.fut]
        BY <3>1, <1>1
      <3> HIDE DEF s
      <3>b. [s EXCEPT !.cut = "dropped", !.fut = s.fut] = [s EXCEPT !.cut = "dropped"]
        BY <3>a DEF CallState
      <3>c. [s EXCEPT !.cut = "dropped"].cut = "dropped"
        BY <3>a DEF CallState
      <3>2. call'[c].cut = "dropped" /\ call'[c] = [call[c] EXCEPT !.cut = "dropped"]
        BY <3>a, <3>b, <3>c DEF s
      <3> QED BY <3>2, <2>1 DEF Closer
    <2> QED BY <2>2, <2>3
  <1>13. CASE Disconnect
    <2>1. pc' = pc
      BY <1>13 DEF Disconnect
    <2>2. CASE call' = call
      BY <2>1, <2>2, Untouched
    <2>3. CASE call' # call
      <3>1. call'[c] = [call[c] EXCEPT !.cut = "closed"]
        BY <1>13, <2>3 DEF Disconnect
      <3>2. call'[c].cut = "closed"
        BY <3>1, <1>1 DEF CallState
      <3> QED BY <3>1, <3>2, <2>1 DEF Closer
    <2> QED BY <2>2, <2>3
  <1>14. ASSUME UNCHANGED <<pc, call>>
         PROVE  Closer(c)
    BY <1>14, Untouched
  <1> QED BY <1>2, <1>3, <1>4, <1>5, <1>6, <1>7, <1>8, <1>9, <1>10, <1>11, <1>12, <1>13, <1>14
          DEF Next, Step, vars, CallRefused, CollectWakes, ReplyUnmatched, Record, StrayEnds,
              Connect

\* Inside the lock a call only moves towards its end: it holds the lock for at
\* most Work steps of its own, whatever the charger sends and the link does.
THEOREM WindsDown == Spec => CallsWindDown
  <1> DEFINE A == \A c \in Caller : pc[c] \in Inside /\ pc'[c] \in Inside => Closer(c)
  <1>1. IInv /\ [Next]_vars => A
    BY StepCloser
  <1>2. [][A]_vars <=> CallsWindDown
    BY DEF CallsWindDown, Closer
  <1> QED BY <1>1, <1>2, Invariance, PTL DEF Spec

-----------------------------------------------------------------------------
(* The engine implements the service it promises *)

\* Nobody is active exactly when the lock is free.
LEMMA QuietIsFree ==
    ASSUME IInv
    PROVE  /\ Service!Quiet <=> lock = None
           /\ \A c \in Caller : /\ Phase[c] = "idle" <=> pc[c] = "idle"
                                /\ Phase[c] = "waiting" <=> pc[c] = "queued"
                                /\ Phase[c] = "active" <=> pc[c] \in Inside
  <1>1. \A c \in Caller : pc[c] \in Inside \cup {"idle", "queued"}
    BY DEF IInv, TypeOK
  <1>2. \A c \in Caller : /\ Phase[c] = "idle" <=> pc[c] = "idle"
                          /\ Phase[c] = "waiting" <=> pc[c] = "queued"
                          /\ Phase[c] = "active" <=> pc[c] \in Inside
    BY <1>1 DEF Phase, Inside
  <1>3. lock \in Caller \cup {None} /\ None \notin Caller
    BY NoneAssumption DEF IInv, TypeOK
  <1>4. \A c \in Caller : pc[c] \in Inside <=> lock = c
    BY DEF IInv, LockInv
  <1> QED BY <1>2, <1>3, <1>4 DEF Service!Quiet

\* What a change of one caller's place does to the phases.
LEMMA PhaseMoves ==
    ASSUME NEW c \in Caller, NEW p, pc \in [Caller -> Inside \cup {"idle", "queued"}],
           pc' = [pc EXCEPT ![c] = p]
    PROVE  Phase' = [Phase EXCEPT ![c] = CASE p = "idle"   -> "idle"
                                           [] p = "queued" -> "waiting"
                                           [] OTHER        -> "active"]
  BY DEF Phase

\* Wherever inside a call c moves to, it is active.
LEMMA PhaseInside ==
    ASSUME NEW c \in Caller, NEW p \in Inside,
           pc \in [Caller -> Inside \cup {"idle", "queued"}], pc' = [pc EXCEPT ![c] = p]
    PROVE  Phase' = [Phase EXCEPT ![c] = "active"]
  <1>1. p # "idle" /\ p # "queued"
    BY DEF Inside
  <1> HIDE DEF Inside
  <1> QED BY <1>1 DEF Phase

\* A call of c ends.
LEMMA LeaveReturns ==
    ASSUME IInv, NEW c \in Caller, NEW o \in {"ok", "timeout", "error", "cancelled"},
           pc[c] \in Inside, Leave(c, o)
    PROVE  Service!Return(c)
  <1>1. Phase[c] = "active"
    BY QuietIsFree
  <1>2. Phase' = [Phase EXCEPT ![c] = "idle"]
    BY PhaseMoves DEF Leave, IInv, TypeOK
  <1>3. outcome' = [outcome EXCEPT ![c] = o] /\ UNCHANGED queue
    BY DEF Leave
  <1> QED BY <1>1, <1>2, <1>3 DEF Service!Return

\* Calls to the charger go one at a time and in the order they were made,
\* whatever the transport, the timers and the callers do.
THEOREM ServesInOrder == Spec => ServesInTurn
  <1>1. Init => Service!Init
    BY DEF Init, Service!Init, Phase
  <1>2. IInv /\ [Next]_vars => [Service!Next]_(Service!vars)
    <2> SUFFICES ASSUME IInv, Next
                 PROVE  Service!Next \/ UNCHANGED Service!vars
      BY DEF vars, Service!vars, Phase
    <2> USE DEF Service!vars
    <2>0. pc \in [Caller -> Inside \cup {"idle", "queued"}] /\ queue \in Seq(Caller)
      BY DEF IInv, TypeOK
    <2>1. ASSUME NEW c \in Caller, CallRefused(c)
          PROVE  Service!Refuse(c)
      BY <2>1, QuietIsFree DEF CallRefused, Service!Refuse, Phase
    <2>2. ASSUME NEW c \in Caller, NEW job \in Job, CallEnters(c, job)
          PROVE  Service!Begin(c)
      <3>1. Phase' = [Phase EXCEPT ![c] = "active"]
        <4>1. pc' = [pc EXCEPT ![c] = "delivering"]
          BY <2>2 DEF CallEnters, Enter
        <4> QED BY <2>0, <4>1, PhaseInside DEF Inside
      <3> QED BY <2>2, <3>1, QuietIsFree
              DEF CallEnters, Enter, Uncontended, Service!Begin
    <2>3. ASSUME NEW c \in Caller, NEW job \in Job, CallQueues(c, job)
          PROVE  Service!Join(c)
      <3>1. Phase' = [Phase EXCEPT ![c] = "waiting"]
        BY <2>0, <2>3, PhaseMoves DEF CallQueues
      <3> QED BY <2>3, <3>1, QuietIsFree DEF CallQueues, Uncontended, Service!Join
    <2>4. ASSUME NEW c \in Caller, LockGranted(c)
          PROVE  Service!Serve(c)
      <3>1. Phase' = [Phase EXCEPT ![c] = "active"]
        <4>1. pc' = [pc EXCEPT ![c] = "delivering"]
          BY <2>4 DEF LockGranted, Enter
        <4> QED BY <2>0, <4>1, PhaseInside DEF Inside
      <3>2. queue' = Service!Others(c)
        BY <2>4 DEF LockGranted, QueueWithout, Service!Others
      <3> QED BY <2>4, <3>1, <3>2, QuietIsFree
              DEF LockGranted, NextInLine, Enter, Service!Serve, Service!First
    <2>5. ASSUME NEW c \in Caller, CancelQueued(c)
          PROVE  Service!GiveUp(c)
      <3>1. Phase' = [Phase EXCEPT ![c] = "idle"]
        BY <2>0, <2>5, PhaseMoves DEF CancelQueued
      <3>2. queue' = Service!Others(c)
        BY <2>5 DEF CancelQueued, QueueWithout, Service!Others
      <3> QED BY <2>5, <3>1, <3>2, QuietIsFree DEF CancelQueued, Service!GiveUp
    <2>6. ASSUME NEW c \in Caller,
                 \/ DeliveryCancelled(c) \/ DeliveryAborted(c) \/ DeliveryFailed(c)
                 \/ DeliverySettled(c) \/ LastFrameSent(c) \/ ResumeFinishing(c)
                 \/ ResumeAwaiting(c) \/ CollectEnds(c) \/ CollectCancelled(c)
          PROVE  Service!Return(c)
      <3>1. PICK o : Leave(c, o) /\ pc[c] \in Inside
                     /\ o \in {"ok", "timeout", "error", "cancelled"}
        BY <2>6, LeavesInside
      <3> QED BY <3>1, LeaveReturns
    <2>7. ASSUME NEW c \in Caller,
                 DeliveryAnswered(c) \/ DeliveryAwaits(c) \/ HistoryRequested(c)
          PROVE  UNCHANGED Service!vars
      <3>1. PICK p : pc' = [pc EXCEPT ![c] = p] /\ p \in Inside
        BY <2>7 DEF DeliveryAnswered, DeliveryAwaits, HistoryRequested, Inside
      <3>2. Phase' = [Phase EXCEPT ![c] = "active"]
        BY <2>0, <3>1, PhaseInside
      <3>3. Phase[c] = "active"
        BY <2>7, QuietIsFree
           DEF DeliveryAnswered, DeliveryAwaits, HistoryRequested, Woken, Inside
      <3>4. Phase' = Phase
        BY <3>2, <3>3 DEF Phase
      <3> QED BY <2>7, <3>4 DEF DeliveryAnswered, DeliveryAwaits, HistoryRequested
    <2>8. ASSUME UNCHANGED <<pc, queue, outcome>>
          PROVE  UNCHANGED Service!vars
      BY <2>8 DEF Phase
    <2>9. ASSUME NEW c \in Caller,
                 \/ NextFrame(c) \/ CollectWakes(c) \/ TimerFires(c) \/ CancelCall(c)
                 \/ SendStarts(c) \/ SendReaches(c) \/ SendReturns(c) \/ SendFails(c)
                 \/ SendUnwinds(c)
          PROVE  UNCHANGED <<pc, queue, outcome>>
      BY <2>9 DEF NextFrame, CollectWakes, TimerFires, CancelCall, SendStarts,
                  SendReaches, SendReturns, SendFails, SendUnwinds, SendStep
    <2>10. ASSUME NEW o \in owed, ReplyMatched(o) \/ ReplyUnmatched(o) \/ Record(o)
           PROVE  UNCHANGED <<pc, queue, outcome>>
      BY <2>10 DEF ReplyMatched, ReplyUnmatched, Record
    <2>11. ASSUME StrayEnds \/ Drop \/ Disconnect \/ Connect
           PROVE  UNCHANGED <<pc, queue, outcome>>
      BY <2>11 DEF StrayEnds, Drop, Disconnect, Connect
    <2> QED BY <2>1, <2>2, <2>3, <2>4, <2>5, <2>6, <2>7, <2>8, <2>9, <2>10, <2>11
            DEF Next, Step, Service!Next
  <1> QED BY <1>1, <1>2, Invariance, PTL DEF Spec, ServesInTurn, Service!Spec
=============================================================================
