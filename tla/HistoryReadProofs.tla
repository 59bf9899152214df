------------------------- MODULE HistoryReadProofs -------------------------
(* A history read for every timeout, idle gap and stream: its clock, and   *)
(* what it makes of the records that came.                                 *)
EXTENDS HistoryRead, FiniteSetTheorems, TLAPS

-----------------------------------------------------------------------------
(* What a read makes of its buffer *)

\* Every member of a set of numbers is its k-th for one k, in order.
LEMMA NthIs ==
    ASSUME NEW n \in Nat, NEW S, S \subseteq 1..n
    PROVE  /\ Cardinality(S) \in Nat
           /\ \A k \in 1..Cardinality(S) : Nth(S, k) \in S
           /\ \A i \in S : \E k \in 1..Cardinality(S) : Nth(S, k) = i
           /\ \A k, l \in 1..Cardinality(S) : k < l => Nth(S, k) < Nth(S, l)
  <1> DEFINE N == Cardinality(S)
             Upto(i) == {j \in S : j <= i}
             rank == [i \in S |-> Cardinality(Upto(i))]
  <1>0. \A i \in S : i \in Int
    OBVIOUS
  <1>1. IsFiniteSet(S) /\ N \in Nat
    <2>1. IsFiniteSet(1..n)
      BY FS_Interval
    <2>2. IsFiniteSet(S)
      BY <2>1, FS_Subset
    <2> QED BY <2>2, FS_CardinalityType
  <1>2. ASSUME NEW i \in S
        PROVE  IsFiniteSet(Upto(i)) /\ Cardinality(Upto(i)) \in 1..N
    <2>1. Upto(i) \in SUBSET S /\ i \in Upto(i)
      BY <1>0
    <2>2. IsFiniteSet(Upto(i)) /\ Cardinality(Upto(i)) <= N
      BY <1>1, <2>1, FS_Subset
    <2>3. Cardinality(Upto(i)) \in Nat /\ Cardinality(Upto(i)) # 0
      BY <2>1, <2>2, FS_CardinalityType, FS_EmptySet
    <2> QED BY <1>1, <2>2, <2>3
  <1>3. ASSUME NEW i \in S, NEW j \in S, i < j
        PROVE  Cardinality(Upto(i)) < Cardinality(Upto(j))
    <2>1. Upto(i) \in SUBSET Upto(j) /\ j \in Upto(j) /\ j \notin Upto(i)
      <3>1. \A x \in S : x <= i => x <= j
        BY <1>0, <1>3
      <3>2. j <= j /\ ~(j <= i)
        BY <1>0, <1>3
      <3> QED BY <3>1, <3>2
    <2>2. Cardinality(Upto(i)) <= Cardinality(Upto(j)) /\ Cardinality(Upto(i)) # Cardinality(Upto(j))
      BY <1>2, <2>1, FS_Subset
    <2> QED BY <1>2, <2>2
  <1>4. rank \in Surjection(S, 1..N)
    <2>1. rank \in [S -> 1..N]
      BY <1>2
    <2>2. ASSUME NEW i \in S, NEW j \in S, rank[i] = rank[j] PROVE i = j
      <3>1. i \in Int /\ j \in Int
        OBVIOUS
      <3>2. ~(i < j) /\ ~(j < i)
        BY <1>2, <1>3, <2>2
      <3> QED BY <3>1, <3>2
    <2>3. rank \in Injection(S, 1..N)
      BY <2>1, <2>2 DEF Injection, IsInjective
    <2>4. IsFiniteSet(1..N) /\ Cardinality(1..N) = N
      BY <1>1, FS_Interval
    <2> QED BY <2>3, <2>4, FS_Injection
  <1>5. ASSUME NEW k \in 1..N PROVE Nth(S, k) \in S /\ Cardinality(Upto(Nth(S, k))) = k
    <2>1. \E i \in S : rank[i] = k
      BY <1>4 DEF Surjection
    <2>2. \E i \in S : Cardinality(Upto(i)) = k
      BY <2>1
    <2> QED BY <2>2 DEF Nth
  <1>6. ASSUME NEW i \in S PROVE \E k \in 1..N : Nth(S, k) = i
    <2> DEFINE k == Cardinality(Upto(i))
    <2>1. k \in 1..N
      BY <1>2
    <2>2. Nth(S, k) \in S /\ Cardinality(Upto(Nth(S, k))) = k
      BY <1>5, <2>1
    <2> DEFINE m == Nth(S, k)
    <2>3. m \in S /\ Cardinality(Upto(m)) = k
      BY <2>2
    <2> HIDE DEF m
    <2>4. ~(m < i) /\ ~(i < m)
      <3>1. i < m => k < k
        BY <1>3, <2>3
      <3>2. m < i => k < k
        BY <1>3, <2>3
      <3> HIDE DEF k
      <3> QED BY <2>1, <3>1, <3>2, <1>1
    <2>5. m = i
      BY <1>0, <2>3, <2>4
    <2>6. Nth(S, k) = i
      BY <2>5 DEF m
    <2> QED BY <2>1, <2>6
  <1>7. ASSUME NEW k \in 1..N, NEW l \in 1..N, k < l PROVE Nth(S, k) < Nth(S, l)
    <2> DEFINE i == Nth(S, k)
               j == Nth(S, l)
    <2>1. /\ i \in S /\ Cardinality(Upto(i)) = k
          /\ j \in S /\ Cardinality(Upto(j)) = l
      BY <1>5
    <2>2. i # j
      BY <1>7, <2>1
    <2>3. ~(j < i)
      <3>1. SUFFICES ASSUME j < i PROVE FALSE
        OBVIOUS
      <3>2. Cardinality(Upto(j)) < Cardinality(Upto(i))
        BY <1>3, <2>1, <3>1
      <3> QED BY <1>7, <2>1, <3>2
    <2>4. i \in Int /\ j \in Int
      BY <1>0, <2>1
    <2> QED BY <2>2, <2>3, <2>4
  <1> QED BY <1>1, <1>5, <1>6, <1>7

Record == Session \cup {Other}

\* What is kept of a buffer: the first of each session, in order.
LEMMA KeptIs ==
    ASSUME NEW b \in Seq(Record)
    PROVE  /\ Cardinality(Kept(b)) \in Nat
           /\ \A k \in 1..Cardinality(Kept(b)) :
                /\ Nth(Kept(b), k) \in DOMAIN b
                /\ b[Nth(Kept(b), k)] \in Session
                /\ \A j \in 1..(Nth(Kept(b), k) - 1) : b[j] # b[Nth(Kept(b), k)]
           /\ \A i \in DOMAIN b : b[i] # Other =>
                \E k \in 1..Cardinality(Kept(b)) : b[Nth(Kept(b), k)] = b[i]
           /\ \A k, l \in 1..Cardinality(Kept(b)) :
                k < l => Nth(Kept(b), k) < Nth(Kept(b), l)
  <1>1. Len(b) \in Nat /\ DOMAIN b = 1..Len(b)
    OBVIOUS
  <1>2. Kept(b) \subseteq 1..Len(b)
    BY <1>1 DEF Kept
  <1>3. /\ Cardinality(Kept(b)) \in Nat
        /\ \A k \in 1..Cardinality(Kept(b)) : Nth(Kept(b), k) \in Kept(b)
        /\ \A i \in Kept(b) : \E k \in 1..Cardinality(Kept(b)) : Nth(Kept(b), k) = i
        /\ \A k, l \in 1..Cardinality(Kept(b)) :
             k < l => Nth(Kept(b), k) < Nth(Kept(b), l)
    BY <1>1, <1>2, NthIs
  <1>4. ASSUME NEW k \in 1..Cardinality(Kept(b))
        PROVE  /\ Nth(Kept(b), k) \in DOMAIN b
               /\ b[Nth(Kept(b), k)] \in Session
               /\ \A j \in 1..(Nth(Kept(b), k) - 1) : b[j] # b[Nth(Kept(b), k)]
    <2> DEFINE i == Nth(Kept(b), k)
    <2>1. i \in Kept(b)
      BY <1>3
    <2> HIDE DEF i
    <2>2. i \in DOMAIN b /\ ~Skips(b, i)
      BY <2>1 DEF Kept
    <2>3. b[i] \in Record
      BY <2>2
    <2>4. i \in DOMAIN b /\ b[i] \in Session /\ \A j \in 1..(i - 1) : b[j] # b[i]
      BY <2>2, <2>3 DEF Skips, Record
    <2> QED BY <2>4 DEF i
  <1>5. ASSUME NEW i \in DOMAIN b, b[i] # Other
        PROVE  \E k \in 1..Cardinality(Kept(b)) : b[Nth(Kept(b), k)] = b[i]
    <2> DEFINE same == {j \in DOMAIN b : b[j] = b[i]}
               first == Nth(same, 1)
    <2>1. same \subseteq 1..Len(b) /\ i \in same
      BY <1>1
    <2>2. /\ Cardinality(same) \in Nat
          /\ \A k \in 1..Cardinality(same) : Nth(same, k) \in same
          /\ \A j \in same : \E k \in 1..Cardinality(same) : Nth(same, k) = j
          /\ \A k, l \in 1..Cardinality(same) : k < l => Nth(same, k) < Nth(same, l)
      <3> HIDE DEF same
      <3> QED BY <1>1, <2>1, NthIs
    <2>3. \E k \in 1..Cardinality(same) : Nth(same, k) = i
      BY <2>1, <2>2
    <2>4. 1 \in 1..Cardinality(same)
      BY <2>2, <2>3
    <2>5. first \in same
      BY <2>2, <2>4
    <2>6. first \in 1..Len(b) /\ b[first] = b[i]
      BY <1>1, <2>5
    <2>7. ASSUME NEW j \in 1..(first - 1) PROVE b[j] # b[first]
      <3>1. SUFFICES ASSUME b[j] = b[first] PROVE FALSE
        OBVIOUS
      <3>2. j \in same
        BY <1>1, <2>6, <3>1
      <3>3. PICK k \in 1..Cardinality(same) : Nth(same, k) = j
        BY <2>2, <3>2
      <3>4. k # 1
        BY <2>6, <3>3
      <3>5. 1 < k
        BY <2>2, <3>3, <3>4
      <3>6. first < j
        BY <2>2, <2>4, <3>3, <3>5
      <3> QED BY <2>6, <3>6
    <2>8. first \in Kept(b)
      <3> HIDE DEF first
      <3> QED BY <1>1, <1>5, <2>6, <2>7 DEF Kept, Skips
    <2> QED BY <1>3, <2>6, <2>8
  <1> QED BY <1>3, <1>4, <1>5

LEMMA DecodedType ==
    ASSUME NEW b \in Seq(Record)
    PROVE  Decoded(b) \in Seq(Session)
  <1>1. /\ Cardinality(Kept(b)) \in Nat
        /\ \A k \in 1..Cardinality(Kept(b)) : b[Nth(Kept(b), k)] \in Session
    BY KeptIs
  <1>2. Decoded(b) \in [1..Cardinality(Kept(b)) -> Session]
    BY <1>1 DEF Decoded
  <1> QED BY <1>1, <1>2

LEMMA DecodedIs ==
    ASSUME NEW b \in Seq(Record)
    PROVE  /\ {Decoded(b)[k] : k \in DOMAIN Decoded(b)} = {b[i] : i \in DOMAIN b} \ {Other}
           /\ \A k \in DOMAIN Decoded(b) :
                /\ Nth(Kept(b), k) \in DOMAIN b
                /\ b[Nth(Kept(b), k)] = Decoded(b)[k]
                /\ \A j \in 1..(Nth(Kept(b), k) - 1) : b[j] # Decoded(b)[k]
           /\ \A k, l \in DOMAIN Decoded(b) :
                k < l => Nth(Kept(b), k) < Nth(Kept(b), l)
  <1> DEFINE d == Decoded(b)
             N == Cardinality(Kept(b))
             at(k) == Nth(Kept(b), k)
  <1>1. /\ \A k \in 1..N : /\ at(k) \in DOMAIN b
                           /\ b[at(k)] \in Session
                           /\ \A j \in 1..(at(k) - 1) : b[j] # b[at(k)]
        /\ \A i \in DOMAIN b : b[i] # Other => \E k \in 1..N : b[at(k)] = b[i]
        /\ \A k, l \in 1..N : k < l => at(k) < at(l)
    BY KeptIs
  <1>2. DOMAIN d = 1..N /\ \A k \in 1..N : d[k] = b[at(k)]
    BY DEF Decoded
  <1> HIDE DEF d, N, at
  <1>3. Other \notin Session
    BY DEF Other, Session
  <1>4. {d[k] : k \in DOMAIN d} = {b[i] : i \in DOMAIN b} \ {Other}
    <2>1. \A k \in DOMAIN d : d[k] \in {b[i] : i \in DOMAIN b} \ {Other}
      BY <1>1, <1>2, <1>3
    <2>2. \A v \in {b[i] : i \in DOMAIN b} \ {Other} : \E k \in DOMAIN d : d[k] = v
      BY <1>1, <1>2, SMTT(40)
    <2> QED BY <2>1, <2>2
  <1>5. /\ \A k \in DOMAIN d : /\ at(k) \in DOMAIN b /\ b[at(k)] = d[k]
                              /\ \A j \in 1..(at(k) - 1) : b[j] # d[k]
        /\ \A k, l \in DOMAIN d : k < l => at(k) < at(l)
    BY <1>1, <1>2
  <1> QED BY <1>4, <1>5 DEF d, at

-----------------------------------------------------------------------------
(* The invariant *)

\* A wait does not outlast the deadline.  Unless the deadline cut it short, it
\* leaves room for the rest of an idle gap; so one that has run out and was not
\* cut short was an idle gap.
ClockInv ==
    pc = "collecting" =>
        /\ wait <= left
        /\ event = "clear" => wait = left \/ silence + wait >= Idle
        /\ wait = 0 => gap >= Idle \/ left = 0

\* While a read goes on the buffer is what came since it began.
BufferInv == pc # "idle" => reads \in Read /\ bulk = came

\* No stream has begun that no read asked for.
AskedInv == \A r \in Read : r > reads => next[r] = 0

\* In a read that began after every earlier stream, the buffer is a part of its
\* own: nothing the stream has not reached, everything it has, and first
\* occurrences in its order.
Reached(b, n) == \A i \in DOMAIN b : b[i] < n \/ b[i] = Other
Covered(b, n) == n \in Session => \A m \in 1..(n - 1) : \E i \in DOMAIN b : b[i] = m
Ordered(b) == \A i, j \in DOMAIN b :
                 i < j /\ ~Skips(b, i) /\ ~Skips(b, j) => b[i] < b[j]
StreamInv ==
    pc # "idle" /\ ~mixed =>
        /\ \A r \in Read : r # reads => next[r] \notin Session
        /\ Reached(bulk, next[reads]) /\ Covered(bulk, next[reads]) /\ Ordered(bulk)

IInv == TypeOK /\ ClockInv /\ BufferInv /\ AskedInv /\ StreamInv /\ MostRecentFirst

\* A read that returns returns what its buffer decodes to.
LEMMA ReturnsDecoded ==
    ASSUME Next, Returns
    PROVE  (WakesPastDeadline \/ Quiet) /\ Finish
  <1>1. WakesPastDeadline \/ Quiet
    BY DEF Next, Returns, Begin, Reaches, Sent, GivesUp, Wakes, Tick,
           Streams, Strays, OnNotify, Drops
  <1> QED BY <1>1 DEF WakesPastDeadline, Quiet

\* A wait is over neither at once nor after the deadline.
LEMMA WaitBounds ==
    ASSUME NEW t \in Int, t > 0
    PROVE  /\ WaitFor(t) \in Nat \ {0} /\ WaitFor(t) <= t
           /\ WaitFor(t) = t \/ WaitFor(t) = Idle
  BY TimesAssumption DEF WaitFor

\* An ordered buffer decodes to an ordered result.
LEMMA OrderedDecodes ==
    ASSUME NEW b \in Seq(Record), Ordered(b)
    PROVE  \A k, l \in DOMAIN Decoded(b) : k < l => Decoded(b)[k] < Decoded(b)[l]
  <1> SUFFICES ASSUME NEW k \in DOMAIN Decoded(b), NEW l \in DOMAIN Decoded(b), k < l
               PROVE  Decoded(b)[k] < Decoded(b)[l]
    OBVIOUS
  <1> DEFINE i == Nth(Kept(b), k)
             j == Nth(Kept(b), l)
  <1>1. /\ Other \notin {Decoded(b)[x] : x \in DOMAIN Decoded(b)}
        /\ i \in DOMAIN b /\ b[i] = Decoded(b)[k] /\ \A x \in 1..(i - 1) : b[x] # b[i]
        /\ j \in DOMAIN b /\ b[j] = Decoded(b)[l] /\ \A x \in 1..(j - 1) : b[x] # b[j]
        /\ i < j
    <2> DEFINE d == Decoded(b)
               at(x) == Nth(Kept(b), x)
    <2>1. /\ {d[x] : x \in DOMAIN d} = {b[x] : x \in DOMAIN b} \ {Other}
          /\ \A x \in DOMAIN d : /\ at(x) \in DOMAIN b /\ b[at(x)] = d[x]
                                /\ \A y \in 1..(at(x) - 1) : b[y] # d[x]
          /\ \A x, y \in DOMAIN d : x < y => at(x) < at(y)
      BY DecodedIs
    <2> HIDE DEF d, at
    <2>2. /\ Other \notin {d[x] : x \in DOMAIN d}
          /\ at(k) \in DOMAIN b /\ b[at(k)] = d[k] /\ \A x \in 1..(at(k) - 1) : b[x] # b[at(k)]
          /\ at(l) \in DOMAIN b /\ b[at(l)] = d[l] /\ \A x \in 1..(at(l) - 1) : b[x] # b[at(l)]
          /\ at(k) < at(l)
      BY <2>1 DEF d
    <2> QED BY <2>2 DEF d, at
  <1>2. b[i] # Other /\ b[j] # Other
    BY <1>1
  <1> HIDE DEF i, j
  <1>3. ~Skips(b, i) /\ ~Skips(b, j)
    BY <1>1, <1>2 DEF Skips
  <1>4. b[i] < b[j]
    BY <1>1, <1>3 DEF Ordered
  <1> QED BY <1>1, <1>4

\* The next session of the stream, or a record of another kind or seen before,
\* leaves the buffer a part of the stream.
LEMMA AppendStream ==
    ASSUME NEW b \in Seq(Record), NEW n \in Session, NEW v, NEW m,
           Reached(b, n), Covered(b, n), Ordered(b),
           \/ v = n /\ m = n + 1
           \/ v \in {Other} \cup 1..(n - 1) /\ m = n
    PROVE  Reached(Append(b, v), m) /\ Covered(Append(b, v), m) /\ Ordered(Append(b, v))
  <1> DEFINE c == Append(b, v)
             len == Len(b)
  <1>1. /\ len \in Nat /\ DOMAIN b = 1..len /\ DOMAIN c = 1..(len + 1)
        /\ \A i \in 1..len : c[i] = b[i] /\ b[i] \in Record
        /\ c[len + 1] = v
    OBVIOUS
  <1> HIDE DEF c, len
  <1>2. n \in Nat /\ n >= 1 /\ n <= Stored /\ Stored \in Nat /\ m \in Nat
    BY StreamAssumption DEF Session
  <1>3. \A i \in 1..len : b[i] \in Nat
    BY <1>1, StreamAssumption DEF Record, Session, Other
  <1>4. Reached(c, m)
    <2>1. \A i \in 1..len : b[i] < n \/ b[i] = Other
      BY <1>1 DEF Reached
    <2>2. \A i \in 1..len : c[i] < m \/ c[i] = Other
      BY <1>1, <1>2, <1>3, <2>1
    <2>3. v < m \/ v = Other
      BY <1>2
    <2> QED BY <1>1, <2>2, <2>3 DEF Reached
  <1>5. Covered(c, m)
    <2> SUFFICES ASSUME m \in Session, NEW w \in 1..(m - 1)
                 PROVE  \E i \in DOMAIN c : c[i] = w
      BY DEF Covered
    <2>1. CASE w = n /\ v = n
      BY <1>1, <2>1
    <2>2. CASE w \in 1..(n - 1)
      <3>1. PICK i \in DOMAIN b : b[i] = w
        BY <2>2 DEF Covered
      <3> QED BY <1>1, <3>1
    <2> QED BY <1>2, <2>1, <2>2
  <1>6. Ordered(c)
    <2> SUFFICES ASSUME NEW i \in 1..(len + 1), NEW j \in 1..(len + 1),
                        i < j, ~Skips(c, i), ~Skips(c, j)
                 PROVE  c[i] < c[j]
      BY <1>1 DEF Ordered
    <2>1. i \in 1..len
      BY <1>1
    <2>2. ~Skips(b, i)
      <3>1. \A x \in 1..(i - 1) : x \in 1..len
        BY <1>1, <2>1
      <3> QED BY <1>1, <2>1, <3>1 DEF Skips
    <2>3. CASE j \in 1..len
      <3>1. \A x \in 1..(j - 1) : x \in 1..len
        BY <1>1, <2>3
      <3>2. ~Skips(b, j)
        BY <1>1, <2>3, <3>1 DEF Skips
      <3>3. b[i] < b[j]
        BY <1>1, <2>1, <2>2, <2>3, <3>2 DEF Ordered
      <3> QED BY <1>1, <2>1, <2>3, <3>3
    <2>4. CASE j = len + 1
      <3>1. v # Other /\ \A x \in 1..len : b[x] # v
        BY <1>1, <2>4 DEF Skips
      <3>2. v = n
        BY <1>1, <1>2, <3>1 DEF Covered
      <3>3. b[i] < n
        BY <1>1, <2>1, <2>2 DEF Reached, Skips
      <3> QED BY <1>1, <2>1, <2>4, <3>2, <3>3
    <2> QED BY <1>1, <2>3, <2>4
  <1> QED BY <1>4, <1>5, <1>6 DEF c

LEMMA InitHolds == Init => IInv
  <1> SUFFICES ASSUME Init PROVE IInv
    OBVIOUS
  <1>1. TypeOK
    <2>1. mixed \in BOOLEAN
      BY DEF Init
    <2>2. next \in [Read -> 0..Stored + 1] /\ reads \in 0..MaxReads
      BY StreamAssumption DEF Init
    <2>3. bulk \in Seq(Record) /\ came \in Seq(Record) /\ result \in Seq(Session)
      BY DEF Init
    <2> QED BY <2>1, <2>2, <2>3 DEF Init, TypeOK, Record
  <1> QED BY <1>1 DEF Init, IInv, ClockInv, BufferInv, AskedInv, StreamInv, MostRecentFirst

LEMMA TypeKept == TypeOK /\ [Next]_vars => TypeOK'
  <1> SUFFICES ASSUME TypeOK, [Next]_vars PROVE TypeOK'
    OBVIOUS
  <1> USE TimesAssumption, StreamAssumption DEF TypeOK
  <1>1. CASE Begin
    BY <1>1 DEF Begin, BulkEmptied
  <1>2. CASE Reaches
    <2>1. 1 \in 0..Stored + 1
      OBVIOUS
    <2> QED BY <1>2, <2>1 DEF Reaches
  <1>3. CASE Sent
    BY <1>3 DEF Sent, WaitFor, BulkWhenSent
  <1>4. CASE GivesUp
    BY <1>4 DEF GivesUp
  <1>5. ASSUME NEW b \in Seq(Record), result' = Decoded(b) PROVE result' \in Seq(Session)
    BY <1>5, DecodedType
  <1>6. ASSUME Finish, UNCHANGED <<left, wait, reads, next, came, silence, gap, mixed>>,
               event' \in {"set", "clear"}
        PROVE  TypeOK'
    <2>1. result' \in Seq(Session)
      BY <1>5, <1>6 DEF Finish, Record
    <2> QED BY <1>6, <2>1 DEF Finish
  <1>7. CASE WakesPastDeadline
    BY <1>6, <1>7 DEF WakesPastDeadline, Finish
  <1>8. CASE Quiet
    BY <1>6, <1>8 DEF Quiet, Finish
  <1>9. CASE Wakes
    BY <1>9 DEF Wakes, WaitAgain, WaitFor
  <1>10. CASE Tick
    BY <1>10 DEF Tick
  <1>11. ASSUME NEW v \in Record, OnNotify(v), next' \in [Read -> 0..Stored + 1] PROVE TypeOK'
    BY <1>11 DEF OnNotify, Record
  <1>12. ASSUME NEW r \in Read, Streams(r) PROVE TypeOK'
    <2>1. next[r] \in Record
      BY <1>12 DEF Streams, Record
    <2>2. next[r] + 1 \in 0..Stored + 1
      BY <1>12 DEF Streams, Session
    <2>3. next' \in [Read -> 0..Stored + 1]
      BY <1>12, <2>2 DEF Streams
    <2> QED BY <1>11, <1>12, <2>1, <2>3 DEF Streams
  <1>13. ASSUME NEW r \in Read, Strays(r) PROVE TypeOK'
    <2>1. PICK v \in {Other} \cup 1..(next[r] - 1) : OnNotify(v)
      BY <1>13 DEF Strays
    <2>2. v \in Record
      BY <1>13 DEF Strays, Record, Session
    <2> QED BY <1>11, <1>13, <2>1, <2>2 DEF Strays
  <1>14. CASE Drops
    <2>1. \A r \in Read : (IF next[r] = 0 THEN 0 ELSE Stored + 1) \in 0..Stored + 1
      OBVIOUS
    <2>2. next' \in [Read -> 0..Stored + 1]
      BY <1>14, <2>1 DEF Drops
    <2> QED BY <1>14, <2>2 DEF Drops
  <1>15. CASE UNCHANGED vars
    BY <1>15 DEF vars
  <1> QED BY <1>1, <1>2, <1>3, <1>4, <1>7, <1>8, <1>9, <1>10, <1>12, <1>13, <1>14, <1>15
          DEF Next

LEMMA ClockKept == TypeOK /\ ClockInv /\ [Next]_vars => ClockInv'
  <1> SUFFICES ASSUME TypeOK, ClockInv, [Next]_vars PROVE ClockInv'
    OBVIOUS
  <1> USE TimesAssumption DEF TypeOK, ClockInv
  <1>1. CASE Begin
    BY <1>1 DEF Begin
  <1>2. CASE Reaches
    BY <1>2 DEF Reaches
  <1>3. CASE Sent
    <2>1. Timeout \in Int /\ Timeout > 0
      OBVIOUS
    <2> QED BY <1>3, <2>1, WaitBounds DEF Sent
  <1>4. CASE GivesUp
    BY <1>4 DEF GivesUp
  <1>5. CASE Wakes
    BY <1>5, WaitBounds DEF Wakes, WaitAgain
  <1>6. CASE WakesPastDeadline
    BY <1>6 DEF WakesPastDeadline, Finish
  <1>7. CASE Quiet
    BY <1>7 DEF Quiet, Finish
  <1>8. CASE Tick
    BY <1>8 DEF Tick
  <1>9. ASSUME NEW r \in Read, NEW record, OnNotify(record) PROVE ClockInv'
    BY <1>9 DEF OnNotify
  <1>10. CASE Drops
    BY <1>10 DEF Drops
  <1>11. CASE UNCHANGED vars
    BY <1>11 DEF vars
  <1> QED BY <1>1, <1>2, <1>3, <1>4, <1>5, <1>6, <1>7, <1>8, <1>9, <1>10, <1>11
          DEF Next, Streams, Strays

LEMMA ReadKept ==
    TypeOK /\ BufferInv /\ AskedInv /\ [Next]_vars => BufferInv' /\ AskedInv'
  <1> SUFFICES ASSUME TypeOK, BufferInv, AskedInv, [Next]_vars PROVE BufferInv' /\ AskedInv'
    OBVIOUS
  <1> USE StreamAssumption DEF TypeOK, BufferInv, AskedInv
  <1>1. CASE Begin
    BY <1>1 DEF Begin, BulkEmptied, Read
  <1>2. CASE Reaches
    <2>1. \A r \in Read : r > reads => next'[r] = next[r]
      BY <1>2 DEF Reaches, Read
    <2> QED BY <1>2, <2>1 DEF Reaches
  <1>3. CASE Sent
    BY <1>3 DEF Sent, BulkWhenSent
  <1>4. CASE GivesUp \/ Wakes \/ Tick \/ WakesPastDeadline \/ Quiet
    BY <1>4 DEF GivesUp, Wakes, Tick, WakesPastDeadline, Quiet, Finish
  <1>5. ASSUME NEW v, OnNotify(v) PROVE BufferInv'
    BY <1>5 DEF OnNotify
  <1>6. ASSUME NEW r \in Read, Streams(r) PROVE BufferInv' /\ AskedInv'
    <2>1. next[r] # 0
      BY <1>6 DEF Streams, Session
    <2>2. \A q \in Read : q > reads => next'[q] = next[q]
      BY <1>6, <2>1 DEF Streams
    <2> QED BY <1>5, <1>6, <2>2 DEF Streams, OnNotify
  <1>7. ASSUME NEW r \in Read, Strays(r) PROVE BufferInv' /\ AskedInv'
    BY <1>5, <1>7 DEF Strays, OnNotify
  <1>8. CASE Drops
    BY <1>8 DEF Drops
  <1>9. CASE UNCHANGED vars
    BY <1>9 DEF vars
  <1> QED BY <1>1, <1>2, <1>3, <1>4, <1>6, <1>7, <1>8, <1>9 DEF Next

LEMMA StreamKept ==
    IInv /\ [Next]_vars => StreamInv' /\ MostRecentFirst'
  <1> SUFFICES ASSUME IInv, [Next]_vars PROVE StreamInv' /\ MostRecentFirst'
    OBVIOUS
  <1>0. /\ TypeOK /\ BufferInv /\ AskedInv /\ StreamInv /\ MostRecentFirst
        /\ bulk \in Seq(Record) /\ Stored \in Nat /\ MaxReads \in Nat
        /\ reads \in Nat /\ next \in [Read -> 0..Stored + 1] /\ mixed \in BOOLEAN
    BY StreamAssumption DEF IInv, TypeOK, Record
  <1>a. pc # "idle" => reads \in Read /\ next[reads] \in 0..Stored + 1
    BY <1>0 DEF BufferInv
  <1>1. CASE Begin
    <2>1. reads' \in Read /\ next' = next /\ next[reads'] = 0
      BY <1>0, <1>1 DEF Begin, AskedInv, Read
    <2>2. bulk' = <<>> /\ pc' # "idle"
      BY <1>1 DEF Begin, BulkEmptied
    <2>3. 0 \notin Session
      BY DEF Session
    <2>4. ~mixed' => \A r \in Read : next[r] \notin Session
      BY <1>1 DEF Begin
    <2>5. StreamInv'
      BY <2>1, <2>2, <2>3, <2>4 DEF StreamInv, Reached, Covered, Ordered
    <2> QED BY <2>2, <2>5 DEF MostRecentFirst
  <1>2. CASE Reaches
    <2>1. /\ pc = "sending" /\ next[reads] = 0 /\ next' = [next EXCEPT ![reads] = 1]
          /\ UNCHANGED <<pc, bulk, reads, mixed>>
      BY <1>2 DEF Reaches
    <2>2. SUFFICES ASSUME ~mixed PROVE StreamInv'
      BY <2>1 DEF StreamInv, MostRecentFirst
    <2>3. next'[reads] = 1 /\ \A r \in Read : r # reads => next'[r] = next[r]
      BY <1>0, <1>a, <2>1
    <2>4. /\ Reached(bulk, 0) /\ Ordered(bulk)
          /\ \A r \in Read : r # reads => next[r] \notin Session
      BY <1>0, <2>1, <2>2 DEF StreamInv
    <2>5. \A i \in DOMAIN bulk : bulk[i] \in Nat
      BY <1>0 DEF Record, Session, Other
    <2>6. Reached(bulk, 1) /\ Covered(bulk, 1)
      BY <2>4, <2>5 DEF Reached, Covered
    <2> QED BY <2>1, <2>3, <2>4, <2>6 DEF StreamInv
  <1>3. CASE Sent \/ Wakes \/ Tick
    <2>1. pc # "idle" /\ pc' # "idle" /\ bulk' = bulk /\ UNCHANGED <<reads, next, mixed>>
      BY <1>3 DEF Sent, Wakes, Tick, BulkWhenSent
    <2> QED BY <1>0, <2>1 DEF StreamInv, MostRecentFirst
  <1>4. CASE GivesUp
    <2>1. pc' = "idle" /\ outcome' # "ok"
      BY <1>4 DEF GivesUp
    <2> QED BY <2>1 DEF StreamInv, MostRecentFirst
  <1>5. CASE WakesPastDeadline \/ Quiet
    <2>1. pc # "idle" /\ pc' = "idle" /\ result' = Decoded(bulk) /\ mixed' = mixed
      BY <1>5 DEF WakesPastDeadline, Quiet, Finish
    <2>2. ASSUME ~mixed
          PROVE  \A i, j \in DOMAIN Decoded(bulk) : i < j => Decoded(bulk)[i] < Decoded(bulk)[j]
      <3>1. Ordered(bulk)
        BY <1>0, <2>1, <2>2 DEF StreamInv
      <3> QED BY <1>0, <3>1, OrderedDecodes
    <2>3. MostRecentFirst'
      BY <2>1, <2>2 DEF MostRecentFirst
    <2> QED BY <2>1, <2>3 DEF StreamInv
  <1>6. ASSUME NEW r \in Read, Streams(r) \/ Strays(r) PROVE StreamInv' /\ MostRecentFirst'
    <2>1. UNCHANGED <<pc, reads, outcome, result, mixed>> /\ next[r] \in Session
      BY <1>6 DEF Streams, Strays, OnNotify
    <2>2. MostRecentFirst'
      BY <1>0, <2>1 DEF MostRecentFirst
    <2>3. SUFFICES ASSUME pc # "idle", ~mixed
                   PROVE  /\ \A q \in Read : q # reads => next'[q] \notin Session
                          /\ Reached(bulk', next'[reads]) /\ Covered(bulk', next'[reads])
                          /\ Ordered(bulk')
      BY <2>1, <2>2 DEF StreamInv
    <2>4. /\ \A q \in Read : q # reads => next[q] \notin Session
          /\ Reached(bulk, next[reads]) /\ Covered(bulk, next[reads]) /\ Ordered(bulk)
      BY <1>0, <2>3 DEF StreamInv
    <2>5. r = reads
      BY <2>1, <2>4
    <2>6. /\ \A q \in Read : q # reads => next'[q] = next[q]
          /\ \E v : /\ bulk' = Append(bulk, v)
                    /\ \/ v = next[r] /\ next'[r] = next[r] + 1
                       \/ v \in {Other} \cup 1..(next[r] - 1) /\ next'[r] = next[r]
      <3>1. CASE Streams(r)
        BY <1>0, <2>5, <3>1 DEF Streams, OnNotify
      <3>2. CASE Strays(r)
        BY <2>5, <3>2 DEF Strays, OnNotify
      <3> QED BY <1>6, <3>1, <3>2
    <2>7. PICK v : /\ bulk' = Append(bulk, v)
                   /\ \/ v = next[r] /\ next'[r] = next[r] + 1
                      \/ v \in {Other} \cup 1..(next[r] - 1) /\ next'[r] = next[r]
      BY <2>6
    <2>8. PICK n, m : n = next[r] /\ m = next'[r]
      OBVIOUS
    <2>9. Reached(Append(bulk, v), m) /\ Covered(Append(bulk, v), m) /\ Ordered(Append(bulk, v))
      BY <1>0, <2>1, <2>4, <2>5, <2>7, <2>8, AppendStream
    <2> QED BY <2>4, <2>5, <2>6, <2>7, <2>8, <2>9
  <1>7. CASE Drops
    <2>1. /\ bulk' = bulk /\ UNCHANGED <<reads, result, mixed>> /\ (pc' # "idle" => pc' = pc)
          /\ \A r \in Read : next'[r] = IF next[r] = 0 THEN 0 ELSE Stored + 1
      BY <1>7 DEF Drops
    <2>2. MostRecentFirst'
      BY <1>0, <1>7 DEF Drops, MostRecentFirst
    <2>3. SUFFICES ASSUME pc # "idle", ~mixed
                   PROVE  /\ \A r \in Read : next'[r] \notin Session
                          /\ Reached(bulk, next'[reads]) /\ Ordered(bulk)
      BY <1>a, <2>1, <2>2 DEF StreamInv, Covered
    <2>4. Reached(bulk, next[reads]) /\ Ordered(bulk)
      BY <1>0, <2>3 DEF StreamInv
    <2>5. next'[reads] = IF next[reads] = 0 THEN 0 ELSE Stored + 1
      BY <1>a, <2>1, <2>3
    <2>6. \A i \in DOMAIN bulk : bulk[i] \in Nat /\ bulk[i] <= Stored
      BY <1>0 DEF Record, Session, Other
    <2>7. Reached(bulk, next'[reads])
      BY <1>0, <2>4, <2>5, <2>6 DEF Reached
    <2>8. \A r \in Read : next'[r] \notin Session
      BY <1>0, <2>1 DEF Session
    <2> QED BY <2>4, <2>7, <2>8
  <1>8. CASE UNCHANGED vars
    BY <1>0, <1>8 DEF vars, StreamInv, MostRecentFirst
  <1> QED BY <1>1, <1>2, <1>3, <1>4, <1>5, <1>6, <1>7, <1>8 DEF Next

THEOREM Invariance == Spec => []IInv
  <1>1. IInv /\ [Next]_vars => IInv'
    BY TypeKept, ClockKept, ReadKept, StreamKept DEF IInv
  <1> QED BY <1>1, InitHolds, PTL DEF Spec

-----------------------------------------------------------------------------
(* The properties *)

\* A history read's state stays of its type: what it returns are sessions.
THEOREM ReadTyped == Spec => []TypeOK
  <1> QED BY Invariance, PTL DEF IInv

\* A read is over at its deadline, whatever the charger keeps sending.
THEOREM OverByDeadline == Spec => []EndsByDeadline
  <1>1. IInv => EndsByDeadline
    BY DEF IInv, TypeOK, ClockInv, EndsByDeadline
  <1> QED BY <1>1, Invariance, PTL

\* A stream is left only after an idle gap, at the deadline, or at its end.
THEOREM NoStreamCutShort == Spec => CutOnlyBySilence
  <1>1. IInv /\ [Next]_vars =>
          [Returns => next[reads] > Stored \/ gap >= Idle \/ left <= 0]_vars
    <2> SUFFICES ASSUME IInv, Next, Returns PROVE gap >= Idle \/ left <= 0
      OBVIOUS
    <2>1. WakesPastDeadline \/ Quiet
      BY ReturnsDecoded
    <2> QED BY <2>1 DEF WakesPastDeadline, Quiet, IInv, TypeOK, ClockInv
  <1> QED BY <1>1, Invariance, PTL DEF Spec, CutOnlyBySilence

\* A read begun when no earlier stream was going on any more returns its
\* sessions most recent first, whatever repeats, other records, pauses and drops
\* come between them and whatever the reads before it left behind.
THEOREM NewestFirst == Spec => []MostRecentFirst
  <1> QED BY Invariance, PTL DEF IInv

\* Every read returns each session that came during it once, in the order of
\* first arrival, and nothing else: also when the rest of an earlier stream
\* mixes with its own.
THEOREM ReturnsWhatCame == Spec => ResultIsWhatCame
  <1> DEFINE Good == /\ {result'[i] : i \in DOMAIN result'} = {came[i] : i \in DOMAIN came} \ {Other}
                     /\ \A i, j \in DOMAIN result' :
                          i < j => FirstAt(result'[i]) < FirstAt(result'[j])
  <1>1. ASSUME IInv, Next, Returns PROVE Good
    <2>1. result' = Decoded(bulk) /\ pc # "idle"
      BY <1>1, ReturnsDecoded DEF Finish, Returns
    <2>2. bulk = came /\ came \in Seq(Record)
      BY <1>1, <2>1 DEF IInv, BufferInv, TypeOK, Record
    <2> DEFINE d == Decoded(came)
               at(k) == Nth(Kept(came), k)
    <2>3. result' = d
      BY <2>1, <2>2
    <2>4. /\ {d[k] : k \in DOMAIN d} = {came[i] : i \in DOMAIN came} \ {Other}
          /\ \A k \in DOMAIN d : /\ at(k) \in DOMAIN came /\ came[at(k)] = d[k]
                                /\ \A j \in 1..(at(k) - 1) : came[j] # d[k]
          /\ \A k, l \in DOMAIN d : k < l => at(k) < at(l)
      BY <2>2, DecodedIs
    <2> HIDE DEF d, at
    <2>5. ASSUME NEW k \in DOMAIN d PROVE FirstAt(d[k]) = at(k)
      <3> DEFINE First(i) == came[i] = d[k] /\ \A j \in 1..(i - 1) : came[j] # d[k]
      <3>1. Len(came) \in Nat /\ DOMAIN came = 1..Len(came)
        BY <2>2
      <3>2. at(k) \in 1..Len(came) /\ First(at(k))
        BY <2>4, <3>1
      <3>3. ASSUME NEW i \in 1..Len(came), First(i) PROVE i = at(k)
        <4>1. ~(i < at(k)) /\ ~(at(k) < i)
          BY <3>1, <3>2, <3>3
        <4> QED BY <3>1, <3>2, <4>1
      <3>4. FirstAt(d[k]) = CHOOSE i \in 1..Len(came) : First(i)
        BY DEF FirstAt
      <3> HIDE DEF First
      <3> QED BY <3>2, <3>3, <3>4
    <2> QED BY <2>3, <2>4, <2>5
  <1>2. IInv /\ [Next]_vars => [Returns => Good]_vars
    BY <1>1
  <1> QED BY <1>2, Invariance, PTL DEF Spec, ResultIsWhatCame

=============================================================================
