--------------------------- MODULE BleLinkProofs ---------------------------
(***************************************************************************)
(* Proofs about BleLink: types, that no link is used before it is          *)
(* subscribed to, and that with one owner the transport keeps the contract *)
(* the client is written against.                                          *)
(***************************************************************************)
EXTENDS BleLink, FiniteSetTheorems, TLAPS

LEMMA NoneIsNoLink == None \notin Link
  BY LinkAssumption DEF Link

LEMMA InitInv == Init => IInv /\ HeardInv
  <1> SUFFICES ASSUME Init
               PROVE  IInv /\ HeardInv
    OBVIOUS
  <1> USE NoneIsNoLink DEF Init
  <1>1. Up = {}
    BY DEF Up
  <1>2. \A t \in Task : pc[t] = "idle"
    BY DEF Task
  <1>3. TypeOK
    BY DEF TypeOK
  <1>4. HandInv
    BY <1>2 DEF HandInv
  <1>5. SlotInv
    BY <1>1 DEF SlotInv
  <1>6. HeardInv
    BY <1>2 DEF HeardInv, Task
  <1> QED BY <1>3, <1>4, <1>5, <1>6 DEF IInv

\* Ending a call leaves the links alone, or takes down one that is up.
LEMMA ReturnInv ==
    ASSUME IInv, NEW t \in Task, NEW o \in {"ok", "error", "cancelled"}, Return(t, o),
           UNCHANGED <<client, listening, dismissed>>, abandoned' \subseteq Link,
           \/ UNCHANGED <<link, reported>>
           \/ mine[t] \in Up /\ GoesDown(mine[t])
    PROVE  IInv'
  <1>1. TypeOK'
    BY DEF IInv, TypeOK, Return, Go, GoesDown, EndOf, Up
  <1>2. HandInv'
    BY DEF IInv, TypeOK, HandInv, Return, Go, GoesDown, EndOf, Up
  <1>3. SlotInv'
    BY DEF IInv, TypeOK, SlotInv, Return, Go, GoesDown, EndOf, Up
  <1> QED BY <1>1, <1>2, <1>3 DEF IInv

LEMMA NextInv == IInv /\ [Next]_vars => IInv'
  <1> SUFFICES ASSUME IInv, [Next]_vars
               PROVE  IInv'
    OBVIOUS
  <1> USE NoneIsNoLink
  <1>0. \A t \in Owner \cup Sender : t \in Task
    BY DEF Task
  <1>1. ASSUME NEW t \in Task, ConnectNeedless(t) \/ NotEstablished(t) \/ SendRefused(t)
        PROVE  IInv'
    <2>1. abandoned' \subseteq Link
      BY <1>1 DEF ConnectNeedless, NotEstablished, SendRefused, IInv, TypeOK
    <2> QED BY <1>1, <2>1, ReturnInv DEF ConnectNeedless, NotEstablished, SendRefused
  <1>2. ASSUME NEW t \in Task, Closed(t) \/ OwnerCancelled(t)
        PROVE  IInv'
    <2>1. PICK o \in {"ok", "error", "cancelled"} : Return(t, o)
      BY <1>2 DEF Closed, OwnerCancelled
    <2>2. abandoned' \subseteq Link
      BY <1>2 DEF Closed, OwnerCancelled, IInv, TypeOK
    <2> QED BY <1>2, <2>1, <2>2, ReturnInv DEF Closed, OwnerCancelled
  <1>3. ASSUME NEW t \in Task, SendEnds(t)
        PROVE  IInv'
    <2>1. PICK o \in {"ok", "error", "cancelled"} : Return(t, o)
      BY <1>3 DEF SendEnds
    <2>2. abandoned' \subseteq Link
      BY <1>3 DEF SendEnds, IInv, TypeOK
    <2> QED BY <1>3, <2>1, <2>2, ReturnInv DEF SendEnds
  <1>4. ASSUME NEW t \in Task, ConnectBegins(t)
        PROVE  IInv'
    BY <1>4 DEF ConnectBegins, Go, IInv, TypeOK, HandInv, SlotInv, Up
  <1>5. ASSUME NEW t \in Task, Established(t)
        PROVE  IInv'
    <2>1. PICK l \in Link : /\ link[l] = "unused" /\ link' = [link EXCEPT ![l] = "open"]
                            /\ Go(t, "subscribing", l) /\ client' = client
      BY <1>5 DEF Established, ClientSoFar
    <2>2. TypeOK'
      BY <1>5, <2>1 DEF Established, Go, IInv, TypeOK
    <2>3. HandInv'
      BY <1>5, <2>1 DEF Established, Go, IInv, TypeOK, HandInv
    <2>4. SlotInv'
      BY <1>5, <2>1 DEF Established, IInv, TypeOK, SlotInv, Up
    <2> QED BY <2>2, <2>3, <2>4 DEF IInv
  <1>6. ASSUME NEW t \in Task, Subscribed(t)
        PROVE  IInv'
    <2>1. mine[t] \in Link
      BY <1>6 DEF Subscribed, IInv, HandInv
    <2>2. TypeOK'
      BY <1>6, <2>1 DEF Subscribed, Go, IInv, TypeOK
    <2>3. HandInv'
      BY <1>6, <2>1 DEF Subscribed, Go, IInv, TypeOK, HandInv
    <2>4. SlotInv'
      BY <1>6, <2>1 DEF Subscribed, IInv, TypeOK, SlotInv, Up
    <2> QED BY <2>2, <2>3, <2>4 DEF IInv
  <1>7. ASSUME NEW t \in Task, NotSubscribed(t)
        PROVE  IInv'
    BY <1>7 DEF NotSubscribed, AfterFailure, Go, IInv, TypeOK, HandInv, SlotInv, Up
  <1>8. ASSUME NEW t \in Task, ConnectReturns(t)
        PROVE  IInv'
    <2>1. mine[t] \in Link /\ link[mine[t]] \in {"notifying", "closed"}
      BY <1>8 DEF ConnectReturns, IInv, HandInv
    <2> QED BY <1>8, <2>1 DEF ConnectReturns, Return, Go, IInv, TypeOK, HandInv, SlotInv, Up
  <1>9. ASSUME NEW t \in Task, DisconnectBegins(t)
        PROVE  IInv'
    <2>1. TypeOK'
      BY <1>9, ZenonT(60) DEF DisconnectBegins, ClientTaken, ListeningOff, Return, Go, IInv, TypeOK
    <2>2. HandInv'
      BY <1>9 DEF DisconnectBegins, ClientTaken, Return, Go, IInv, TypeOK, HandInv
    <2>3. SlotInv'
      BY <1>9 DEF DisconnectBegins, ClientTaken, IInv, SlotInv, Up
    <2> QED BY <2>1, <2>2, <2>3 DEF IInv
  <1>10. ASSUME NEW t \in Task, SendBegins(t)
         PROVE  IInv'
    BY <1>10 DEF SendBegins, IsConnected, Go, IInv, TypeOK, HandInv, SlotInv, Up
  <1>11. ASSUME NEW l \in Link, LinkLost(l)
         PROVE  IInv'
    BY <1>11 DEF LinkLost, GoesDown, EndOf, IInv, TypeOK, HandInv, SlotInv, Up
  <1>12. CASE UNCHANGED vars
    BY <1>12 DEF vars, IInv, TypeOK, HandInv, SlotInv, Up
  <1> QED BY <1>0, <1>1, <1>2, <1>3, <1>4, <1>5, <1>6, <1>7, <1>8, <1>9, <1>10, <1>11, <1>12
          DEF Next

LEMMA Invariance == Spec => []IInv
  BY InitInv, NextInv, PTL DEF Spec

\* Every variable keeps its type, whatever tasks there are.
THEOREM TypeCorrect == Spec => []TypeOK
  <1>1. IInv => TypeOK
    BY DEF IInv
  <1> QED BY <1>1, Invariance, PTL

\* However owners race and are cancelled, no link is used before its
\* notifications are on.
THEOREM SubscribedBeforeUse == Spec => []SubscribedFirst
  <1>1. IInv => SubscribedFirst
    BY NoneIsNoLink DEF IInv, HandInv, SubscribedFirst, IsConnected, Up, Link
  <1> QED BY <1>1, Invariance, PTL

-----------------------------------------------------------------------------
(* One owner *)

LEMMA HeardStep ==
    ASSUME IInv, HeardInv, [Next]_vars, \A t, u \in Owner : t = u
    PROVE  HeardInv'
  <1> USE NoneIsNoLink DEF HeardInv
  <1>0. /\ pc \in [Task -> {"idle", "connecting", "subscribing", "subscribed",
                            "unwinding", "closing", "writing"}]
        /\ link \in [Link -> {"unused", "open", "notifying", "closed"}]
        /\ \A t \in Owner \cup Sender : t \in Task
    BY DEF IInv, TypeOK, Task
  <1>a. ASSUME client' = client, NEW l \in Link, link' = [link EXCEPT ![l] = "closed"]
        PROVE  IsConnected' => IsConnected
    BY <1>0, <1>a DEF IsConnected, Up
  <1>b. ASSUME UNCHANGED <<client, link>>
        PROVE  IsConnected' => IsConnected
    BY <1>b DEF IsConnected, Up
  <1>1. ASSUME NEW t \in Owner,
               \/ ConnectNeedless(t) \/ NotEstablished(t) \/ Closed(t) \/ OwnerCancelled(t)
        PROVE  HeardInv'
    <2>1. pc' = [pc EXCEPT ![t] = "idle"] /\ UNCHANGED <<client, listening>>
      BY <1>1 DEF ConnectNeedless, NotEstablished, Closed, OwnerCancelled, Return, Go
    <2>2. pc'[t] = "idle" /\ \A u \in Owner : u = t
      BY <1>0, <2>1
    <2> QED BY <2>1, <2>2
  <1>2. ASSUME NEW t \in Owner, ConnectBegins(t)
        PROVE  HeardInv'
    <2>1. ~IsConnected'
      BY <1>2, <1>b DEF ConnectBegins
    <2> QED BY <1>0, <1>2, <2>1 DEF ConnectBegins, Go
  <1>3. ASSUME NEW t \in Owner, Established(t) \/ Subscribed(t) \/ NotSubscribed(t)
        PROVE  HeardInv'
    <2>1. listening /\ ~IsConnected /\ UNCHANGED <<client, listening>>
      BY <1>3 DEF Established, Subscribed, NotSubscribed, ClientSoFar
    <2>2. ~IsConnected'
      <3>1. CASE Established(t)
        <4>1. PICK l \in Link : link[l] = "unused" /\ link' = [link EXCEPT ![l] = "open"]
          BY <3>1 DEF Established
        <4>2. client # l
          BY <4>1 DEF IInv, HandInv
        <4> QED BY <1>0, <2>1, <4>1, <4>2 DEF IsConnected, Up
      <3>2. CASE Subscribed(t)
        BY <1>0, <2>1, <3>2 DEF Subscribed, IsConnected, Up
      <3>3. CASE NotSubscribed(t)
        BY <1>b, <2>1, <3>3 DEF NotSubscribed
      <3> QED BY <1>3, <3>1, <3>2, <3>3
    <2> QED BY <2>1, <2>2
  <1>4. ASSUME NEW t \in Owner, ConnectReturns(t)
        PROVE  HeardInv'
    <2>1. pc'[t] = "idle" /\ \A u \in Owner : u = t
      BY <1>0, <1>4 DEF ConnectReturns, Return, Go
    <2> QED BY <1>4, <2>1 DEF ConnectReturns
  <1>5. ASSUME NEW t \in Owner, DisconnectBegins(t)
        PROVE  HeardInv'
    <2>1. client' = None
      BY <1>5 DEF DisconnectBegins, ClientTaken
    <2>2. pc'[t] \in {"idle", "closing"}
      BY <1>0, <1>5 DEF DisconnectBegins, ClientTaken, Return, Go
    <2>3. \A u \in Owner : u = t
      OBVIOUS
    <2> QED BY <2>1, <2>2, <2>3
  <1>6. ASSUME NEW t \in Sender, SendRefused(t) \/ SendBegins(t) \/ SendEnds(t)
        PROVE  HeardInv'
    <2>1. PICK p \in {"idle", "writing"} : pc' = [pc EXCEPT ![t] = p]
      BY <1>6 DEF SendRefused, SendBegins, SendEnds, Return, Go
    <2>2. UNCHANGED <<client, listening, link>>
      BY <1>6 DEF SendRefused, SendBegins, SendEnds
    <2> QED BY <1>0, <1>b, <2>1, <2>2
  <1>7. ASSUME NEW l \in Link, LinkLost(l)
        PROVE  HeardInv'
    BY <1>7, <1>a DEF LinkLost, GoesDown, EndOf
  <1>8. CASE UNCHANGED vars
    BY <1>8, <1>b DEF vars
  <1> QED BY <1>1, <1>2, <1>3, <1>4, <1>5, <1>6, <1>7, <1>8 DEF Next

LEMMA OneOwnerInvariance ==
    ASSUME \A t, u \in Owner : t = u
    PROVE  Spec => [](IInv /\ HeardInv)
  <1>1. IInv /\ HeardInv /\ [Next]_vars => (IInv /\ HeardInv)'
    BY NextInv, HeardStep
  <1> QED BY <1>1, InitInv, PTL DEF Spec

\* With one owner at a time, cancelled or not, a connected link is listened to.
THEOREM HeardByOneOwner ==
    ASSUME \A t, u \in Owner : t = u
    PROVE  Spec => []HeardWhenUp
  <1>1. IInv /\ HeardInv => HeardWhenUp
    BY NoneIsNoLink DEF HeardInv, HeardWhenUp, IsConnected, Up, Link
  <1> QED BY <1>1, OneOwnerInvariance, PTL

\* A link that goes down is a Lose of the contract if anybody listens.
LEMMA DownIsLose ==
    ASSUME IInv, HeardInv, NEW l \in Up, GoesDown(l), UNCHANGED <<client, listening>>
    PROVE  Contract!Lose \/ UNCHANGED Contract!vars
  <1>1. l \in Link /\ l \notin reported
    BY DEF Up, IInv, SlotInv
  <1>2. ~IsConnected'
    BY <1>1, NoneIsNoLink DEF IsConnected, Up, GoesDown, EndOf, IInv, SlotInv, TypeOK
  <1>3. IsConnected => listening
    BY NoneIsNoLink DEF HeardInv, IsConnected, Up, Link
  <1>4. CASE listening
    <2>1. IsFiniteSet(reported)
      <3>1. IsFiniteSet(Link)
        BY LinkAssumption, FS_Interval DEF Link
      <3> QED BY <3>1, FS_Subset DEF IInv, TypeOK
    <2>2. Cardinality(reported \cup {l}) = Cardinality(reported) + 1
      BY <1>1, <2>1, FS_AddElement
    <2>3. reported' = reported \cup {l}
      BY <1>4 DEF GoesDown, EndOf
    <2> QED BY <1>2, <1>4, <2>2, <2>3 DEF Contract!Lose, Listener
  <1>5. CASE ~listening
    <2>1. ~IsConnected
      BY <1>3, <1>5
    <2>2. reported' = reported
      BY <1>5 DEF GoesDown, EndOf
    <2>3. IsConnected' = IsConnected
      BY <1>2, <2>1 DEF IsConnected
    <2> QED BY <2>2, <2>3 DEF Contract!vars, Listener
  <1> QED BY <1>4, <1>5

\* With one owner at a time the transport keeps the contract: every loss the
\* client did not ask for is reported, and no other.
THEOREM ImplementsContract ==
    ASSUME \A t, u \in Owner : t = u
    PROVE  Spec => KeepsContract
  <1>1. Init => Contract!Init
    <2>1. Cardinality({}) = 0
      BY FS_EmptySet
    <2> QED BY <2>1, NoneIsNoLink DEF Init, Contract!Init, Listener, IsConnected, Up, Link
  <1>2. IInv /\ HeardInv /\ [Next]_vars => [Contract!Next]_(Contract!vars)
    <2> SUFFICES ASSUME IInv, HeardInv, [Next]_vars
                 PROVE  Contract!Next \/ UNCHANGED Contract!vars
      OBVIOUS
    <2> USE NoneIsNoLink DEF Contract!vars, Listener
    <2>1. ASSUME UNCHANGED <<client, listening, link, reported>>
          PROVE  UNCHANGED Contract!vars
      BY <2>1 DEF IsConnected, Up
    <2>2. ASSUME NEW t \in Owner, ConnectBegins(t)
          PROVE  Contract!Ask
      BY <2>2 DEF ConnectBegins, Contract!Ask, IsConnected, Up
    <2>3. ASSUME NEW t \in Owner, Established(t)
          PROVE  UNCHANGED Contract!vars
      <3>1. PICK l \in Link : link[l] = "unused" /\ link' = [link EXCEPT ![l] = "open"]
        BY <2>3 DEF Established
      <3>2. client # l
        BY <3>1 DEF IInv, HandInv
      <3>3. client' = client /\ UNCHANGED <<listening, reported>>
        BY <2>3 DEF Established, ClientSoFar
      <3>4. IsConnected' <=> IsConnected
        BY <3>1, <3>2, <3>3 DEF IsConnected, Up, IInv, TypeOK
      <3> QED BY <3>3, <3>4 DEF IsConnected
    <2>4. ASSUME NEW t \in Owner, Subscribed(t)
          PROVE  UNCHANGED Contract!vars
      <3>1. link' = [link EXCEPT ![mine[t]] = "notifying"] /\ link[mine[t]] = "open"
            /\ UNCHANGED <<client, listening, reported>>
        BY <2>4 DEF Subscribed
      <3>2. IsConnected' <=> IsConnected
        BY <3>1 DEF IsConnected, Up, IInv, TypeOK
      <3> QED BY <3>1, <3>2 DEF IsConnected
    <2>5. ASSUME NEW t \in Owner, ConnectReturns(t)
          PROVE  Contract!Open \/ UNCHANGED Contract!vars
      <3>1. listening /\ ~IsConnected /\ UNCHANGED <<listening, reported>>
        BY <2>5 DEF ConnectReturns, HeardInv
      <3>2. CASE IsConnected'
        <4>1. IsConnected' = TRUE
          BY <3>2 DEF IsConnected
        <4> QED BY <3>1, <4>1 DEF Contract!Open
      <3>3. CASE ~IsConnected'
        <4>1. IsConnected' = IsConnected
          BY <3>1, <3>3 DEF IsConnected
        <4> QED BY <3>1, <4>1
      <3> QED BY <3>2, <3>3
    <2>6. ASSUME NEW t \in Owner, DisconnectBegins(t)
          PROVE  Contract!Close
      <3>1. ~listening' /\ client' = None /\ UNCHANGED <<link, reported>>
        BY <2>6 DEF DisconnectBegins, ClientTaken, ListeningOff
      <3>2. IsConnected' = FALSE
        <4>1. None \notin Up'
          BY DEF Up, Link
        <4> QED BY <3>1, <4>1 DEF IsConnected
      <3> QED BY <2>6, <3>1, <3>2 DEF Contract!Close, DisconnectBegins, ClientTaken, ListeningOff
    <2>7. ASSUME NEW t \in Owner, Closed(t) \/ OwnerCancelled(t)
          PROVE  Contract!Lose \/ UNCHANGED Contract!vars
      <3>1. UNCHANGED <<client, listening>>
        BY <2>7 DEF Closed, OwnerCancelled
      <3>2. \/ UNCHANGED <<link, reported>>
            \/ mine[t] \in Up /\ GoesDown(mine[t])
        BY <2>7 DEF Closed, OwnerCancelled
      <3> QED BY <2>1, <3>1, <3>2, DownIsLose
    <2>8. ASSUME NEW l \in Link, LinkLost(l)
          PROVE  Contract!Lose \/ UNCHANGED Contract!vars
      BY <2>8, DownIsLose DEF LinkLost
    <2>9. ASSUME NEW t \in Owner,
                 ConnectNeedless(t) \/ NotEstablished(t) \/ NotSubscribed(t)
          PROVE  UNCHANGED Contract!vars
      BY <2>1, <2>9 DEF ConnectNeedless, NotEstablished, NotSubscribed
    <2>10. ASSUME NEW t \in Sender, SendRefused(t) \/ SendBegins(t) \/ SendEnds(t)
           PROVE  UNCHANGED Contract!vars
      BY <2>1, <2>10 DEF SendRefused, SendBegins, SendEnds
    <2>11. CASE UNCHANGED vars
      BY <2>1, <2>11 DEF vars
    <2> QED BY <2>2, <2>3, <2>4, <2>5, <2>6, <2>7, <2>8, <2>9, <2>10, <2>11
            DEF Next, Contract!Next
  <1> QED BY <1>1, <1>2, OneOwnerInvariance, PTL DEF Spec, KeepsContract, Contract!Spec

-----------------------------------------------------------------------------
(* The slot, and drops on request *)

\* With one owner, one that is not in the middle of a call holds no link.
LEMMA OnlyHolder ==
    ASSUME \A t, u \in Owner : t = u, NEW t \in Owner, NEW l \in Link,
           pc[t] \in {"idle", "connecting"}, HandedInv, l \in Up
    PROVE  l = client \/ l \in abandoned
  BY DEF HandedInv

LEMMA HandedStep ==
    ASSUME IInv, HeardInv, HandedInv, [Next]_vars, \A t, u \in Owner : t = u
    PROVE  HandedInv'
  <1> SUFFICES ASSUME NEW l \in Link, l \in Up'
               PROVE  \/ l = client' \/ l \in abandoned'
                      \/ \E t \in Owner : /\ mine'[t] = l
                                          /\ pc'[t] \in {"subscribing", "subscribed",
                                                         "unwinding", "closing"}
    BY DEF HandedInv, Up
  <1> USE NoneIsNoLink
  <1>0. /\ pc \in [Task -> {"idle", "connecting", "subscribing", "subscribed",
                            "unwinding", "closing", "writing"}]
        /\ mine \in [Task -> Link \cup {None}]
        /\ link \in [Link -> {"unused", "open", "notifying", "closed"}]
        /\ \A t \in Owner \cup Sender : t \in Task
    BY DEF IInv, TypeOK, Task
  <1>1. ASSUME NEW t \in Owner, ConnectNeedless(t) \/ NotEstablished(t) \/ ConnectBegins(t)
        PROVE  l = client' \/ l \in abandoned'
    BY <1>1, OnlyHolder DEF ConnectNeedless, NotEstablished, ConnectBegins, Up
  <1>2. ASSUME NEW t \in Owner, Established(t)
        PROVE  mine'[t] = l /\ pc'[t] = "subscribing"
    <2>1. PICK k \in Link : link' = [link EXCEPT ![k] = "open"] /\ Go(t, "subscribing", k)
      BY <1>2 DEF Established
    <2>2. l = k
      BY <1>0, <1>2, <2>1 DEF Established, Up
    <2> QED BY <1>0, <2>1, <2>2 DEF Go
  <1>3. ASSUME NEW t \in Owner, Subscribed(t) \/ NotSubscribed(t)
        PROVE  \/ l = client' \/ l \in abandoned'
               \/ mine'[t] = l /\ pc'[t] \in {"subscribed", "unwinding"}
    <2>1. l \in Up /\ UNCHANGED <<client, abandoned>>
      BY <1>0, <1>3 DEF Subscribed, NotSubscribed, Up
    <2>2. mine'[t] = mine[t] /\ pc'[t] \in {"subscribed", "unwinding"}
      BY <1>0, <1>3 DEF Subscribed, NotSubscribed, AfterFailure, Go
    <2>3. \A u \in Owner : u = t
      OBVIOUS
    <2> QED BY <2>1, <2>2, <2>3 DEF HandedInv
  <1>4. ASSUME NEW t \in Owner, ConnectReturns(t)
        PROVE  l = client' \/ l \in abandoned'
    <2>1. l \in Up /\ client' = mine[t] /\ abandoned' = abandoned
      BY <1>4 DEF ConnectReturns, Up
    <2>2. ~IsConnected
      BY <1>4 DEF ConnectReturns, HeardInv
    <2>3. l # client
      BY <2>1, <2>2 DEF IsConnected
    <2>4. \A u \in Owner : u = t
      OBVIOUS
    <2> QED BY <2>1, <2>3, <2>4 DEF HandedInv
  <1>5. ASSUME NEW t \in Owner, DisconnectBegins(t)
        PROVE  l \in abandoned' \/ (mine'[t] = l /\ pc'[t] = "closing")
    <2>1. l \in Up /\ pc[t] = "idle" /\ abandoned' = abandoned
      BY <1>5 DEF DisconnectBegins, Up
    <2>2. l = client \/ l \in abandoned
      BY <2>1, OnlyHolder
    <2>3. CASE l = client
      <3>1. Go(t, "closing", client)
        BY <1>5, <2>3 DEF DisconnectBegins
      <3> QED BY <1>0, <2>3, <3>1 DEF Go
    <2> QED BY <2>1, <2>2, <2>3
  <1>6. ASSUME NEW t \in Owner, Closed(t)
        PROVE  l = client' \/ l \in abandoned'
    <2>1. /\ l \in Up /\ l # mine[t]
          /\ UNCHANGED <<client, abandoned>>
      BY <1>0, <1>6 DEF Closed, GoesDown, Up
    <2>2. \A u \in Owner : u = t
      OBVIOUS
    <2> QED BY <2>1, <2>2 DEF HandedInv
  <1>7. ASSUME NEW t \in Owner, OwnerCancelled(t)
        PROVE  l = client' \/ l \in abandoned'
    <2>1. /\ l \in Up /\ client' = client
          /\ abandoned' = abandoned \cup ({mine[t]} \cap Link)
      BY <1>0, <1>7 DEF OwnerCancelled, GoesDown, Up
    <2>2. \A u \in Owner : u = t
      OBVIOUS
    <2> QED BY <2>1, <2>2 DEF HandedInv
  <1>8. ASSUME NEW t \in Sender, SendRefused(t) \/ SendBegins(t) \/ SendEnds(t)
        PROVE  \/ l = client' \/ l \in abandoned'
               \/ \E u \in Owner : /\ mine'[u] = l
                                   /\ pc'[u] \in {"subscribing", "subscribed",
                                                  "unwinding", "closing"}
    <2>1. l \in Up /\ UNCHANGED <<client, abandoned>>
      BY <1>8 DEF SendRefused, SendBegins, SendEnds, Up
    <2>2. \A u \in Owner : mine'[u] = mine[u] /\ pc'[u] = pc[u]
      BY <1>0, <1>8, LinkAssumption DEF SendRefused, SendBegins, SendEnds, Return, Go
    <2> QED BY <2>1, <2>2 DEF HandedInv
  <1>9. ASSUME (\E k \in Link : LinkLost(k)) \/ UNCHANGED vars
        PROVE  \/ l = client' \/ l \in abandoned'
               \/ \E u \in Owner : /\ mine'[u] = l
                                   /\ pc'[u] \in {"subscribing", "subscribed",
                                                  "unwinding", "closing"}
    <2>1. l \in Up /\ UNCHANGED <<client, abandoned, pc, mine>>
      BY <1>0, <1>9 DEF LinkLost, GoesDown, Up, vars
    <2> QED BY <2>1 DEF HandedInv
  <1> QED BY <1>1, <1>2, <1>3, <1>4, <1>5, <1>6, <1>7, <1>8, <1>9 DEF Next

LEMMA DismissedStep ==
    ASSUME IInv, DismissedInv, [Next]_vars, \A t, u \in Owner : t = u
    PROVE  DismissedInv'
  <1> DEFINE Held(l) == /\ l \in Up /\ ~listening
                        /\ \E t \in Owner : mine[t] = l /\ pc[t] = "closing"
             Silent(l) == l \notin reported /\ (link[l] = "closed" \/ Held(l))
  <1>0. /\ pc \in [Task -> {"idle", "connecting", "subscribing", "subscribed",
                            "unwinding", "closing", "writing"}]
        /\ mine \in [Task -> Link \cup {None}]
        /\ link \in [Link -> {"unused", "open", "notifying", "closed"}]
        /\ \A t \in Owner \cup Sender : t \in Task
    BY DEF IInv, TypeOK, Task
  <1> SUFFICES ASSUME NEW l \in Link, l \in dismissed', l \notin abandoned'
               PROVE  Silent(l)'
    <2>1. dismissed' \subseteq Link
      BY NextInv DEF IInv, TypeOK
    <2> QED BY <2>1 DEF DismissedInv
  <1> USE NoneIsNoLink
  <1>a. l \in dismissed /\ abandoned \subseteq abandoned' => Silent(l)
    BY DEF DismissedInv
  <1>1. ASSUME NEW t \in Owner,
               \/ ConnectNeedless(t) \/ NotEstablished(t) \/ ConnectBegins(t)
               \/ Established(t) \/ Subscribed(t) \/ NotSubscribed(t) \/ ConnectReturns(t)
        PROVE  Silent(l)'
    <2>1. /\ l \in dismissed /\ abandoned' = abandoned /\ reported' = reported
          /\ pc[t] # "closing"
      BY <1>1 DEF ConnectNeedless, NotEstablished, ConnectBegins, Established, Subscribed,
                  NotSubscribed, ConnectReturns
    <2>2. l \notin reported /\ link[l] = "closed"
      <3>1. \A u \in Owner : u = t
        OBVIOUS
      <3> QED BY <1>a, <2>1, <3>1
    <2>3. \/ link' = link
          \/ \E k \in Link : link[k] = "unused" /\ link' = [link EXCEPT ![k] = "open"]
          \/ link[mine[t]] = "open" /\ link' = [link EXCEPT ![mine[t]] = "notifying"]
      BY <1>1 DEF ConnectNeedless, NotEstablished, ConnectBegins, Established, Subscribed,
                  NotSubscribed, ConnectReturns
    <2>4. link'[l] = "closed"
      BY <1>0, <2>2, <2>3
    <2> QED BY <2>1, <2>2, <2>4
  <1>2. ASSUME NEW t \in Owner, DisconnectBegins(t)
        PROVE  Silent(l)'
    <2>1. /\ pc[t] = "idle" /\ ~listening'
          /\ UNCHANGED <<link, reported, abandoned>>
      BY <1>2 DEF DisconnectBegins, ListeningOff
    <2>2. CASE l \in dismissed
      <3>1. \A u \in Owner : u = t
        OBVIOUS
      <3> QED BY <1>a, <2>1, <2>2, <3>1
    <2>3. CASE l \notin dismissed
      <3>1. l = client /\ l \in Up /\ Go(t, "closing", client)
        BY <1>2, <2>3 DEF DisconnectBegins
      <3>2. l \notin reported
        BY <3>1 DEF Up, IInv, SlotInv
      <3>3. mine'[t] = l /\ pc'[t] = "closing"
        BY <1>0, <3>1 DEF Go
      <3>4. l \in Up'
        BY <2>1, <3>1 DEF Up
      <3> QED BY <2>1, <3>2, <3>3, <3>4
    <2> QED BY <2>2, <2>3
  <1>b. ASSUME Silent(l), NEW k \in Up, GoesDown(k), UNCHANGED <<listening, pc, mine>>
        PROVE  Silent(l)'
    <2>1. l \notin reported'
      <3>1. CASE link[l] = "closed"
        BY <1>b, <3>1 DEF GoesDown, EndOf, Up
      <3>2. CASE ~listening
        BY <1>b, <3>2 DEF GoesDown
      <3> QED BY <1>b, <3>1, <3>2
    <2>2. link'[l] = "closed" \/ link'[l] = link[l]
      BY <1>0, <1>b DEF GoesDown
    <2> QED BY <1>b, <2>1, <2>2 DEF Up
  <1>3. ASSUME NEW t \in Owner, Closed(t)
        PROVE  Silent(l)'
    <2>1. l \in dismissed /\ abandoned' = abandoned /\ listening' = listening
      BY <1>3 DEF Closed
    <2>2. Silent(l)
      BY <1>a, <2>1
    <2>3. \A u \in Owner : u = t
      OBVIOUS
    <2>4. CASE mine[t] \in Up
      <3>1. GoesDown(mine[t])
        BY <1>3, <2>4 DEF Closed
      <3>2. l \notin reported'
        BY <2>2, <2>4, <3>1 DEF GoesDown, EndOf, Up
      <3>3. link'[l] = "closed"
        BY <1>0, <2>2, <2>3, <3>1 DEF GoesDown
      <3> QED BY <3>2, <3>3
    <2>5. CASE mine[t] \notin Up
      <3>1. UNCHANGED <<link, reported>>
        BY <1>3, <2>5 DEF Closed
      <3>2. link[l] = "closed"
        BY <2>2, <2>3, <2>5
      <3> QED BY <2>2, <3>1, <3>2
    <2> QED BY <2>4, <2>5
  <1>4. ASSUME NEW t \in Owner, OwnerCancelled(t)
        PROVE  Silent(l)'
    <2>1. /\ l \in dismissed /\ l # mine[t]
          /\ abandoned \subseteq abandoned' /\ listening' = listening
      BY <1>4 DEF OwnerCancelled
    <2>2. Silent(l)
      BY <1>a, <2>1
    <2>3. link[l] = "closed"
      <3>1. \A u \in Owner : u = t
        OBVIOUS
      <3> QED BY <2>1, <2>2, <3>1
    <2>4. l \notin reported' /\ link'[l] = "closed"
      BY <1>0, <1>4, <2>1, <2>2, <2>3 DEF OwnerCancelled, GoesDown, EndOf
    <2> QED BY <2>4
  <1>5. ASSUME NEW t \in Sender, SendRefused(t) \/ SendBegins(t) \/ SendEnds(t)
        PROVE  Silent(l)'
    <2>1. /\ l \in dismissed
          /\ UNCHANGED <<listening, link, reported, abandoned>>
      BY <1>5 DEF SendRefused, SendBegins, SendEnds
    <2>2. \A u \in Owner : mine'[u] = mine[u] /\ pc'[u] = pc[u]
      BY <1>0, <1>5, LinkAssumption DEF SendRefused, SendBegins, SendEnds, Return, Go
    <2>3. Silent(l)
      BY <1>a, <2>1
    <2> QED BY <2>1, <2>2, <2>3 DEF Up
  <1>6. ASSUME NEW k \in Link, LinkLost(k)
        PROVE  Silent(l)'
    BY <1>6, <1>a, <1>b DEF LinkLost
  <1>7. CASE UNCHANGED vars
    <2>1. Silent(l)
      BY <1>7, <1>a DEF vars
    <2> QED BY <1>7, <2>1 DEF vars, Up
  <1> QED BY <1>1, <1>2, <1>3, <1>4, <1>5, <1>6, <1>7 DEF Next

LEMMA OwnerInvariance ==
    ASSUME \A t, u \in Owner : t = u
    PROVE  Spec => [](IInv /\ HeardInv /\ HandedInv /\ DismissedInv)
  <1>1. Init => IInv /\ HeardInv /\ HandedInv /\ DismissedInv
    BY InitInv DEF Init, HandedInv, DismissedInv, Up
  <1>2. IInv /\ HeardInv /\ HandedInv /\ DismissedInv /\ [Next]_vars
          => (IInv /\ HeardInv /\ HandedInv /\ DismissedInv)'
    BY NextInv, HeardStep, HandedStep, DismissedStep
  <1> QED BY <1>1, <1>2, PTL DEF Spec

\* However connecting fails, the charger's slot is given back, unless the one
\* owner is cancelled with the link in its hands.
THEOREM SlotGivenBack ==
    ASSUME \A t, u \in Owner : t = u
    PROVE  Spec => []SlotReturned
  <1>1. HandedInv => SlotReturned
    BY DEF HandedInv, SlotReturned, IsConnected
  <1> QED BY <1>1, OwnerInvariance, PTL

\* A drop that was asked for is not reported as a loss.
THEOREM RequestedDropIsSilent ==
    ASSUME \A t, u \in Owner : t = u
    PROVE  Spec => []RequestedIsSilent
  <1>1. DismissedInv => RequestedIsSilent
    BY DEF DismissedInv, RequestedIsSilent
  <1> QED BY <1>1, OwnerInvariance, PTL
=============================================================================
