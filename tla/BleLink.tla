------------------------------ MODULE BleLink ------------------------------
(***************************************************************************)
(* BleTransport (transports/ble.py): the tasks that connect, disconnect    *)
(* and write, and the bleak client under them.  An action is the code      *)
(* between two awaits of one task, or an event of a Bluetooth link.        *)
(*                                                                         *)
(* bleak and bleak_retry_connector are external.  Assumed of them: the     *)
(* charger has room for one link at a time; disconnect() always ends with  *)
(* the link gone, whether it raises or not; a link that goes down, asked   *)
(* for or not, has its disconnected_callback called in the same instant    *)
(* (before disconnect() returns); a cancelled establish_connection leaves  *)
(* no link.                                                                *)
(***************************************************************************)
EXTENDS Naturals, FiniteSets

CONSTANTS Owner,        \* tasks that call async_connect and async_disconnect
          Sender,       \* tasks that call async_send
          Cancellable,  \* TRUE: an owner may be cancelled inside a call
          MaxLinks,     \* bound: links opened in one behaviour
          None

ASSUME LinkAssumption ==
    /\ MaxLinks \in Nat /\ Cancellable \in BOOLEAN
    /\ None \notin Nat
    /\ Owner \cap Sender = {}

VARIABLES
    client,     \* _client: the link it stands for
    listening,  \* _on_frame and _on_disconnect are set (always both)
    link,       \* every link there was: bleak's view of it
    pc,         \* where each task stands
    mine,       \* its local variable `client`
    outcome,    \* how its last call ended
    dismissed,  \* links that were up when async_disconnect was asked to drop them
    reported,   \* links whose end was reported through on_disconnect
    abandoned   \* links held by an owner when it was cancelled

vars == <<client, listening, link, pc, mine, outcome, dismissed, reported, abandoned>>

Link == 1..MaxLinks
Task == Owner \cup Sender

TypeOK ==
    /\ client \in Link \cup {None}
    /\ listening \in BOOLEAN
    /\ link \in [Link -> {"unused", "open", "notifying", "closed"}]
    /\ pc \in [Task -> {"idle", "connecting", "subscribing", "subscribed",
                        "unwinding", "closing", "writing"}]
    /\ mine \in [Task -> Link \cup {None}]
    /\ outcome \in [Task -> {"none", "ok", "error", "cancelled"}]
    /\ dismissed \subseteq Link /\ reported \subseteq Link /\ abandoned \subseteq Link

Init ==
    /\ client = None
    /\ listening = FALSE
    /\ link = [l \in Link |-> "unused"]
    /\ pc = [t \in Task |-> "idle"]
    /\ mine = [t \in Task |-> None]
    /\ outcome = [t \in Task |-> "none"]
    /\ dismissed = {} /\ reported = {} /\ abandoned = {}

-----------------------------------------------------------------------------

Up == {l \in Link : link[l] \in {"open", "notifying"}}
IsConnected == client \in Up

Go(t, where, with) ==
    /\ pc' = [pc EXCEPT ![t] = where]
    /\ mine' = [mine EXCEPT ![t] = with]

Return(t, o) == Go(t, "idle", None) /\ outcome' = [outcome EXCEPT ![t] = o]

\* Whose end a call of on_disconnect stands for: the link that went down.  The
\* variant takes the current client for it.
EndOfClient(l) == {client}
EndOf(l) == {l}

\* Link l goes down, and _handle_disconnect calls whoever is listening.
GoesDown(l) ==
    /\ link' = [link EXCEPT ![l] = "closed"]
    /\ reported' = IF listening THEN reported \cup EndOf(l) ELSE reported

\* async_connect, on a link that is up.
ConnectNeedless(t) ==
    /\ pc[t] = "idle" /\ IsConnected
    /\ Return(t, "ok")
    /\ UNCHANGED <<client, listening, link, dismissed, reported, abandoned>>

\* async_connect to its first await: the callbacks are stored.
ConnectBegins(t) ==
    /\ pc[t] = "idle" /\ ~IsConnected
    /\ listening' = TRUE
    /\ Go(t, "connecting", None)
    /\ UNCHANGED <<client, link, outcome, dismissed, reported, abandoned>>

\* _client when establish_connection has returned; the variant stores the link
\* before it is subscribed to.
ClientAtOnce(l) == l
ClientSoFar(l) == client

\* establish_connection returns a link that is up; start_notify is called.
Established(t) ==
    /\ pc[t] = "connecting" /\ Up = {}
    /\ \E l \in Link :
         /\ link[l] = "unused" /\ \A k \in 1..(l - 1) : link[k] # "unused"
         /\ link' = [link EXCEPT ![l] = "open"]
         /\ Go(t, "subscribing", l)
         /\ client' = ClientSoFar(l)
    /\ UNCHANGED <<listening, outcome, dismissed, reported, abandoned>>

NotEstablished(t) ==
    /\ pc[t] = "connecting"
    /\ Return(t, "error")
    /\ UNCHANGED <<client, listening, link, dismissed, reported, abandoned>>

\* start_notify has done its work; the task is yet to resume.
Subscribed(t) ==
    /\ pc[t] = "subscribing" /\ link[mine[t]] = "open"
    /\ link' = [link EXCEPT ![mine[t]] = "notifying"]
    /\ Go(t, "subscribed", mine[t])
    /\ UNCHANGED <<client, listening, outcome, dismissed, reported, abandoned>>

\* start_notify fails: _async_close gives the link back.  The variant only
\* reports the failure.
AfterFailureLeft(t) == Return(t, "error")
AfterFailure(t) == Go(t, "unwinding", mine[t]) /\ UNCHANGED outcome

NotSubscribed(t) ==
    /\ pc[t] = "subscribing"
    /\ AfterFailure(t)
    /\ UNCHANGED <<client, listening, link, dismissed, reported, abandoned>>

\* async_connect returns.
ConnectReturns(t) ==
    /\ pc[t] = "subscribed"
    /\ client' = mine[t]
    /\ Return(t, "ok")
    /\ UNCHANGED <<listening, link, dismissed, reported, abandoned>>

\* Whether a link being closed on request is still listened to: the callbacks
\* go first.  The variant clears them when the link is down.
ListeningOn == listening
ListeningOff == FALSE

\* _client as async_disconnect leaves it; the variant keeps it.
ClientKept == client
ClientTaken == None

\* async_disconnect to its first await, or to its end if there is no client.
DisconnectBegins(t) ==
    /\ pc[t] = "idle"
    /\ listening' = ListeningOff
    /\ client' = ClientTaken
    /\ IF client = None
       THEN Return(t, "ok") /\ UNCHANGED dismissed
       ELSE /\ Go(t, "closing", client)
            /\ dismissed' = dismissed \cup ({client} \cap Up)
            /\ UNCHANGED outcome
    /\ UNCHANGED <<link, reported, abandoned>>

\* _async_close returns: disconnect() has ended, with the link gone.
Closed(t) ==
    /\ pc[t] \in {"closing", "unwinding"}
    /\ IF mine[t] \in Up THEN GoesDown(mine[t]) ELSE UNCHANGED <<link, reported>>
    /\ Return(t, IF pc[t] = "closing" THEN "ok" ELSE "error")
    /\ UNCHANGED <<client, listening, dismissed, abandoned>>

\* CancelledError is no Exception: it passes every except clause here, and a
\* disconnect() it interrupts may be done or not.
OwnerCancelled(t) ==
    /\ Cancellable
    /\ pc[t] # "idle"
    /\ \/ UNCHANGED <<link, reported>>
       \/ pc[t] \in {"closing", "unwinding"} /\ mine[t] \in Up /\ GoesDown(mine[t])
    /\ Return(t, "cancelled")
    /\ abandoned' = abandoned \cup ({mine[t]} \cap Link)
    /\ UNCHANGED <<client, listening, dismissed>>

-----------------------------------------------------------------------------

SendRefused(t) ==
    /\ pc[t] = "idle" /\ ~IsConnected
    /\ Return(t, "error")
    /\ UNCHANGED <<client, listening, link, dismissed, reported, abandoned>>

\* async_send takes the client it finds and keeps to it.
SendBegins(t) ==
    /\ pc[t] = "idle" /\ IsConnected
    /\ Go(t, "writing", client)
    /\ UNCHANGED <<client, listening, link, outcome, dismissed, reported, abandoned>>

\* The write is acknowledged, which takes the link it was begun on, or fails,
\* or its task is cancelled.
SendEnds(t) ==
    /\ pc[t] = "writing"
    /\ \/ mine[t] \in Up /\ Return(t, "ok")
       \/ Return(t, "error")
       \/ Return(t, "cancelled")
    /\ UNCHANGED <<client, listening, link, dismissed, reported, abandoned>>

\* A link is lost.
LinkLost(l) ==
    /\ l \in Up
    /\ GoesDown(l)
    /\ UNCHANGED <<client, listening, pc, mine, outcome, dismissed, abandoned>>

Next ==
    \/ \E t \in Owner :
        \/ ConnectNeedless(t) \/ ConnectBegins(t) \/ Established(t)
        \/ NotEstablished(t) \/ Subscribed(t) \/ NotSubscribed(t)
        \/ ConnectReturns(t) \/ DisconnectBegins(t) \/ Closed(t)
        \/ OwnerCancelled(t)
    \/ \E t \in Sender : SendRefused(t) \/ SendBegins(t) \/ SendEnds(t)
    \/ \E l \in Link : LinkLost(l)

Spec == Init /\ [][Next]_vars

-----------------------------------------------------------------------------
(* Properties *)

\* Whoever connects, disconnects or is cancelled, no link is used before its
\* notifications are on: a reply to the first frame could be missed.
SubscribedFirst == IsConnected => link[client] = "notifying"

\* While is_connected says so, what the charger sends is heard: the client's
\* callbacks are installed.
HeardWhenUp == IsConnected => listening

\* What async_disconnect drops is not reported as lost, unless the task that
\* was dropping it was cancelled.
RequestedIsSilent == dismissed \cap reported \subseteq abandoned

\* The charger's one slot is given back however connecting fails and links
\* are lost: with no owner at work and the transport not connected, only a
\* link whose owner was cancelled can be left open behind it.
SlotReturned ==
    (\A t \in Owner : pc[t] = "idle") /\ ~IsConnected => Up \subseteq abandoned

\* What the comment in async_connect says: the charger has only the one slot,
\* so it goes back before the failure is reported.  Cancelled is one way to fail.
FailureGivesSlotBack ==
    (\A t \in Owner : pc[t] = "idle") /\ ~IsConnected => Up = {}

\* The contract of transports/base.py: no link goes down unreported unless the
\* client asked, and nothing is reported to a client that did not connect.
\* There is one client, whose callbacks every owner installs.
Listener == IF listening THEN "client" ELSE "nobody"
Contract == INSTANCE Transport WITH Nobody <- "nobody", wanted <- Listener,
                                    up <- IsConnected, reports <- Cardinality(reported)
KeepsContract == Contract!Spec

-----------------------------------------------------------------------------
(* The inductive invariant *)

\* What a task holds at each await: a link of its own, subscribed to before
\* it is ever stored; a link once subscribed to does not go back.
HandInv ==
    /\ \A t \in Task : pc[t] \in {"subscribing", "subscribed", "unwinding", "closing", "writing"}
                         => mine[t] \in Link
    /\ \A t \in Task : pc[t] = "subscribed" => link[mine[t]] \in {"notifying", "closed"}
    /\ client # None => link[client] \in {"notifying", "closed"}

\* The charger's slot, and what was reported is gone.
SlotInv ==
    /\ \A k, l \in Up : k = l
    /\ reported \subseteq {l \in Link : link[l] = "closed"}

IInv == TypeOK /\ HandInv /\ SlotInv

\* With one owner nobody takes the callbacks away from a connect in progress,
\* or connects meanwhile.
HeardInv ==
    /\ client # None => listening
    /\ \A t \in Owner :
         pc[t] \in {"connecting", "subscribing", "subscribed", "unwinding"}
           => listening /\ ~IsConnected

\* And a link that is up is the client's, in the hands of an owner that will
\* store or close it, or was in such hands when its owner was cancelled.
HandedInv ==
    \A l \in Up : \/ l = client
                 \/ l \in abandoned
                 \/ \E t \in Owner : /\ mine[t] = l
                                     /\ pc[t] \in {"subscribing", "subscribed",
                                                   "unwinding", "closing"}

\* A link being dropped on request goes down unheard.
DismissedInv ==
    \A l \in dismissed :
        \/ l \in abandoned
        \/ /\ l \notin reported
           /\ \/ link[l] = "closed"
              \/ /\ l \in Up /\ ~listening
                 /\ \E t \in Owner : mine[t] = l /\ pc[t] = "closing"
=============================================================================
