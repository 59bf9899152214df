---------------------------- MODULE CallService ----------------------------
(***************************************************************************)
(* What SpinEvCharger promises the tasks that share it, whatever the       *)
(* transport does: one call at a time talks to the charger, calls are      *)
(* served in the order they asked, and each ends exactly once.  The        *)
(* request engine of ChargerClient implements it.                          *)
(***************************************************************************)
EXTENDS Naturals, Sequences

CONSTANT Caller

VARIABLES phase,    \* idle, waiting for its turn, or active
          line,     \* those waiting, in the order they asked
          outcome   \* how the last call of each ended

vars == <<phase, line, outcome>>

Init ==
    /\ phase = [c \in Caller |-> "idle"]
    /\ line = <<>>
    /\ outcome = [c \in Caller |-> "none"]

Quiet == \A c \in Caller : phase[c] # "active"

\* Refused at once: the client is not connected.
Refuse(c) ==
    /\ phase[c] = "idle"
    /\ outcome' = [outcome EXCEPT ![c] = "error"]
    /\ UNCHANGED <<phase, line>>

Begin(c) ==
    /\ phase[c] = "idle"
    /\ Quiet /\ line = <<>>
    /\ phase' = [phase EXCEPT ![c] = "active"]
    /\ UNCHANGED <<line, outcome>>

Join(c) ==
    /\ phase[c] = "idle"
    /\ ~Quiet \/ line # <<>>
    /\ phase' = [phase EXCEPT ![c] = "waiting"]
    /\ line' = Append(line, c)
    /\ UNCHANGED outcome

First == Head(line)

\* The line without c.
Others(c) == LET i == CHOOSE n \in 1..Len(line) : line[n] = c
             IN  SubSeq(line, 1, i - 1) \o SubSeq(line, i + 1, Len(line))

Serve(c) ==
    /\ Quiet
    /\ line # <<>> /\ c = First
    /\ phase' = [phase EXCEPT ![c] = "active"]
    /\ line' = Others(c)
    /\ UNCHANGED outcome

GiveUp(c) ==
    /\ phase[c] = "waiting"
    /\ phase' = [phase EXCEPT ![c] = "idle"]
    /\ line' = Others(c)
    /\ outcome' = [outcome EXCEPT ![c] = "cancelled"]

Return(c) ==
    /\ phase[c] = "active"
    /\ phase' = [phase EXCEPT ![c] = "idle"]
    /\ \E o \in {"ok", "timeout", "error", "cancelled"} :
         outcome' = [outcome EXCEPT ![c] = o]
    /\ UNCHANGED line

Next == \E c \in Caller : Refuse(c) \/ Begin(c) \/ Join(c) \/ Serve(c)
                          \/ GiveUp(c) \/ Return(c)

Spec == Init /\ [][Next]_vars
=============================================================================
