--------------------------- MODULE Configuration ---------------------------
(***************************************************************************)
(* What the setters promise of the charger's configuration, without the    *)
(* frames and tasks they do it with: one list of fields is written at a    *)
(* time, field by field, each ends with the value it was asked to have,    *)
(* and only a commit, never inside a list, puts what is held into effect.  *)
(* ChargerMethods and Settings implement it.                               *)
(***************************************************************************)
CONSTANTS Item,        \* the fields
          Image(_, _)  \* what a field holds once a value is written to it

VARIABLES todo,    \* per field the list under way has not settled: its value
          held,    \* per field: what the charger holds
          effect   \* per field: what is in effect

vars == <<todo, held, effect>>

Init == DOMAIN todo = {} /\ effect = held

\* A list of writes begins.
Open ==
    /\ DOMAIN todo = {}
    /\ DOMAIN todo' \subseteq Item /\ DOMAIN todo' # {}
    /\ UNCHANGED <<held, effect>>

\* A frame reaches field i and no other.
Reaches(i) == i \in DOMAIN todo /\ \A j \in Item \ {i} : held'[j] = held[j]

\* It is not the last frame for the field.
Touch(i) == Reaches(i) /\ UNCHANGED <<todo, effect>>

\* It is, and the field holds its value whole.
Settle(i) ==
    /\ Reaches(i)
    /\ held'[i] = Image(i, todo[i])
    /\ todo' = [j \in DOMAIN todo \ {i} |-> todo[j]]
    /\ UNCHANGED effect

\* The list breaks off, its last frame delivered or not.
GiveUp ==
    /\ DOMAIN todo' = {}
    /\ held' = held \/ \E i \in Item : Reaches(i)
    /\ UNCHANGED effect

Commit ==
    /\ DOMAIN todo = {}
    /\ effect' = held
    /\ UNCHANGED <<todo, held>>

Next ==
    \/ Open \/ GiveUp \/ Commit
    \/ \E i \in Item : Touch(i) \/ Settle(i)

Spec == Init /\ [][Next]_vars
=============================================================================
