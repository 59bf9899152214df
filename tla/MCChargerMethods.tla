-------------------------- MODULE MCChargerMethods --------------------------
(* Small values of the constants of ChargerMethods for TLC. *)
EXTENDS ChargerMethods, TLC

CONSTANTS t1, t2, ssid, key, zone

\* A network of two fields, and a field of its own.
MCGroup == {<<ssid, key>>, <<zone>>, <<Commit>>}

Limit(inRange, allow, commit) ==
    [op |-> "limit", inRange |-> inRange, allow |-> allow, commit |-> commit]
Set(g, commit) == [op |-> "set", frames |-> g, commit |-> commit]
Plain(op) == [op |-> op]

LimitCalls == {Limit(TRUE, FALSE, FALSE), Limit(TRUE, TRUE, TRUE), Limit(FALSE, FALSE, FALSE)}
ControlCalls == {Plain("start"), Plain("stop")}
AlarmCalls == {Plain("alarms"), Plain("status")}
SetterCalls == {Set(<<ssid, key>>, TRUE), Set(<<ssid, key>>, FALSE), Set(<<zone>>, TRUE),
                Set(<<Commit>>, FALSE)}
NoGroup == {<<Commit>>}
LimitAndControl == LimitCalls \cup ControlCalls
SettersAndAlarms == SetterCalls \cup AlarmCalls
MCSymmetry == Permutations(Task)
=============================================================================
