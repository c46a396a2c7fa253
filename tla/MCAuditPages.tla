---------------------------- MODULE MCAuditPages ----------------------------
(* Small instances of AuditPages: three events that are there and two that   *)
(* are written while a reader pages through them.                             *)
EXTENDS AuditPages

MCEvent   == 1..5
MCIdAfter == {p \in MCEvent \X MCEvent : p[1] > p[2]}
MCOld     == {1, 2, 4}
MCLimit   == {-1, 0, 1, 2, 3, NotGiven, NotANumber}
=============================================================================
