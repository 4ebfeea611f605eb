------------------------------ MODULE Register ------------------------------
(***************************************************************************)
(* What a file that is replaced atomically promises: each call puts its    *)
(* data in place in one step, under the permissions the file had, or fails *)
(* and changes nothing.                                                    *)
(***************************************************************************)
CONSTANTS Proc, Data, New, Mode, Default, Absent

VARIABLES value, result

Values == [data : Data, mode : Mode]

Init ==
    /\ value \in Values \cup {Absent}
    /\ result = [p \in Proc |-> "none"]

ModeOf(v) == IF v = Absent THEN Default ELSE v.mode

Succeed(p) ==
    /\ result[p] = "none"
    /\ value' = [data |-> New[p], mode |-> ModeOf(value)]
    /\ result' = [result EXCEPT ![p] = "ok"]

Fail(p) ==
    /\ result[p] = "none"
    /\ result' = [result EXCEPT ![p] = "failed"]
    /\ UNCHANGED value

(* Somebody else saves the file that is there.                             *)
Save ==
    /\ value # Absent
    /\ \E d \in Data : value' = [data |-> d, mode |-> value.mode]
    /\ UNCHANGED result

Next == Save \/ \E p \in Proc : Succeed(p) \/ Fail(p)
Spec == Init /\ [][Next]_<<value, result>>
=============================================================================
