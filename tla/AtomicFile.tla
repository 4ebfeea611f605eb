----------------------------- MODULE AtomicFile -----------------------------
(***************************************************************************)
(* atomicWrite (init.go:452) and writeFileAtomic (exe.go:13), called by    *)
(* several processes for one path: the mode of the file that is there, a   *)
(* temporary file beside it, and the rename.  Every system call may fail,  *)
(* and a process may die between any two.                                  *)
(***************************************************************************)
CONSTANTS
    Proc,       \* the calls, each of a process of its own
    Data,       \* contents
    New,        \* what each call writes
    Mode,       \* permissions
    Default,    \* 0644
    Private,    \* 0600, of a temporary file
    Part,       \* content of a file that is not written to its end
    Absent      \* no file

ASSUME FileAssumption ==
    /\ New \in [Proc -> Data]
    /\ Default \in Mode /\ Private \in Mode
    /\ Part \notin Data
    /\ Absent \notin [data : Data \cup {Part}, mode : Mode]

VARIABLES
    file,       \* what is at the path
    temp,       \* the temporary file of each call
    mode,       \* the mode a call has seen
    pc,         \* its next step
    result      \* "none", "ok" or "failed"

vars == <<file, temp, mode, pc, result>>

Whole == [data : Data, mode : Mode]
Written == [data : Data \cup {Part}, mode : Mode]

Init ==
    /\ file \in Whole \cup {Absent}
    /\ temp = [p \in Proc |-> Absent]
    /\ mode = [p \in Proc |-> Default]
    /\ pc = [p \in Proc |-> "stat"]
    /\ result = [p \in Proc |-> "none"]

Go(p, from, to) == pc[p] = from /\ pc' = [pc EXCEPT ![p] = to]
Tell(p, r) == result' = [result EXCEPT ![p] = r]
(* An error behind CreateTemp: what was deferred is still to be done.      *)
Abandon(p, from) == Go(p, from, "remove") /\ Tell(p, "failed") /\ UNCHANGED <<file, temp, mode>>

(* A mutant: the permissions of the file are not looked at. *)
StatDefault(p) ==
    /\ Go(p, "stat", "create")
    /\ UNCHANGED <<file, temp, mode, result>>

(* atomicWrite.                                                            *)
Stat(p) ==
    /\ Go(p, "stat", "create")
    /\ mode' = [mode EXCEPT ![p] = IF file = Absent THEN Default ELSE file.mode]
    /\ UNCHANGED <<file, temp, result>>

CreateTemp(p) ==
    \/ /\ Go(p, "create", "write")
       /\ temp' = [temp EXCEPT ![p] = [data |-> Part, mode |-> Private]]
       /\ UNCHANGED <<file, mode, result>>
    \/ /\ Go(p, "create", "done") /\ Tell(p, "failed")
       /\ UNCHANGED <<file, temp, mode>>

Write(p) ==
    \/ /\ Go(p, "write", "close")
       /\ temp' = [temp EXCEPT ![p] = [data |-> New[p], mode |-> temp[p].mode]]
       /\ UNCHANGED <<file, mode, result>>
    \/ Abandon(p, "write")

Close(p) ==
    \/ Go(p, "close", "chmod") /\ UNCHANGED <<file, temp, mode, result>>
    \/ Abandon(p, "close")

Chmod(p) ==
    \/ /\ Go(p, "chmod", "rename")
       /\ temp' = [temp EXCEPT ![p] = [data |-> temp[p].data, mode |-> mode[p]]]
       /\ UNCHANGED <<file, mode, result>>
    \/ Abandon(p, "chmod")

Rename(p) ==
    \/ /\ Go(p, "rename", "remove") /\ Tell(p, "ok")
       /\ file' = temp[p]
       /\ temp' = [temp EXCEPT ![p] = Absent]
       /\ UNCHANGED mode
    \/ Abandon(p, "rename")

(* The deferred os.Remove, which finds nothing after a rename.             *)
Remove(p) ==
    /\ Go(p, "remove", "done")
    /\ temp' = [temp EXCEPT ![p] = Absent]
    /\ UNCHANGED <<file, mode, result>>

(* The process dies; nobody hears of the outcome that is not reached yet.  *)
Die(p) ==
    /\ pc[p] \notin {"done", "dead"}
    /\ pc' = [pc EXCEPT ![p] = "dead"]
    /\ IF result[p] = "none" THEN Tell(p, "failed") ELSE UNCHANGED result
    /\ UNCHANGED <<file, temp, mode>>

(* The user's editor saves the file that is there.                         *)
UserSave ==
    /\ file # Absent
    /\ \E d \in Data : file' = [data |-> d, mode |-> file.mode]
    /\ UNCHANGED <<temp, mode, pc, result>>

Step(p) ==
    \/ Stat(p) \/ CreateTemp(p) \/ Write(p) \/ Close(p) \/ Chmod(p) \/ Rename(p)
    \/ Remove(p) \/ Die(p)
Next == UserSave \/ \E p \in Proc : Step(p)
Spec == Init /\ [][Next]_vars
-----------------------------------------------------------------------------
PC == {"stat", "create", "write", "close", "chmod", "rename", "remove", "done", "dead"}

(* Every variable holds a value of its kind; what is at the path is whole. *)
TypeOK ==
    /\ file \in Whole \cup {Absent}
    /\ temp \in [Proc -> Written \cup {Absent}]
    /\ mode \in [Proc -> Mode]
    /\ pc \in [Proc -> PC]
    /\ result \in [Proc -> {"none", "ok", "failed"}]

(* A call that returns leaves no temporary file, whatever step of it has   *)
(* failed; only one that dies does (exe.go:20, init_test.go:527).          *)
NoTempLeft == \A p \in Proc : pc[p] = "done" => temp[p] = Absent

(* What the steps rely on: how far the temporary file is, that the outcome *)
(* is open until the rename, and that the mode seen is still the file's.   *)
StepInv ==
    \A p \in Proc :
        /\ pc[p] \in {"stat", "create"} => temp[p] = Absent
        /\ pc[p] \in {"write", "close", "chmod", "rename"} => temp[p] \in Written
        /\ pc[p] \in {"close", "chmod", "rename"} => temp[p].data = New[p]
        /\ pc[p] = "rename" => temp[p].mode = mode[p]
        /\ pc[p] \in {"stat", "create", "write", "close", "chmod", "rename"} => result[p] = "none"
        /\ pc[p] \in {"create", "write", "close", "chmod", "rename"} =>
              mode[p] = IF file = Absent THEN Default ELSE file.mode

IInv == TypeOK /\ NoTempLeft /\ StepInv

(* The file is an atomic register: each call replaces its content in one   *)
(* step, whole and under the permissions it had, or changes nothing        *)
(* (exe.go:8, init.go:448).                                                *)
R == INSTANCE Register WITH value <- file
IsRegister == R!Spec
=============================================================================
