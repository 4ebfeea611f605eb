-------------------------- MODULE AtomicFileProofs --------------------------
(***************************************************************************)
(* AtomicFile implements Register for any number of calls: the invariant   *)
(* of the steps, and the refinement that follows from it.                  *)
(***************************************************************************)
EXTENDS SetUpFiles, WellFoundedInduction, TLAPS

USE FileAssumption

(* The invariant holds before any call has made a step.                    *)
LEMMA InitInv == Init => IInv
<1> SUFFICES ASSUME Init PROVE IInv
    OBVIOUS
<1>1. TypeOK
    BY DEF Init, TypeOK, PC
<1>2. NoTempLeft /\ StepInv
    BY DEF Init, NoTempLeft, StepInv
<1> QED
    BY <1>1, <1>2 DEF IInv

(* Every step keeps it.  What is not local to the call is the mode it has   *)
(* seen: a rename by another call puts a file in place, under that mode.   *)
LEMMA StepInvariant == IInv /\ [Next]_vars => IInv'
<1> SUFFICES ASSUME IInv, [Next]_vars PROVE IInv'
    OBVIOUS
<1> USE DEF IInv
<1>1. ASSUME NEW p \in Proc, Stat(p) PROVE IInv'
  <2>1. TypeOK'
    BY <1>1 DEF TypeOK, Stat, Go, PC, Whole
  <2>2. NoTempLeft' /\ StepInv'
    BY <1>1 DEF TypeOK, NoTempLeft, StepInv, Stat, Go
  <2> QED
    BY <2>1, <2>2
<1>2. ASSUME NEW p \in Proc, CreateTemp(p) PROVE IInv'
  <2>1. TypeOK'
    BY <1>2 DEF TypeOK, CreateTemp, Go, Tell, PC, Written
  <2>2. NoTempLeft' /\ StepInv'
    BY <1>2 DEF TypeOK, NoTempLeft, StepInv, CreateTemp, Go, Tell, Written
  <2> QED
    BY <2>1, <2>2
<1>3. ASSUME NEW p \in Proc, Write(p) PROVE IInv'
  <2>1. TypeOK'
    BY <1>3 DEF TypeOK, StepInv, Write, Abandon, Go, Tell, PC, Written
  <2>2. NoTempLeft' /\ StepInv'
    BY <1>3 DEF TypeOK, NoTempLeft, StepInv, Write, Abandon, Go, Tell, Written
  <2> QED
    BY <2>1, <2>2
<1>4. ASSUME NEW p \in Proc, Close(p) PROVE IInv'
  <2>1. TypeOK'
    BY <1>4 DEF TypeOK, Close, Abandon, Go, Tell, PC
  <2>2. NoTempLeft' /\ StepInv'
    BY <1>4 DEF TypeOK, NoTempLeft, StepInv, Close, Abandon, Go, Tell
  <2> QED
    BY <2>1, <2>2
<1>5. ASSUME NEW p \in Proc, Chmod(p) PROVE IInv'
  <2>1. TypeOK'
    BY <1>5 DEF TypeOK, StepInv, Chmod, Abandon, Go, Tell, PC, Written
  <2>2. NoTempLeft' /\ StepInv'
    BY <1>5 DEF TypeOK, NoTempLeft, StepInv, Chmod, Abandon, Go, Tell, Written
  <2> QED
    BY <2>1, <2>2
<1>6. ASSUME NEW p \in Proc, Rename(p) PROVE IInv'
  <2>1. TypeOK'
    BY <1>6 DEF TypeOK, StepInv, Rename, Abandon, Go, Tell, PC, Written, Whole
  <2>2. NoTempLeft' /\ StepInv'
    BY <1>6 DEF TypeOK, NoTempLeft, StepInv, Rename, Abandon, Go, Tell, Written, Whole
  <2> QED
    BY <2>1, <2>2
<1>7. ASSUME NEW p \in Proc, Remove(p) PROVE IInv'
  <2>1. TypeOK'
    BY <1>7 DEF TypeOK, Remove, Go, PC
  <2>2. NoTempLeft' /\ StepInv'
    BY <1>7 DEF TypeOK, NoTempLeft, StepInv, Remove, Go
  <2> QED
    BY <2>1, <2>2
<1>8. ASSUME NEW p \in Proc, Die(p) PROVE IInv'
  <2>1. TypeOK'
    BY <1>8 DEF TypeOK, Die, Tell, PC
  <2>2. NoTempLeft' /\ StepInv'
    BY <1>8 DEF TypeOK, NoTempLeft, StepInv, Die, Tell
  <2> QED
    BY <2>1, <2>2
<1>9. ASSUME UserSave PROVE IInv'
  <2>1. TypeOK'
    BY <1>9 DEF TypeOK, UserSave, Whole
  <2>2. NoTempLeft' /\ StepInv'
    BY <1>9 DEF TypeOK, NoTempLeft, StepInv, UserSave, Whole
  <2> QED
    BY <2>1, <2>2
<1>10. ASSUME UNCHANGED vars PROVE IInv'
    BY <1>10 DEF vars, TypeOK, NoTempLeft, StepInv
<1> QED
    BY <1>1, <1>2, <1>3, <1>4, <1>5, <1>6, <1>7, <1>8, <1>9, <1>10 DEF Next, Step

(* The invariant of all three parts.                                       *)
LEMMA Invariant == Spec => []IInv
BY InitInv, StepInvariant, PTL DEF Spec

(* What is at the path is whole at every moment, for any number of calls,  *)
(* failures and deaths (exe.go:8).                                         *)
THEOREM FileAlwaysWhole == Spec => []TypeOK
BY Invariant, PTL DEF IInv

(* A call that has returned has left no temporary file (exe.go:20).        *)
THEOREM NoTempEverLeft == Spec => []NoTempLeft
BY Invariant, PTL DEF IInv

(* The mode that a call has seen is the file's until it renames, whatever  *)
(* the others do meanwhile (init.go:448).                                  *)
THEOREM StepsRelyOnTruth == Spec => []StepInv
BY Invariant, PTL DEF IInv

-----------------------------------------------------------------------------
(* The file that is there, or its absence, is a value of the register.    *)
LEMMA InitRefines == Init => R!Init
BY DEF Init, R!Init, R!Values, Whole

(* A step that ends a call without a rename is a failure of the register.  *)
LEMMA Failing ==
    ASSUME TypeOK, NEW p \in Proc, result[p] = "none", Tell(p, "failed"), UNCHANGED file
    PROVE  R!Fail(p)
BY DEF R!Fail, Tell, TypeOK

(* The rename is the register's step, what ends a call before it a failure, *)
(* and everything else happens beside the file.                            *)
LEMMA StepRefines == IInv /\ [Next]_vars => [R!Next]_<<file, result>>
<1> SUFFICES ASSUME IInv, [Next]_vars PROVE [R!Next]_<<file, result>>
    OBVIOUS
<1>0. TypeOK /\ StepInv
    BY DEF IInv
<1>1. ASSUME NEW p \in Proc, Abandon(p, "write") \/ Abandon(p, "close") \/ Abandon(p, "chmod")
                             \/ Abandon(p, "rename")
      PROVE  R!Fail(p)
    BY <1>0, <1>1, Failing DEF Abandon, Go, StepInv
<1>2. ASSUME NEW p \in Proc, Rename(p), ~Abandon(p, "rename") PROVE R!Succeed(p)
  <2>1. pc[p] = "rename" /\ file' = temp[p] /\ Tell(p, "ok") /\ result[p] = "none"
    BY <1>0, <1>2 DEF Rename, Go, StepInv
  <2>2. temp[p] = [data |-> New[p], mode |-> mode[p]]
    BY <1>0, <2>1 DEF StepInv, Written
  <2>3. mode[p] = R!ModeOf(file)
    BY <1>0, <2>1 DEF StepInv, R!ModeOf
  <2> QED
    BY <2>1, <2>2, <2>3 DEF R!Succeed, Tell
<1>3. ASSUME NEW p \in Proc, Die(p) PROVE R!Fail(p) \/ UNCHANGED <<file, result>>
    BY <1>0, <1>3, Failing DEF Die
<1>4. ASSUME NEW p \in Proc, CreateTemp(p) PROVE R!Fail(p) \/ UNCHANGED <<file, result>>
    BY <1>0, <1>4, Failing DEF CreateTemp, Go, StepInv
<1>5. ASSUME NEW p \in Proc, Step(p)
      PROVE  R!Succeed(p) \/ R!Fail(p) \/ UNCHANGED <<file, result>>
    BY <1>1, <1>2, <1>3, <1>4, <1>5 DEF Step, Stat, Write, Close, Chmod, Rename, Remove
<1>6. ASSUME UserSave PROVE R!Save
    BY <1>6 DEF UserSave, R!Save
<1>7. ASSUME UNCHANGED vars PROVE UNCHANGED <<file, result>>
    BY <1>7 DEF vars
<1> QED
    BY <1>5, <1>6, <1>7 DEF Next, R!Next

(* Concurrent calls, each with its temporary file, a failure at any step   *)
(* and the death of a process are an atomic register.                      *)
THEOREM FileIsRegister == Spec => IsRegister
BY Invariant, InitRefines, StepRefines, PTL DEF Spec, IsRegister, R!Spec
-----------------------------------------------------------------------------
(* The hooks of the user (SetUp).                                          *)

(* The maximum of some numbers is one of them.                             *)
LEMMA MaxIsLast ==
    ASSUME NEW n \in Nat, NEW K \in SUBSET (0 .. n), K # {}
    PROVE  Pieces!Max(K) \in K /\ \A j \in K : j <= Pieces!Max(K)
<1> DEFINE U == {m \in Nat : \A j \in K : j <= m}
<1>1. n \in U
    OBVIOUS
<1>2. \E m \in U : \A u \in U : ~ (<<u, m>> \in OpToRel(<, Nat))
  <2>1. U # {} /\ U \in SUBSET Nat
    BY <1>1
  <2> HIDE DEF U
  <2> QED
    BY <2>1, NatLessThanWellFounded, WFMin
<1>3. PICK m \in U : \A u \in U : ~ (u < m)
    BY <1>2 DEF OpToRel
<1>4. m \in K
  <2> SUFFICES ASSUME m \notin K PROVE FALSE
    OBVIOUS
  <2>1. \A j \in K : j \in Nat /\ j <= m /\ j # m
    OBVIOUS
  <2>2. m \in Nat /\ m # 0
    <3>1. PICK j \in K : j \in Nat /\ j <= m /\ j # m
      BY <2>1
    <3> QED
      BY <1>3, <3>1
  <2>3. m - 1 \in U
    BY <2>1, <2>2
  <2> QED
    BY <1>3, <2>2, <2>3
<1>5. \A j \in K : j <= m
    OBVIOUS
<1>6. \A x \in K : (\A j \in K : x >= j) <=> x = m
    BY <1>4, <1>5
<1>7. Pieces!Max(K) = m
    BY <1>4, <1>6 DEF Pieces!Max
<1> QED
    BY <1>4, <1>5, <1>7

(* What a list of blocks is for these proofs.                              *)
Listed(bs) ==
    /\ \E n \in Nat : DOMAIN bs \subseteq 1 .. n
    /\ \A i \in DOMAIN bs :
           /\ bs[i] = [matcher |-> bs[i].matcher, hooks |-> bs[i].hooks]
           /\ DOMAIN bs[i].hooks # {}

(* A block that is added gets a number of its own, the last one.           *)
LEMMA NewBlockIsNew ==
    ASSUME NEW bs, Listed(bs)
    PROVE  Pieces!NewBlock(bs) \notin DOMAIN bs
           /\ \E n \in Nat : DOMAIN bs \cup {Pieces!NewBlock(bs)} \subseteq 1 .. n
<1>1. PICK n \in Nat : DOMAIN bs \subseteq 1 .. n
    BY DEF Listed
<1> DEFINE K == {0} \cup DOMAIN bs
           m == Pieces!Max(K)
<1>2. K \in SUBSET (0 .. n) /\ K # {}
    BY <1>1
<1>3. m \in K /\ \A j \in K : j <= m
  <2> HIDE DEF K
  <2> QED
    BY <1>2, MaxIsLast
<1>4. m \in Nat /\ Pieces!NewBlock(bs) = m + 1
    BY <1>2, <1>3 DEF Pieces!NewBlock
<1>5. \A j \in DOMAIN bs : j <= m /\ 1 <= j /\ j \in Nat
    BY <1>1, <1>3
<1> HIDE DEF m, K
<1>6. DOMAIN bs \cup {m + 1} \subseteq 1 .. m + 1
    BY <1>4, <1>5
<1> QED
    BY <1>4, <1>5, <1>6

(* The user's part of a list is what is left when our commands are taken   *)
(* out: taking them out changes nothing of it (stripSalvagerHooks).        *)
LEMMA StripKeeps ==
    ASSUME NEW bs, Listed(bs)
    PROVE  LET s == Pieces!StripSalvagerHooks(bs)
           IN Listed(s) /\ Pieces!UserHooks(s) = Pieces!UserHooks(bs)
<1> DEFINE s == Pieces!StripSalvagerHooks(bs)
           kept == {n \in DOMAIN bs : Pieces!NotOurs(bs[n]) # {}}
<1>1. DOMAIN s = kept /\ \A i \in kept : s[i] = Pieces!Stripped(bs[i])
    BY DEF Pieces!StripSalvagerHooks
<1> HIDE DEF s
<1>2. ASSUME NEW i \in kept
      PROVE  /\ s[i].matcher = bs[i].matcher
             /\ s[i].hooks = [j \in Pieces!NotOurs(bs[i]) |-> bs[i].hooks[j]]
             /\ s[i] = [matcher |-> s[i].matcher, hooks |-> s[i].hooks]
  <2> DEFINE m == bs[i].matcher
             h == [j \in Pieces!NotOurs(bs[i]) |-> bs[i].hooks[j]]
  <2>1. s[i] = [matcher |-> m, hooks |-> h]
    BY <1>1, <1>2 DEF Pieces!Stripped
  <2> HIDE DEF m, h
  <2>2. s[i].matcher = m /\ s[i].hooks = h
    BY <2>1
  <2> QED
    BY <2>1, <2>2 DEF m, h
<1>3. ASSUME NEW i \in kept
      PROVE  /\ DOMAIN s[i].hooks = Pieces!NotOurs(bs[i]) /\ DOMAIN s[i].hooks # {}
             /\ Pieces!NotOurs(s[i]) = Pieces!NotOurs(bs[i])
  <2>1. /\ DOMAIN s[i].hooks = Pieces!NotOurs(bs[i])
        /\ \A j \in DOMAIN s[i].hooks : s[i].hooks[j] = bs[i].hooks[j]
    BY <1>2
  <2> QED
    BY <2>1 DEF Pieces!NotOurs
<1>4. Listed(s)
    BY <1>1, <1>2, <1>3 DEF Listed
<1>5. ASSUME NEW i \in kept PROVE Pieces!Stripped(s[i]) = Pieces!Stripped(bs[i])
  <2>1. \A j \in Pieces!NotOurs(bs[i]) : s[i].hooks[j] = bs[i].hooks[j]
    BY <1>2
  <2> QED
    BY <1>2, <1>3, <2>1 DEF Pieces!Stripped
<1>6. /\ {n \in DOMAIN bs : Pieces!NotOurs(bs[n]) # {} \/ DOMAIN bs[n].hooks = {}} = kept
      /\ {n \in DOMAIN s : Pieces!NotOurs(s[n]) # {} \/ DOMAIN s[n].hooks = {}} = kept
    BY <1>1, <1>3 DEF Listed
<1>7. Pieces!UserHooks(s) = Pieces!UserHooks(bs)
    BY <1>5, <1>6 DEF Pieces!UserHooks
<1> QED
    BY <1>4, <1>7 DEF s

(* A block of ours alone is nothing of the user's.                         *)
LEMMA AddKeeps ==
    ASSUME NEW bs, Listed(bs)
    PROVE  LET s == Pieces!AddBlock(bs)
           IN Listed(s) /\ Pieces!UserHooks(s) = Pieces!UserHooks(bs)
<1> DEFINE s == Pieces!AddBlock(bs)
           new == Pieces!NewBlock(bs)
           ours == Pieces!DesiredHookBlock
<1>1. new \notin DOMAIN bs /\ \E n \in Nat : DOMAIN bs \cup {new} \subseteq 1 .. n
    BY NewBlockIsNew
<1>2. DOMAIN s = DOMAIN bs \cup {new} /\ s[new] = ours /\ \A i \in DOMAIN bs : s[i] = bs[i]
    BY <1>1 DEF Pieces!AddBlock
<1>3. ours = [matcher |-> ours.matcher, hooks |-> ours.hooks] /\ ours.hooks = <<"mine">>
    BY DEF Pieces!DesiredHookBlock
<1>4. DOMAIN ours.hooks # {} /\ Pieces!NotOurs(ours) = {}
  <2>1. DOMAIN ours.hooks = {1} /\ ours.hooks[1] = "mine"
    BY <1>3
  <2> QED
    BY <2>1 DEF Pieces!NotOurs, Pieces!Ours
<1> HIDE DEF s, new, ours
<1>5. Listed(s)
    BY <1>1, <1>2, <1>3, <1>4 DEF Listed
<1>6. {n \in DOMAIN s : Pieces!NotOurs(s[n]) # {} \/ DOMAIN s[n].hooks = {}}
        = {n \in DOMAIN bs : Pieces!NotOurs(bs[n]) # {} \/ DOMAIN bs[n].hooks = {}}
    BY <1>1, <1>2, <1>4
<1>7. Pieces!UserHooks(s) = Pieces!UserHooks(bs)
    BY <1>2, <1>6 DEF Pieces!UserHooks
<1> QED
    BY <1>5, <1>7 DEF s

(* A binary that moves changes our commands only.                          *)
LEMMA AgedKeeps ==
    ASSUME NEW bs, Listed(bs), NEW s,
           s = [b \in DOMAIN bs |->
                   [bs[b] EXCEPT !.hooks = [j \in DOMAIN @ |-> Pieces!Aged(@[j])]]]
    PROVE  Listed(s) /\ Pieces!UserHooks(s) = Pieces!UserHooks(bs)
<1>1. ASSUME NEW i \in DOMAIN bs
      PROVE  s[i] = [matcher |-> bs[i].matcher,
                     hooks |-> [j \in DOMAIN bs[i].hooks |-> Pieces!Aged(bs[i].hooks[j])]]
    BY <1>1 DEF Listed
<1>2. DOMAIN s = DOMAIN bs
    OBVIOUS
<1>3. ASSUME NEW i \in DOMAIN bs
      PROVE  /\ s[i] = [matcher |-> s[i].matcher, hooks |-> s[i].hooks]
             /\ s[i].matcher = bs[i].matcher
             /\ DOMAIN s[i].hooks = DOMAIN bs[i].hooks
             /\ \A j \in DOMAIN bs[i].hooks : s[i].hooks[j] = Pieces!Aged(bs[i].hooks[j])
    BY <1>1
<1>4. \A cmd : /\ Pieces!Ours(Pieces!Aged(cmd)) <=> Pieces!Ours(cmd)
               /\ ~Pieces!Ours(cmd) => Pieces!Aged(cmd) = cmd
    BY DEF Pieces!Ours, Pieces!Aged
<1>5. ASSUME NEW i \in DOMAIN bs
      PROVE  /\ Pieces!NotOurs(s[i]) = Pieces!NotOurs(bs[i])
             /\ \A j \in Pieces!NotOurs(bs[i]) : s[i].hooks[j] = bs[i].hooks[j]
  <2>1. DOMAIN s[i].hooks = DOMAIN bs[i].hooks
    BY <1>3, <1>5
  <2>2. ASSUME NEW j \in DOMAIN bs[i].hooks
        PROVE  /\ Pieces!Ours(s[i].hooks[j]) <=> Pieces!Ours(bs[i].hooks[j])
               /\ ~Pieces!Ours(bs[i].hooks[j]) => s[i].hooks[j] = bs[i].hooks[j]
    <3>1. s[i].hooks[j] = Pieces!Aged(bs[i].hooks[j])
      BY <1>3, <1>5, <2>2
    <3> QED
      BY <1>4, <3>1
  <2> QED
    BY <2>1, <2>2 DEF Pieces!NotOurs
<1>6. ASSUME NEW i \in DOMAIN bs PROVE Pieces!Stripped(s[i]) = Pieces!Stripped(bs[i])
  <2>1. /\ s[i].matcher = bs[i].matcher /\ Pieces!NotOurs(s[i]) = Pieces!NotOurs(bs[i])
        /\ \A j \in Pieces!NotOurs(bs[i]) : s[i].hooks[j] = bs[i].hooks[j]
    BY <1>3, <1>5, <1>6
  <2> QED
    BY <2>1 DEF Pieces!Stripped
<1>7. Listed(s)
    BY <1>2, <1>3 DEF Listed
<1>8. {n \in DOMAIN s : Pieces!NotOurs(s[n]) # {} \/ DOMAIN s[n].hooks = {}}
        = {n \in DOMAIN bs : Pieces!NotOurs(bs[n]) # {} \/ DOMAIN bs[n].hooks = {}}
    BY <1>2, <1>3, <1>5
<1>9. Pieces!UserHooks(s) = Pieces!UserHooks(bs)
    BY <1>2, <1>6, <1>8 DEF Pieces!UserHooks
<1> QED
    BY <1>7, <1>9

(* The settings as the user has written them.                              *)
LEMMA SettingsListed ==
    ASSUME NoEmptyBlocks, NEW bs \in Settings
    PROVE  Listed(bs)
<1>1. bs \in Seq(Pieces!Block)
    BY PiecesAssumption DEF Pieces!SetUpAssumption
<1>2. Len(bs) \in Nat /\ DOMAIN bs = 1 .. Len(bs) /\ \A i \in DOMAIN bs : bs[i] \in Pieces!Block
    BY <1>1
<1>3. \A b \in Pieces!Block : b = [matcher |-> b.matcher, hooks |-> b.hooks]
    BY DEF Pieces!Block
<1> QED
    BY <1>2, <1>3 DEF Listed, NoEmptyBlocks

(* Where no block is empty to begin with, the hooks that are not ours are  *)
(* never changed, whatever runs, fails, moves or is killed between two     *)
(* pieces (stripSalvagerHooks, reconcileHook, undoHook).                   *)
THEOREM UserHooksAreKept == ASSUME NoEmptyBlocks PROVE Pieces!Spec => []UserHooksKept
<1> DEFINE HInv == Listed(hooks) /\ Pieces!UserHooks(hooks) = others
<1>1. Pieces!Init => HInv
  <2> SUFFICES ASSUME Pieces!Init PROVE HInv
    OBVIOUS
  <2>1. (json /\ hooks \in Settings) \/ hooks = <<>>
    BY DEF Pieces!Init
  <2>2. CASE hooks = <<>>
    <3>1. DOMAIN hooks = {} /\ 0 \in Nat
      BY <2>2
    <3> QED
      BY <3>1 DEF Listed, Pieces!Init
  <2> QED
    BY <2>1, <2>2, SettingsListed DEF Pieces!Init
<1>2. HInv /\ [Pieces!Next]_(Pieces!vars) => HInv'
  <2> SUFFICES ASSUME Listed(hooks), Pieces!UserHooks(hooks) = others,
                      [Pieces!Next]_(Pieces!vars)
               PROVE  Listed(hooks') /\ Pieces!UserHooks(hooks') = others'
    OBVIOUS
  <2>1. CASE UNCHANGED <<hooks, others>>
    BY <2>1
  <2>2. CASE Pieces!BinaryMoves
    BY <2>2, AgedKeeps DEF Pieces!BinaryMoves
  <2>3. CASE Pieces!Hook
    <3>1. others' = others /\ (hooks' = hooks \/ hooks' = Pieces!UndoHook(hooks)
                                 \/ hooks' = Pieces!ReconcileHook(hooks))
      BY <2>3 DEF Pieces!Hook, Pieces!call
    <3> DEFINE s == Pieces!StripSalvagerHooks(hooks)
    <3>2. Listed(s) /\ Pieces!UserHooks(s) = others
      BY StripKeeps
    <3>3. Listed(Pieces!AddBlock(s)) /\ Pieces!UserHooks(Pieces!AddBlock(s)) = others
      BY <3>2, AddKeeps
    <3>4. hooks' = hooks \/ hooks' = s \/ hooks' = Pieces!AddBlock(s)
      BY <3>1 DEF Pieces!UndoHook, Pieces!ReconcileHook
    <3> QED
      BY <3>1, <3>2, <3>3, <3>4
  <2>4. CASE \/ Pieces!UserEdits \/ Pieces!Start \/ Pieces!GetMCP \/ Pieces!RemoveMCP
             \/ Pieces!AddMCP \/ Pieces!VerifyMCP \/ Pieces!UndoMCP \/ Pieces!ClaudeMD \/ Pieces!Crash
    <3>1. UNCHANGED <<hooks, others>>
      BY <2>4 DEF Pieces!UserEdits, Pieces!Start, Pieces!GetMCP, Pieces!RemoveMCP, Pieces!AddMCP,
                  Pieces!VerifyMCP, Pieces!UndoMCP, Pieces!ClaudeMD, Pieces!Crash, Pieces!call
    <3> QED
      BY <2>1, <3>1
  <2>5. CASE UNCHANGED Pieces!vars
    BY <2>1, <2>5 DEF Pieces!vars
  <2> QED
    BY <2>2, <2>3, <2>4, <2>5 DEF Pieces!Next
<1>3. HInv => UserHooksKept
    BY DEF UserHooksKept, Pieces!UserHooksKept
<1> QED
    BY <1>1, <1>2, <1>3, PTL DEF Pieces!Spec
=============================================================================
