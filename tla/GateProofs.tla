----------------------------- MODULE GateProofs -----------------------------
(***************************************************************************)
(* How wide the racy window must be for the stat gate to be safe: as wide  *)
(* as a capture may take, a file server's clock may lag and the grain of   *)
(* the file system's times, together.                                      *)
(***************************************************************************)
EXTENDS Gate, TLAPS

USE GateAssumption

(* The window of this run of the watcher is wide enough.                   *)
SlopFits == CaptureTicks + fs.lag + fs.grain <= slop + 1

(* The newest revision is not what is on disk.                             *)
Dirty == file.content # Gone /\ recorded # file.content

(* The watcher's clock is past the start, a capture is not overdue and the *)
(* change times of the file and of the gate are of the past.               *)
TimeInv ==
    /\ SlopFits
    /\ FirstTick <= clock
    /\ file.ctime <= Stamp(clock)
    /\ pc = "mark" => since <= clock /\ clock <= since + CaptureTicks
    /\ gate # None => /\ gate.capturedAt <= clock
                      /\ fs.ctime => gate.ctime <= file.ctime

(* What is not recorded passes the gate, or will when the capture under    *)
(* way has left its mark: it was written after the capture's read.         *)
DirtyInv ==
    Dirty => /\ pc # "mark" /\ gate # None => CaptureDecision(Stat, gate)
             /\ pc = "mark" => file.mtime + slop >= since + CaptureTicks

GateInv == TypeOK /\ TimeInv /\ DirtyInv

(* No write puts an old mtime back during a capture or within one tick of  *)
(* the last change.                                                        *)
TimesMove == KeepsMtime \subseteq {"idle"}
-----------------------------------------------------------------------------
(* A time is stamped at most a lag and a grain too early, and never out of *)
(* order, for any grain.                                                   *)
LEMMA StampBounds ==
    ASSUME NEW t \in Nat, fs.lag \in Nat, fs.grain \in Nat \ {0}, fs.lag <= t
    PROVE  /\ Stamp(t) \in 0 .. t
           /\ t < Stamp(t) + fs.lag + fs.grain
<1>1. t - fs.lag \in Nat
    OBVIOUS
<1>2. (t - fs.lag) % fs.grain \in 0 .. fs.grain - 1 /\ (t - fs.lag) % fs.grain <= t - fs.lag
    BY <1>1
<1> QED
    BY <1>1, <1>2 DEF Stamp

(* Stamps of later moments are not earlier.                                *)
LEMMA StampMono ==
    ASSUME NEW t \in Nat, NEW u \in Nat, t <= u,
           fs.lag \in Nat, fs.grain \in Nat \ {0}, fs.lag <= t
    PROVE  Stamp(t) <= Stamp(u)
<1>1. ASSUME NEW a \in Nat, NEW b \in Nat, NEW g \in Nat \ {0}, a <= b
      PROVE  a - (a % g) <= b - (b % g)
  <2> DEFINE m == a \div g
             n == b \div g
  <2>1. m \in Int /\ n \in Int
    BY <1>1
  <2>2. a - (a % g) = g * m /\ b - (b % g) = g * n
    BY <1>1
  <2>3. a % g \in 0 .. g - 1 /\ b % g \in 0 .. g - 1
    BY <1>1
  <2> HIDE DEF m, n
  <2>4. ASSUME n < m PROVE FALSE
    <3>1. m = n + 1 + (m - n - 1) /\ m - n - 1 \in Nat
      BY <2>1, <2>4
    <3>2. ASSUME NEW d \in Nat, m = n + 1 + d PROVE g * m = g * n + g + g * d
      BY <2>1, <3>2
    <3>3. \A d \in Nat : g * d \in Nat
      OBVIOUS
    <3>4. g * n + g <= g * m
      BY <2>1, <3>1, <3>2, <3>3
    <3> QED
      BY <1>1, <2>1, <2>2, <2>3, <3>4
  <2>5. \A d \in Nat : g * d \in Nat
    OBVIOUS
  <2>6. g * m <= g * n
    <3>1. n - m \in Nat /\ n = m + (n - m)
      BY <2>1, <2>4
    <3>2. ASSUME NEW d \in Nat, n = m + d PROVE g * n = g * m + g * d
      BY <2>1, <3>2
    <3> QED
      BY <2>1, <2>5, <3>1, <3>2
  <2> QED
    BY <2>2, <2>6
<1>2. t - fs.lag \in Nat /\ u - fs.lag \in Nat /\ t - fs.lag <= u - fs.lag
    OBVIOUS
<1> QED
    BY <1>1, <1>2 DEF Stamp

(* What Init chooses of the file system. *)
LEMMA Parameters ==
    ASSUME fs.grain \in Grains, fs.lag \in Lags, fs.ctime \in HasCtimes
    PROVE  /\ fs.lag \in Nat /\ fs.lag < FirstTick
           /\ fs.grain \in Nat \ {0} /\ fs.ctime \in BOOLEAN
<1>1. fs.lag \in 0 .. FirstTick - 1
    OBVIOUS
<1>2. fs.lag \in Nat /\ fs.lag < FirstTick
    BY <1>1
<1> QED
    BY <1>2

(* The types that the arithmetic rests on.                                 *)
LEMMA Bounds ==
    ASSUME TypeOK, TimeInv
    PROVE  /\ clock \in Nat /\ clock <= LastTick /\ FirstTick <= clock
           /\ fs.lag \in Nat /\ fs.lag < FirstTick /\ fs.grain \in Nat \ {0}
           /\ fs.ctime \in BOOLEAN
           /\ slop \in Nat /\ since \in Nat
           /\ Stamp(clock) \in Times /\ clock < Stamp(clock) + fs.lag + fs.grain
<1>1. /\ clock \in Nat /\ clock <= LastTick /\ FirstTick <= clock
      /\ fs.lag \in Nat /\ fs.lag < FirstTick /\ fs.grain \in Nat \ {0}
      /\ fs.ctime \in BOOLEAN /\ slop \in Nat /\ since \in Nat
  <2>1. clock \in Times /\ since \in Times /\ FirstTick <= clock /\ slop \in Nat
    BY DEF TypeOK, TimeInv
  <2>2. fs.grain \in Grains /\ fs.lag \in Lags /\ fs.ctime \in HasCtimes
    BY DEF TypeOK
  <2> QED
    BY <2>1, <2>2, Parameters DEF Times
<1>2. Stamp(clock) \in 0 .. clock /\ clock < Stamp(clock) + fs.lag + fs.grain
    BY <1>1, StampBounds
<1> QED
    BY <1>1, <1>2 DEF Times
-----------------------------------------------------------------------------
(* A watcher that starts has no gate entry.                                *)
LEMMA InitInv == Init /\ SlopFits => GateInv
<1> SUFFICES ASSUME Init, SlopFits PROVE GateInv
    OBVIOUS
<1>1. /\ fs.lag \in Nat /\ fs.lag + 1 <= FirstTick /\ fs.grain \in Nat \ {0}
      /\ clock = FirstTick /\ FirstTick \in Times
  <2>1. fs.grain \in Grains /\ fs.lag \in Lags /\ fs.ctime \in HasCtimes
    BY DEF Init
  <2>2. clock = FirstTick
    BY DEF Init
  <2> QED
    BY <2>1, <2>2, Parameters DEF Times
<1>2. ASSUME NEW m \in {fs.lag + 1, FirstTick}
      PROVE  Stamp(m) \in Times /\ Stamp(m) <= Stamp(FirstTick)
    BY <1>1, StampBounds, StampMono DEF Times
<1>3. /\ file \in [content : Content \cup {Gone}, mtime : Times, ctime : Times]
      /\ file.ctime <= Stamp(clock)
    BY <1>1, <1>2 DEF Init
<1>4. slop \in Nat
    BY <1>1 DEF Init
<1>7. failed \in BOOLEAN
    BY Zenon DEF Init
<1>5. TypeOK
    BY <1>1, <1>3, <1>4, <1>7 DEF Init, TypeOK, Times
<1>6. TimeInv /\ DirtyInv
    BY <1>1, <1>3 DEF Init, TimeInv, DirtyInv
<1> QED
    BY <1>5, <1>6 DEF GateInv
-----------------------------------------------------------------------------
(* A write gives the file the time of now, which is in the window of any   *)
(* gate entry there is, and of the one the capture under way will leave.   *)
LEMMA WriteStep ==
    ASSUME GateInv, NEW c \in Content, Write(c)
    PROVE  GateInv'
<1> USE DEF GateInv
<1>0. /\ file' = [content |-> c, mtime |-> Stamp(clock), ctime |-> Stamp(clock)]
      /\ writes' = writes + 1 /\ writes < MaxWrites /\ queue' = queue + 1
      /\ UNCHANGED <<clock, fs, slop, recorded, gate, pending, pc, since, failed>>
    BY DEF Write, Change
<1>1. TypeOK'
    BY <1>0, Bounds DEF TypeOK
<1>2. TimeInv'
  <2>1. file.ctime <= Stamp(clock) /\ Stamp(clock)' = Stamp(clock)
    BY <1>0 DEF TimeInv, Stamp
  <2>2. gate # None => gate.ctime \in Nat
    BY DEF TypeOK, Times
  <2>3. file.ctime \in Nat /\ Stamp(clock) \in Nat
    BY Bounds DEF TypeOK, Times
  <2> QED
    BY <1>0, <2>1, <2>2, <2>3 DEF TimeInv, SlopFits
<1>3. clock + CaptureTicks <= Stamp(clock) + slop
  <2>1. CaptureTicks + fs.lag + fs.grain <= slop + 1
    BY DEF TimeInv, SlopFits
  <2>2. /\ clock \in Nat /\ fs.lag \in Nat /\ fs.grain \in Nat /\ slop \in Nat
        /\ Stamp(clock) \in Nat /\ clock < Stamp(clock) + fs.lag + fs.grain
    BY Bounds DEF Times
  <2> QED
    BY <2>1, <2>2
<1>4. ASSUME pc # "mark", gate # None PROVE CaptureDecision(Stat, gate)'
  <2>1. CASE Stamp(clock) # gate.mtime
    BY <1>0, <2>1 DEF CaptureDecision, Moved, Stat
  <2>2. CASE Stamp(clock) = gate.mtime
    <3>1. gate.capturedAt \in Nat /\ gate.capturedAt <= clock
      BY <1>4 DEF TypeOK, Times, TimeInv
    <3>2. Racy(gate)
      <4>1. clock \in Nat /\ slop \in Nat /\ Stamp(clock) \in Nat
        BY Bounds DEF Times
      <4> QED
        BY <2>2, <3>1, <1>3, <4>1 DEF Racy
    <3> QED
      BY <1>0, <3>2 DEF CaptureDecision, Racy
  <2> QED
    BY <2>1, <2>2
<1>5. ASSUME pc = "mark" PROVE Stamp(clock) + slop >= since + CaptureTicks
  <2>1. since <= clock
    BY <1>5 DEF TimeInv
  <2>2. clock \in Nat /\ since \in Nat /\ slop \in Nat /\ Stamp(clock) \in Nat
    BY Bounds DEF Times
  <2> QED
    BY <1>3, <2>1, <2>2
<1>6. DirtyInv'
    BY <1>0, <1>4, <1>5 DEF DirtyInv
<1> QED
    BY <1>1, <1>2, <1>6

(* A rewrite that keeps the mtime has a later change time than the gate    *)
(* entry; without change times every look at the file ends in a capture.   *)
LEMMA KeepingStep ==
    ASSUME GateInv, TimesMove, NEW c \in Content, WriteKeepingMtime(c)
    PROVE  GateInv'
<1> USE DEF GateInv
<1>0. /\ file' = [file EXCEPT !.content = c, !.ctime = Stamp(clock)]
      /\ writes' = writes + 1 /\ writes < MaxWrites /\ queue' = queue + 1
      /\ UNCHANGED <<clock, fs, slop, recorded, gate, pending, pc, since, failed>>
    BY DEF WriteKeepingMtime, Change
<1>1. pc # "mark" /\ Stamp(clock) # file.ctime
  <2>1. Moment = "idle"
    BY DEF WriteKeepingMtime, TimesMove
  <2> QED
    BY <2>1 DEF Moment
<1>2. /\ file.ctime \in Nat /\ Stamp(clock) \in Nat /\ file.ctime < Stamp(clock)
      /\ gate # None => gate.ctime \in Nat
  <2>1. file.ctime \in Nat /\ Stamp(clock) \in Nat
    BY Bounds DEF TypeOK, Times
  <2>2. gate # None => gate.ctime \in Nat
    BY DEF TypeOK, Times
  <2> QED
    BY <1>1, <2>1, <2>2 DEF TimeInv
<1>3. file' = [content |-> c, mtime |-> file.mtime, ctime |-> Stamp(clock)]
    BY <1>0 DEF TypeOK
<1>4. TypeOK'
    BY <1>0, <1>3, Bounds DEF TypeOK
<1>5. TimeInv'
  <2>1. Stamp(clock)' = Stamp(clock)
    BY <1>0 DEF Stamp
  <2> QED
    BY <1>0, <1>1, <1>2, <1>3, <2>1 DEF TimeInv, SlopFits
<1>6. ASSUME gate # None PROVE CaptureDecision(Stat, gate)'
  <2>1. CASE fs.ctime
    BY <1>0, <1>2, <1>6, <1>3, <2>1 DEF CaptureDecision, Moved, Stat, TimeInv
  <2>2. CASE ~fs.ctime
    BY <1>0, <2>2 DEF CaptureDecision, Stat
  <2> QED
    BY <2>1, <2>2
<1>7. DirtyInv'
    BY <1>0, <1>1, <1>6 DEF DirtyInv
<1> QED
    BY <1>4, <1>5, <1>7

(* A removed file passes the gate in any case.                             *)
LEMMA RemoveStep ==
    ASSUME GateInv, Remove
    PROVE  GateInv'
<1> USE DEF GateInv
<1>0. /\ file' = [content |-> Gone, mtime |-> file.mtime, ctime |-> file.ctime]
      /\ writes' = writes + 1 /\ writes < MaxWrites /\ queue' = queue + 1
      /\ UNCHANGED <<clock, fs, slop, recorded, gate, pending, pc, since, failed>>
    BY DEF Remove, Change, TypeOK
<1>1. TypeOK'
    BY <1>0 DEF TypeOK
<1>2. TimeInv'
    BY <1>0 DEF TimeInv, SlopFits, Stamp
<1>3. DirtyInv'
    BY <1>0 DEF DirtyInv, Dirty
<1> QED
    BY <1>1, <1>2, <1>3

(* Time passes, and no capture takes longer than it may.                   *)
LEMMA TickStep ==
    ASSUME GateInv, Tick
    PROVE  GateInv'
<1> USE DEF GateInv
<1>0. /\ clock < LastTick /\ clock' = clock + 1
      /\ pc = "mark" => clock < since + CaptureTicks
      /\ UNCHANGED <<file, writes, fs, slop, recorded, gate, queue, pending, pc, since,
                     failed>>
    BY DEF Tick
<1>1. clock \in Nat /\ since \in Nat /\ LastTick \in Nat /\ FirstTick <= clock
    BY Bounds
<1>2. TypeOK'
    BY <1>0, <1>1 DEF TypeOK, Times
<1>3. TimeInv'
  <2>1. Stamp(clock) <= Stamp(clock')
    BY <1>0, <1>1, Bounds, StampMono
  <2>2. Stamp(clock)' = Stamp(clock')
    BY <1>0 DEF Stamp
  <2>3. file.ctime \in Nat /\ Stamp(clock) \in Nat /\ Stamp(clock') \in Nat
    BY <1>0, <1>1, Bounds, StampBounds DEF TypeOK, Times
  <2>4. gate # None => gate.capturedAt \in Nat
    BY DEF TypeOK, Times
  <2>5. file'.ctime <= Stamp(clock)'
    BY <1>0, <2>1, <2>2, <2>3 DEF TimeInv
  <2> QED
    BY <1>0, <1>1, <2>4, <2>5 DEF TimeInv, SlopFits
<1>4. DirtyInv'
    BY <1>0 DEF DirtyInv, Dirty, CaptureDecision, Moved, Racy, Stat
<1> QED
    BY <1>2, <1>3, <1>4

(* The watcher's steps before the store reads the file change nothing of   *)
(* the file, the store or the gate.                                        *)
LEMMA WaitStep ==
    ASSUME GateInv, Deliver \/ Fire \/ PassGate \/ RecordFails
    PROVE  GateInv'
<1> USE DEF GateInv
<1>0. /\ UNCHANGED <<file, clock, writes, fs, slop, recorded, gate, since>>
      /\ pc # "mark" /\ pc' \in {"loop", "gate", "record"}
      /\ queue' \in 0 .. writes
      /\ pending' \in Times \cup {None}
    BY DEF Deliver, Fire, PassGate, RecordFails, env, TypeOK
<1>4. failed' \in BOOLEAN
    BY Zenon DEF Deliver, Fire, PassGate, RecordFails, TypeOK
<1>1. TypeOK'
    BY <1>0, <1>4 DEF TypeOK
<1>2. TimeInv'
    BY <1>0 DEF TimeInv, SlopFits, Stamp
<1>3. DirtyInv'
    BY <1>0 DEF DirtyInv, Dirty, CaptureDecision, Moved, Racy, Stat
<1> QED
    BY <1>1, <1>2, <1>3

(* After the store's read nothing is left to record.                       *)
LEMMA RecordStep ==
    ASSUME GateInv, Record
    PROVE  GateInv'
<1> USE DEF GateInv
<1>0. /\ UNCHANGED <<file, clock, writes, fs, slop, gate, queue, pending, failed>>
      /\ recorded' = file.content /\ since' = clock /\ pc' = "mark"
    BY DEF Record, env
<1>1. TypeOK'
    BY <1>0 DEF TypeOK
<1>2. TimeInv'
    BY <1>0, Bounds DEF TimeInv, SlopFits, Stamp
<1>3. DirtyInv'
    BY <1>0 DEF DirtyInv, Dirty
<1> QED
    BY <1>1, <1>2, <1>3

(* The mark of a file that was written since the read is in the window.    *)
LEMMA MarkStep ==
    ASSUME GateInv, MarkCaptured
    PROVE  GateInv'
<1> USE DEF GateInv
<1>0. /\ UNCHANGED <<file, clock, writes, fs, slop, recorded, queue, pending, since, failed>>
      /\ pc = "mark" /\ pc' = "loop" /\ gate' = Mark
    BY DEF MarkCaptured, env
<1>1. TypeOK'
  <2>1. CASE file.content = Gone
    BY <1>0, <2>1 DEF TypeOK, Mark
  <2>2. CASE file.content # Gone
    <3>1. Size[file.content] \in Nat /\ 0 \in Times
      BY <2>2 DEF TypeOK, Times
    <3> QED
      BY <1>0, <2>2, <3>1 DEF TypeOK, Mark, Stat
  <2> QED
    BY <2>1, <2>2
<1>2. TimeInv'
  <2>1. ~fs.ctime \/ file.ctime <= file.ctime
    BY DEF TypeOK, Times
  <2> QED
    BY <1>0, <2>1, Bounds DEF TimeInv, SlopFits, Stamp, Mark, Stat
<1>3. ASSUME Dirty PROVE Racy(gate)'
  <2>1. gate'.mtime = file.mtime /\ gate'.capturedAt = clock
    BY <1>0, <1>3 DEF Dirty, Mark, Stat
  <2>2. file.mtime + slop >= since + CaptureTicks /\ clock <= since + CaptureTicks
    BY <1>0, <1>3 DEF DirtyInv, TimeInv
  <2>3. file.mtime \in Nat /\ slop \in Nat /\ since \in Nat /\ clock \in Nat
    BY Bounds DEF TypeOK, Times
  <2> QED
    BY <1>0, <2>1, <2>2, <2>3 DEF Racy
<1>4. DirtyInv'
    BY <1>0, <1>3 DEF DirtyInv, Dirty, CaptureDecision, Racy
<1> QED
    BY <1>1, <1>2, <1>4
-----------------------------------------------------------------------------
(* Every step keeps the invariant.                                         *)
LEMMA NextInv ==
    ASSUME GateInv, TimesMove, [Next]_vars
    PROVE  GateInv'
<1>1. CASE UNCHANGED vars
    BY <1>1 DEF vars, GateInv, TypeOK, TimeInv, SlopFits, Stamp, DirtyInv, Dirty,
                CaptureDecision, Moved, Racy, Stat
<1>2. CASE Next
    BY <1>2, WriteStep, KeepingStep, RemoveStep, TickStep, WaitStep, RecordStep, MarkStep
       DEF Next, Watcher
<1> QED
    BY <1>1, <1>2

(* The gate of shouldCapture "may only ever avoid work, never a capture"   *)
(* (watch/watch.go:88): in a run whose racy window is as wide as SlopFits  *)
(* says, what it turns away is recorded, for every grain and lag of the    *)
(* file system's times, with or without change times, and with captures    *)
(* that fail.                                                              *)
THEOREM GateIsSafe ==
    ASSUME TimesMove
    PROVE  Spec /\ SlopFits => NeverAvoidsACapture
<1>1. GateInv /\ [Next]_vars
        => [pc = "gate" /\ pc' = "loop" => recorded = file.content]_vars
  <2> SUFFICES ASSUME GateInv, Next, pc = "gate", pc' = "loop"
               PROVE  recorded = file.content
    OBVIOUS
  <2>1. PassGate
    BY DEF Next, Watcher, Write, WriteKeepingMtime, Change, Remove, Tick, Deliver, Fire,
           PassGate, Record, RecordFails, MarkCaptured, env
  <2>2. ~ShouldCapture
    BY <2>1 DEF PassGate
  <2> QED
    BY <2>2 DEF ShouldCapture, GateInv, DirtyInv, Dirty
<1> QED
    BY <1>1, InitInv, NextInv, PTL DEF Spec, NeverAvoidsACapture

(* What is not recorded is on its way: an event, a pending entry or a      *)
(* capture about to start; or the last capture failed.                     *)
OnItsWay == recorded # file.content /\ ~failed
              => queue > 0 \/ pending # None \/ pc \in {"gate", "record"}

(* A file that is left alone is recorded (README.md:187), when the last    *)
(* capture did not fail: whenever the watcher has nothing left to do, the  *)
(* newest revision is what is on disk.                                     *)
THEOREM QuietFilesAreRecorded ==
    ASSUME TimesMove
    PROVE  Spec /\ SlopFits => []QuietIsRecorded
<1>1. Init => OnItsWay
    BY DEF Init, OnItsWay
<1>2. ASSUME GateInv, OnItsWay, [Next]_vars PROVE OnItsWay'
  <2>1. queue \in Nat /\ writes \in Nat
    BY <1>2 DEF GateInv, TypeOK
  <2>2. CASE \/ \E c \in Content : Write(c) \/ WriteKeepingMtime(c)
             \/ Remove
    <3>1. queue' = queue + 1
      BY <2>2 DEF Write, WriteKeepingMtime, Remove, Change
    <3> QED
      BY <2>1, <3>1 DEF OnItsWay
  <2>3. CASE Tick
    BY <2>3, <1>2 DEF Tick, OnItsWay
  <2>4. CASE Deliver
    <3>1. clock \in Nat
      BY Bounds, <1>2 DEF GateInv
    <3> QED
      BY <2>4, <3>1 DEF Deliver, OnItsWay
  <2>5. CASE Fire
    BY <2>5 DEF Fire, OnItsWay
  <2>6. CASE PassGate
    BY <1>2, <2>6 DEF PassGate, ShouldCapture, GateInv, DirtyInv, Dirty, OnItsWay, env
  <2>7. CASE Record
    BY <2>7 DEF Record, OnItsWay, env
  <2>8. CASE MarkCaptured
    BY <1>2, <2>8 DEF MarkCaptured, OnItsWay, env
  <2>9. CASE RecordFails
    BY <2>9 DEF RecordFails, OnItsWay
  <2>10. CASE UNCHANGED vars
    BY <1>2, <2>10 DEF OnItsWay, vars
  <2> QED
    BY <1>2, <2>2, <2>3, <2>4, <2>5, <2>6, <2>7, <2>8, <2>9, <2>10 DEF Next, Watcher
<1>3. OnItsWay => QuietIsRecorded
    BY DEF OnItsWay, QuietIsRecorded, Settled
<1> QED
    BY <1>1, <1>2, <1>3, InitInv, NextInv, PTL DEF Spec
=============================================================================
