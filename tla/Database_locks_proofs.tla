----------------------- MODULE Database_locks_proofs -----------------------
(***************************************************************************)
(* What the record locks of lib/database.c are good for: when every        *)
(* process has one thread, as t_db has, nobody writes a file that another  *)
(* process scans, and no two deletes copy the tail of one file.            *)
(***************************************************************************)
EXTENDS Database_proofs

OneThreadPerProcess == \A t, u \in Threads : Proc(t) = Proc(u) => t = u

\* Who writes a record holds a write lock on some slot of the file.
Writing(t) == pc[t] \in {"write", "append"} \/ Shifting(t)

\* The kernel's side: a write lock excludes every other lock on its slot.
Exclusive ==
  \A p, q \in Procs : \A f \in Files : \A s \in Slots :
     p # q /\ lock[p][f][s] = "wr" => lock[q][f][s] = "none"

\* The code's side: which locks a thread has taken by the time it gets there.
Holds(t) ==
  /\ pc[t] = "scan" => \A s \in Slots : lock[Proc(t)][OpenFile(t)][s] = "rd"
  /\ Writing(t) => \E s \in Slots : lock[Proc(t)][OpenFile(t)][s] = "wr"
  /\ Shifting(t) => lock[Proc(t)][OpenFile(t)][MaxSlot] = "wr"

LockInv ==
  /\ OneThreadPerProcess /\ TypeInv
  /\ Exclusive
  /\ \A t \in Threads : Holds(t)

\* Every range that is locked has a slot, that of a tail has the last one.
LEMMA Ranges ==
  /\ MaxSlot \in Slots
  /\ \A p \in Nat : \E s \in Slots : s \in SlotAt(p)
  /\ \A p \in Nat : MaxSlot \in SlotsFrom(p) /\ SlotsFrom(p) \subseteq Slots
  /\ \A p \in Nat : SlotAt(p) \subseteq Slots
BY MaxSlotAssumption DEF Slots, SlotAt, SlotsFrom

\* A request that is granted, or one that gives a lock up, keeps locks exclusive.
LEMMA SetLockExclusive ==
  ASSUME TypeInv, Exclusive, NEW p \in Procs, NEW f \in Files, NEW type \in LockTypes,
         NEW range \in SUBSET Slots, type = "none" \/ Grantable(lock, p, f, type, range),
         lock' = SetLock(lock, p, f, type, range)
  PROVE  /\ Exclusive'
         /\ \A s \in range : lock'[p][f][s] = type
         /\ \A q \in Procs \ {p} : lock'[q] = lock[q]
<1>1. lock \in [Procs -> [Files -> [Slots -> LockTypes]]]
  BY DEF TypeInv, TypeOK, KernelOK
<1>2. /\ \A s \in Slots : lock'[p][f][s] = IF s \in range THEN type ELSE lock[p][f][s]
      /\ \A g \in Files \ {f} : lock'[p][g] = lock[p][g]
      /\ \A q \in Procs \ {p} : lock'[q] = lock[q]
  BY <1>1 DEF SetLock
<1>3. ASSUME NEW q \in Procs \ {p}, NEW s \in range
      PROVE  /\ type = "wr" => lock[q][f][s] = "none"
             /\ lock[q][f][s] = "wr" => type = "none"
  BY <1>3 DEF Grantable
<1>4. Exclusive'
  <2> SUFFICES ASSUME NEW q \in Procs, NEW r \in Procs, NEW g \in Files, NEW s \in Slots,
                      q # r, lock'[q][g][s] = "wr"
               PROVE  lock'[r][g][s] = "none"
    BY DEF Exclusive
  <2>1. CASE g # f \/ (q # p /\ r # p)
    BY <1>2, <2>1 DEF Exclusive
  <2>2. CASE g = f /\ q = p
    BY <1>2, <1>3, <2>2 DEF Exclusive
  <2>3. CASE g = f /\ r = p
    BY <1>2, <1>3, <2>3 DEF Exclusive
  <2> QED
    BY <2>1, <2>2, <2>3
<1> QED
  BY <1>2, <1>4

\* What a step of t has to keep: the locks of the other processes are theirs.
LEMMA OthersHold ==
  ASSUME LockInv, NEW t \in Threads, TypeInv', Exclusive',
         \A q \in Procs \ {Proc(t)} : lock'[q] = lock[q],
         \A u \in Threads \ {t} :
            /\ pc'[u] = pc[u] /\ op'[u] = op[u] /\ stage'[u] = stage[u],
         Holds(t)'
  PROVE  LockInv'
<1>1. ASSUME NEW u \in Threads \ {t} PROVE Holds(u)'
  <2>1. /\ lock'[Proc(u)] = lock[Proc(u)] /\ OpenFile(u)' = OpenFile(u)
        /\ (Writing(u)' <=> Writing(u)) /\ (Shifting(u)' <=> Shifting(u))
        /\ pc'[u] = pc[u] /\ Proc(u)' = Proc(u)
    BY Located DEF LockInv, OneThreadPerProcess, OpenFile, Writing, Shifting, Proc
  <2>2. Holds(u)
    BY DEF LockInv
  <2> QED
    BY <2>1, <2>2 DEF Holds
<1>2. OneThreadPerProcess'
  BY DEF LockInv, OneThreadPerProcess, Proc
<1> QED
  BY <1>1, <1>2 DEF LockInv

\* The locks at a step that takes one.
LEMMA TakesLock ==
  ASSUME LockInv, NEW t \in Threads, TypeInv',
         BeginScan(t) \/ LockRecord(t) \/ LockTail(t) \/ LockEnd(t)
  PROVE  LockInv'
<1> DEFINE p == Proc(t)
           f == OpenFile(t)
<1>1. /\ ThreadsOK /\ p \in Procs /\ f \in Files
      /\ pc[t] = "wlock" => cur[t] >= 1
  BY Located DEF LockInv, TypeInv, TypeOK, Control
<1>2. PICK type \in {"rd", "wr"}, range \in SUBSET Slots :
        /\ Grantable(lock, p, f, type, range)
        /\ lock' = SetLock(lock, p, f, type, range)
        /\ \/ pc'[t] = "scan" /\ type = "rd" /\ range = Slots
           \/ pc'[t] \in {"write", "append"} /\ type = "wr" /\ \E s \in Slots : s \in range
           \/ pc'[t] = "shift" /\ type = "wr" /\ MaxSlot \in range
  <2>1. CASE BeginScan(t)
    BY <1>1, <2>1 DEF BeginScan, Relock, Goto, WholeFile, ThreadsOK
  <2>2. CASE LockRecord(t)
    <3>1. Position(t) \in Nat
      BY <1>1, <2>2 DEF LockRecord, Goto, Position, ThreadsOK
    <3> QED
      BY <1>1, <2>2, <3>1, Ranges DEF LockRecord, Relock, Goto, ThreadsOK
  <2>3. CASE LockTail(t)
    <3>1. cur[t] \in Nat
      BY <1>1, <2>3 DEF LockTail, Goto, ThreadsOK
    <3> QED
      BY <1>1, <2>3, <3>1, Ranges DEF LockTail, Relock, Goto, ThreadsOK
  <2>4. CASE LockEnd(t)
    BY <1>1, <2>4, Ranges DEF LockEnd, Relock, Goto, ThreadsOK
  <2> QED
    BY <2>1, <2>2, <2>3, <2>4
<1>3. /\ \A u \in Threads \ {t} :
            /\ pc'[u] = pc[u] /\ op'[u] = op[u] /\ stage'[u] = stage[u]
      /\ op'[t].fn = op[t].fn /\ stage'[t] = stage[t]
  BY <1>1 DEF BeginScan, LockRecord, LockTail, LockEnd, Goto, local, WithRec, ThreadsOK
<1>4. OpenFile(t)' = f /\ Proc(t)' = p
  BY <1>3 DEF OpenFile, Proc
<1>5. /\ Exclusive' /\ \A s \in range : lock'[p][f][s] = type
      /\ \A q \in Procs \ {p} : lock'[q] = lock[q]
  BY <1>1, <1>2, SetLockExclusive DEF LockInv, LockTypes
<1>6. Holds(t)'
  <2> HIDE DEF p, f
  <2> QED
    BY <1>2, <1>4, <1>5, Ranges DEF Holds, Writing, Shifting
<1> QED
  BY <1>3, <1>5, <1>6, OthersHold

\* The locks at a step that gives one up, or leaves them alone and goes on with
\* what the thread was locked for.
LEMMA KeepsLocks ==
  ASSUME LockInv, NEW t \in Threads, TypeInv', UNCHANGED lock,
         \A u \in Threads \ {t} :
            /\ pc'[u] = pc[u] /\ op'[u] = op[u] /\ stage'[u] = stage[u],
         \/ pc'[t] \notin {"scan", "write", "append"} /\ ~Shifting(t)'
         \/ /\ OpenFile(t)' = OpenFile(t)
            /\ pc'[t] = "scan" => pc[t] = "scan"
            /\ pc'[t] \notin {"write", "append"}
            /\ Shifting(t)' => Shifting(t)
  PROVE  LockInv'
<1>1. Exclusive' /\ \A q \in Procs \ {Proc(t)} : lock'[q] = lock[q]
  BY DEF LockInv, Exclusive
<1>2. Proc(t)' = Proc(t) /\ Holds(t)
  BY DEF Proc, LockInv
<1>3. Holds(t)'
  BY <1>2 DEF Holds, Writing
<1> QED
  BY <1>1, <1>3, OthersHold

LEMMA DropsLocks ==
  ASSUME LockInv, NEW t \in Threads, TypeInv', NEW range \in SUBSET Slots,
         lock' = SetLock(lock, Proc(t), OpenFile(t), "none", range),
         \A u \in Threads \ {t} :
            /\ pc'[u] = pc[u] /\ op'[u] = op[u] /\ stage'[u] = stage[u],
         pc'[t] \notin {"scan", "write", "append"} /\ ~Shifting(t)'
  PROVE  LockInv'
<1>1. Exclusive' /\ \A q \in Procs \ {Proc(t)} : lock'[q] = lock[q]
  BY Located, SetLockExclusive DEF LockInv, LockTypes
<1>2. Holds(t)'
  BY DEF Holds, Writing
<1> QED
  BY <1>1, <1>2, OthersHold

LEMMA StepLocks ==
  ASSUME LockInv, NEW t \in Threads, Step(t), TypeInv' PROVE LockInv'
<1>1. ThreadsOK /\ TypeInv /\ Control(t) /\ Control(t)'
  BY DEF LockInv, TypeInv, TypeOK
<1> USE DEF disk, local, bounds, Goto
<1>2. CASE BeginScan(t) \/ LockRecord(t) \/ LockTail(t) \/ LockEnd(t)
  BY <1>2, TakesLock
<1>3. CASE ReadHit(t) \/ ReadMiss(t) \/ ReadInto(t) \/ ReadEOF(t)
  BY <1>1, <1>3, KeepsLocks
     DEF ReadHit, ReadMiss, ReadInto, ReadEOF, ThreadsOK, OpenFile, Shifting
<1>4. CASE Overwrite(t) \/ OverwriteFails(t)
  BY <1>1, <1>4, KeepsLocks DEF Overwrite, OverwriteFails, ThreadsOK, Shifting
<1>5. CASE \/ ShiftRead(t) \/ ShiftWrite(t) \/ ShiftWriteFails(t) \/ ShiftEOF(t)
           \/ SeekLast(t) \/ Truncate(t)
  BY <1>1, <1>5, KeepsLocks
     DEF ShiftRead, ShiftWrite, ShiftWriteFails, ShiftEOF, SeekLast, Truncate,
         ThreadsOK, OpenFile, Shifting
<1>6. CASE NewId(t) \/ OpenForAppend(t) \/ AppendRecord(t) \/ AppendFails(t) \/ SeekSize(t)
  BY <1>1, <1>6, KeepsLocks
     DEF NewId, OpenForAppend, AppendRecord, AppendFails, SeekSize, ThreadsOK, Shifting
<1>7. CASE OpenFails(t)
  BY <1>1, <1>7, KeepsLocks DEF OpenFails, ThreadsOK, Shifting
<1>8. CASE EndScan(t) \/ EndWrite(t) \/ UnlockEnd(t) \/ Close(t)
  <2>1. /\ \A u \in Threads \ {t} :
              /\ pc'[u] = pc[u] /\ op'[u] = op[u] /\ stage'[u] = stage[u]
        /\ pc'[t] \in {"wlock", "close", "done", "lock", "newid"}
    BY <1>1, <1>8 DEF EndScan, EndWrite, UnlockEnd, Close, StageCall, ThreadsOK
  <2>2. pc'[t] \notin {"scan", "write", "append"} /\ ~Shifting(t)'
    BY <2>1 DEF Shifting
  <2>3. \/ UNCHANGED lock
        \/ \E range \in SUBSET Slots :
             lock' = SetLock(lock, Proc(t), OpenFile(t), "none", range)
    <3>1. CASE EndScan(t)
      BY <3>1 DEF EndScan, Relock, WholeFile
    <3>2. CASE EndWrite(t)
      BY <1>1, <3>2, Ranges DEF EndWrite, Relock, ThreadsOK
    <3>3. CASE UnlockEnd(t)
      <4>1. Len(Contents(t)) \in Nat
        BY Located DEF LockInv, TypeInv, TypeOK, FilesOK, Contents
      <4>2. Len(Contents(t)) > 0 => Len(Contents(t)) - 1 \in Nat
        BY <4>1
      <4> QED
        BY <3>3, <4>2, Ranges DEF UnlockEnd, Relock
    <3>4. CASE Close(t)
      BY <3>4 DEF Close, DropLocks
    <3> QED
      BY <1>8, <3>1, <3>2, <3>3, <3>4
  <2> QED
    BY <2>1, <2>2, <2>3, KeepsLocks, DropsLocks
<1> QED
  BY <1>2, <1>3, <1>4, <1>5, <1>6, <1>7, <1>8 DEF Step

LEMMA CallLocks ==
  ASSUME LockInv, NEW t \in Threads, Call(t), TypeInv' PROVE LockInv'
<1>1. PICK o \in Ops : Invoke(t, o)
  BY DEF Call
<1>2. pc'[t] \in {"newid", "size", "lock"}
  BY <1>1 DEF Invoke, Begin, FirstCall, LockInv, TypeInv, TypeOK, ThreadsOK
<1>3. ~Shifting(t)'
  BY <1>2 DEF Shifting
<1>4. UNCHANGED lock /\ \A u \in Threads \ {t} :
         /\ pc'[u] = pc[u] /\ op'[u] = op[u] /\ stage'[u] = stage[u]
  BY <1>1 DEF Invoke, Begin, LockInv, TypeInv, TypeOK, ThreadsOK
<1> QED
  BY <1>2, <1>3, <1>4, KeepsLocks

\* The kernel drops the locks of a process that dies, and its thread with them.
LEMMA CrashLocks ==
  ASSUME LockInv, NEW p \in Procs, Crash(p), TypeInv' PROVE LockInv'
<1>1. /\ \A q \in Procs \ {p} : lock'[q] = lock[q]
      /\ \A f \in Files : \A s \in Slots : lock'[p][f][s] = "none"
  BY DEF Crash, NoLocks, LockInv, TypeInv, TypeOK, KernelOK
<1>2. Exclusive'
  BY <1>1 DEF LockInv, Exclusive
<1>3. ASSUME NEW t \in Threads PROVE Holds(t)'
  <2>1. CASE Proc(t) = p
    <3>1. pc'[t] = "idle"
      BY <2>1 DEF Crash
    <3> QED
      BY <3>1 DEF Holds, Writing, Shifting
  <2>2. CASE Proc(t) # p
    <3>1. /\ lock'[Proc(t)] = lock[Proc(t)] /\ pc'[t] = pc[t] /\ op'[t] = op[t]
          /\ stage'[t] = stage[t]
      BY <1>1, <2>2, Located DEF Crash
    <3>2. OpenFile(t)' = OpenFile(t) /\ Proc(t)' = Proc(t) /\ Holds(t)
      BY <3>1 DEF OpenFile, Proc, LockInv
    <3> QED
      BY <3>1, <3>2 DEF Holds, Writing, Shifting
  <2> QED
    BY <2>1, <2>2
<1>4. OneThreadPerProcess'
  BY DEF LockInv, OneThreadPerProcess, Proc
<1> QED
  BY <1>2, <1>3, <1>4 DEF LockInv

LEMMA InitLocks == OneThreadPerProcess /\ Init => LockInv
<1> SUFFICES ASSUME OneThreadPerProcess, Init PROVE LockInv
  OBVIOUS
<1>1. Exclusive
  BY DEF Init, NoLocks, Exclusive
<1>2. \A t \in Threads : Holds(t)
  BY DEF Init, Holds, Writing, Shifting
<1> QED
  BY <1>1, <1>2, InitType DEF LockInv

LEMMA NextLocks == LockInv /\ [Next]_vars => LockInv'
<1> SUFFICES ASSUME LockInv, [Next]_vars PROVE LockInv'
  OBVIOUS
<1>1. TypeInv'
  BY NextType DEF LockInv
<1>2. ASSUME UNCHANGED <<lock, pc, op, stage>> PROVE LockInv'
  BY <1>1, <1>2
     DEF LockInv, OneThreadPerProcess, Proc, Exclusive, Holds, Writing, Shifting, OpenFile
<1>3. ASSUME NEW p \in Procs, InitCounter(p) PROVE LockInv'
  BY <1>2, <1>3 DEF InitCounter, local
<1> QED
  BY <1>1, <1>2, <1>3, StepLocks, CallLocks, CrashLocks
     DEF Next, Finished, vars, local

(***************************************************************************)
(* The theorems.                                                           *)
(***************************************************************************)

\* Two processes never copy down the tail of one file at the same time: whatever
\* record each of them found, both have to lock the last slot.
THEOREM ShiftsAreApart == OneThreadPerProcess /\ Spec => []OneShiftAtATime
<1>1. LockInv => OneShiftAtATime
  <2> SUFFICES ASSUME LockInv, NEW t \in Threads, NEW u \in Threads, t # u,
                      Shifting(t), Shifting(u), OpenFile(t) = OpenFile(u)
               PROVE  FALSE
    BY DEF OneShiftAtATime
  <2>1. /\ lock[Proc(t)][OpenFile(t)][MaxSlot] = "wr"
        /\ lock[Proc(u)][OpenFile(t)][MaxSlot] = "wr"
    BY DEF LockInv, Holds
  <2>2. Proc(t) # Proc(u)
    BY DEF LockInv, OneThreadPerProcess
  <2> QED
    BY <2>1, <2>2, Located, Ranges DEF LockInv, Exclusive
<1> QED
  BY InitLocks, NextLocks, <1>1, PTL DEF Spec

FrozenStep ==
  \A t \in Threads : pc[t] = "scan" => file'[OpenFile(t)] = file[OpenFile(t)]

\* No step writes a file that some process is reading record by record: each of
\* the writers needs a write lock on a part of it, the reader has locked it all.
THEOREM ScansAreStable == OneThreadPerProcess /\ Spec => ScanSeesFrozenFile
<1>1. LockInv /\ [Next]_vars => [FrozenStep]_vars
  <2> SUFFICES ASSUME LockInv, [Next]_vars, NEW t \in Threads, pc[t] = "scan"
               PROVE  file'[OpenFile(t)] = file[OpenFile(t)]
    BY DEF FrozenStep
  <2>1. FilesOK /\ OpenFile(t) \in Files
    BY Located DEF LockInv, TypeInv, TypeOK
  <2>2. ASSUME NEW u \in Threads,
               Overwrite(u) \/ ShiftWrite(u) \/ Truncate(u) \/ AppendRecord(u)
        PROVE  file'[OpenFile(t)] = file[OpenFile(t)]
    <3>1. Writing(u) /\ pc[u] # "scan"
      BY <2>2
         DEF Overwrite, ShiftWrite, Truncate, AppendRecord, Goto, Writing, Shifting
    <3>2. OpenFile(u) # OpenFile(t)
      <4> SUFFICES ASSUME OpenFile(u) = OpenFile(t) PROVE FALSE
        OBVIOUS
      <4>1. PICK s \in Slots : lock[Proc(u)][OpenFile(t)][s] = "wr"
        BY <3>1 DEF LockInv, Holds
      <4>2. lock[Proc(t)][OpenFile(t)][s] = "rd"
        BY DEF LockInv, Holds
      <4>3. Proc(u) # Proc(t)
        BY <3>1 DEF LockInv, OneThreadPerProcess
      <4> QED
        BY <2>1, <4>1, <4>2, <4>3, Located DEF LockInv, Exclusive
    <3> QED
      BY <2>1, <2>2, <3>2
         DEF Overwrite, ShiftWrite, Truncate, Cut, AppendRecord, SetFile, FilesOK
  <2>3. ASSUME NEW u \in Threads, Quiet(u) \/ LockRecord(u) \/ NewId(u) \/ Call(u)
        PROVE  UNCHANGED file
    BY <2>3
       DEF Quiet, BeginScan, ReadHit, ReadMiss, ReadInto, ReadEOF, EndScan,
           OverwriteFails, LockTail, ShiftRead, ShiftWriteFails, ShiftEOF,
           SeekLast, EndWrite, OpenForAppend, LockEnd, AppendFails, UnlockEnd,
           SeekSize, Close, OpenFails, LockRecord, NewId, Call, Invoke, disk, local
  <2>4. ASSUME NEW p \in Procs, InitCounter(p) \/ Crash(p) PROVE UNCHANGED file
    BY <2>4 DEF InitCounter, Crash
  <2>5. ASSUME UNCHANGED vars PROVE UNCHANGED file
    BY <2>5 DEF vars, disk
  <2> QED
    BY <2>2, <2>3, <2>4, <2>5 DEF Next, Step, Quiet, Finished
<1> QED
  BY InitLocks, NextLocks, <1>1, PTL DEF Spec, ScanSeesFrozenFile, FrozenStep
=============================================================================
