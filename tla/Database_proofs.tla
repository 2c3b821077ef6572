-------------------------- MODULE Database_proofs --------------------------
(***************************************************************************)
(* Proofs about Database, for any threads, processes, calls and contents   *)
(* of the files.                                                           *)
(***************************************************************************)
EXTENDS Database, TLAPS

(***************************************************************************)
(* Files.                                                                  *)
(***************************************************************************)

\* A hole is a record like the others.
LEMMA ZeroRecType == \A f \in Files : ZeroRec(f) \in RecOf(f)
<1>1. ZeroRec("user") \in RecOf("user")
  BY DEF ZeroRec, RecOf, UserRec
<1>2. ZeroRec("account") \in RecOf("account")
  BY DEF ZeroRec, RecOf, AccountRec
<1>3. ZeroRec("trans") \in RecOf("trans")
  BY DEF ZeroRec, RecOf, TransRec
<1> QED
  BY <1>1, <1>2, <1>3 DEF Files

\* Every kind of record has an id, which is a natural number.
LEMMA RecIds ==
  /\ \A f \in Files : \A r \in RecOf(f) : r.id \in Nat
  /\ \A f \in Files : ZeroRec(f).id = 0
BY DEF Files, ZeroRec, RecOf, UserRec, AccountRec, TransRec

\* The records of any one file are records.
LEMMA RecOfIsRec == \A f \in Files : RecOf(f) \subseteq Rec
BY DEF Files, RecOf, Rec

\* write() puts one record at its position and otherwise keeps what there was
\* or leaves a hole.
LEMMA WriteAtProperties ==
  ASSUME NEW S, NEW s \in Seq(S), NEW p \in Int, NEW r \in S, NEW z \in S
  PROVE  /\ WriteAt(s, p, r, z) \in Seq(S)
         /\ \A i \in DOMAIN WriteAt(s, p, r, z) :
               \/ WriteAt(s, p, r, z)[i] \in {r, z}
               \/ i \in DOMAIN s /\ WriteAt(s, p, r, z)[i] = s[i]
<1> DEFINE n == IF p < Len(s) THEN Len(s) ELSE p + 1
<1>1. n \in Nat
  OBVIOUS
<1>2. \A i \in 1 .. n : \/ i \in DOMAIN s
                        \/ ~(i <= Len(s))
  OBVIOUS
<1>3. WriteAt(s, p, r, z) =
        [i \in 1 .. n |-> IF i = p + 1 THEN r ELSE IF i <= Len(s) THEN s[i] ELSE z]
  BY DEF WriteAt
<1> HIDE DEF n
<1> QED
  BY <1>1, <1>2, <1>3

\* ftruncate() keeps a prefix, or leaves a hole behind what there was.
LEMMA ResizeProperties ==
  ASSUME NEW S, NEW s \in Seq(S), NEW n \in Nat, NEW z \in S
  PROVE  /\ Resize(s, n, z) \in Seq(S)
         /\ \A i \in DOMAIN Resize(s, n, z) :
               \/ Resize(s, n, z)[i] = z
               \/ i \in DOMAIN s /\ Resize(s, n, z)[i] = s[i]
<1>1. \A i \in 1 .. n : i <= Len(s) => i \in DOMAIN s
  OBVIOUS
<1> QED
  BY <1>1 DEF Resize
(***************************************************************************)
(* Type correctness.  TypeOK is not inductive: that a record is in hand,   *)
(* and that its position is one, depends on where in the call a thread is. *)
(***************************************************************************)

AppendPCs == {"newid", "aopen", "alock", "append", "aunlock"}

Control(t) ==
  /\ pc[t] \in {"idle", "lock", "scan"} => iter[t] = NoRec
  /\ pc[t] \in {"scan", "unlock", "wlock", "write", "shift", "shiftw"} =>
       cur[t] >= 0
  /\ pc[t] = "unlock" /\ iter[t] # NoRec => cur[t] >= 1
  /\ pc[t] \in {"wlock", "write", "shiftw"} => cur[t] >= 1 /\ iter[t] # NoRec
  /\ pc[t] \in {"wlock", "write"} \/ Shifting(t) =>
       WritesInPlace(op[t].fn, stage[t])
  /\ pc[t] = "write" => op[t].fn \in Updates
  /\ Shifting(t) => op[t].fn \in Deletes
  /\ pc[t] \in AppendPCs => /\ op[t].fn \in Creates /\ stage[t] = 3
                            /\ iter[t] = NoRec
  /\ pc[t] = "size" => op[t].fn \in Counts

TypeInv == TypeOK /\ \A t \in Threads : Control(t)

LEMMA InitType == Init => TypeInv
<1> SUFFICES ASSUME Init PROVE TypeInv
  OBVIOUS
<1>1. FilesOK
  BY InitFilesAssumption DEF Init, FilesOK
<1>2. KernelOK /\ ThreadsOK /\ crashes \in Nat
  BY DEF Init, KernelOK, ThreadsOK, NoLocks, LockTypes, PCs, Files
<1>3. OpOk(NoOp)
  BY ZeroRecType
     DEF NoOp, OpOk, Fns, Counts, TableOf, UserFns, Files
<1>4. \A t \in Threads : CallOK(t)
  BY <1>3 DEF Init, CallOK
<1>5. \A t \in Threads : Control(t)
  BY DEF Init, Control, Shifting, AppendPCs
<1> QED
  BY <1>1, <1>2, <1>4, <1>5 DEF TypeInv, TypeOK

\* What an action of thread t has to keep: the other threads look after
\* themselves.
LEMMA OthersKeepTypes ==
  ASSUME TypeInv, NEW t \in Threads,
         FilesOK', KernelOK', ThreadsOK', crashes' \in Nat,
         \A u \in Threads \ {t} :
            /\ pc'[u] = pc[u] /\ op'[u] = op[u] /\ stage'[u] = stage[u]
            /\ cur'[u] = cur[u] /\ iter'[u] = iter[u] /\ out'[u] = out[u],
         CallOK(t)', Control(t)'
  PROVE  TypeInv'
<1>1. \A u \in Threads : CallOK(u)'
  BY DEF TypeInv, TypeOK, CallOK, OpenFile
<1>2. \A u \in Threads : Control(u)'
  BY DEF TypeInv, Control, Shifting
<1> QED
  BY <1>1, <1>2 DEF TypeInv, TypeOK

\* Taking and dropping locks.
LEMMA SetLockType ==
  ASSUME KernelOK, NEW p \in Procs, NEW f \in Files, NEW type \in LockTypes,
         NEW range, lock' = SetLock(lock, p, f, type, range),
         UNCHANGED <<ctr, boot>>
  PROVE  KernelOK'
BY DEF KernelOK, SetLock

\* Where a thread is at work.
LEMMA Located ==
  ASSUME NEW t \in Threads PROVE OpenFile(t) \in Files /\ Proc(t) \in Procs
BY ProcOfAssumption DEF OpenFile, FileAt, TableOf, Files, Proc

\* A record keeps its type when it gets an id.
LEMMA WithIdType ==
  ASSUME NEW f \in Files, NEW r \in RecOf(f), NEW n \in Nat
  PROVE  [r EXCEPT !.id = n] \in RecOf(f) /\ [r EXCEPT !.id = n].id = n
<1>1. CASE f = "user"
  BY <1>1 DEF RecOf, UserRec
<1>2. CASE f = "account"
  BY <1>2 DEF RecOf, AccountRec
<1>3. CASE f = "trans"
  BY <1>3 DEF RecOf, TransRec
<1> QED
  BY <1>1, <1>2, <1>3 DEF Files

LEMMA BeginScanType ==
  ASSUME TypeInv, NEW t \in Threads, BeginScan(t) PROVE TypeInv'
<1> USE DEF TypeInv, TypeOK, BeginScan, Goto, disk, local, bounds
<1>1. OpenFile(t) \in Files /\ Proc(t) \in Procs
  BY Located
<1>2. FilesOK' /\ KernelOK'
  BY <1>1, SetLockType DEF Relock, LockTypes, FilesOK
<1>3. ThreadsOK'
  BY DEF ThreadsOK, PCs
<1>4. CallOK(t)'
  BY <1>1 DEF CallOK, OpenFile, ThreadsOK
<1>5. Control(t)'
  BY DEF Control, ThreadsOK, Shifting, AppendPCs
<1> QED
  BY <1>2, <1>3, <1>4, <1>5, OthersKeepTypes DEF ThreadsOK

LEMMA ReadHitType ==
  ASSUME TypeInv, NEW t \in Threads, ReadHit(t) PROVE TypeInv'
<1> USE DEF TypeInv, TypeOK, ReadHit, Goto, disk, local, bounds
<1>1. OpenFile(t) \in Files /\ Proc(t) \in Procs
  BY Located
<1>r. Contents(t)[cur[t] + 1] \in RecOf(OpenFile(t)) /\ cur[t] >= 0
  BY <1>1 DEF Contents, FilesOK, ThreadsOK, Control
<1>n. Contents(t)[cur[t] + 1] # NoRec
  BY <1>1, <1>r, NoRecAssumption
<1>2. FilesOK' /\ KernelOK'
  BY DEF FilesOK, KernelOK
<1>3. ThreadsOK'
  BY DEF ThreadsOK, PCs
<1>4. CallOK(t)'
  BY <1>1, <1>r DEF CallOK, OpenFile, ThreadsOK
<1>5. Control(t)'
  BY <1>r, <1>n DEF Control, ThreadsOK, Shifting, AppendPCs
<1> QED
  BY <1>2, <1>3, <1>4, <1>5, OthersKeepTypes DEF ThreadsOK

LEMMA ReadMissType ==
  ASSUME TypeInv, NEW t \in Threads, ReadMiss(t) PROVE TypeInv'
<1> USE DEF TypeInv, TypeOK, ReadMiss, Goto, disk, local, bounds
<1>1. OpenFile(t) \in Files /\ Proc(t) \in Procs
  BY Located
<1>2. FilesOK' /\ KernelOK'
  BY DEF FilesOK, KernelOK
<1>3. ThreadsOK'
  BY DEF ThreadsOK, PCs
<1>4. CallOK(t)'
  BY <1>1 DEF CallOK, OpenFile, ThreadsOK
<1>5. Control(t)'
  BY DEF Control, ThreadsOK, Shifting, AppendPCs
<1> QED
  BY <1>2, <1>3, <1>4, <1>5, OthersKeepTypes DEF ThreadsOK

LEMMA ReadIntoType ==
  ASSUME TypeInv, NEW t \in Threads, ReadInto(t) PROVE TypeInv'
<1> USE DEF TypeInv, TypeOK, ReadInto, Goto, disk, local, bounds
<1>1. OpenFile(t) \in Files /\ Proc(t) \in Procs
  BY Located
<1>r. Contents(t)[cur[t] + 1] \in Rec /\ cur[t] >= 0
  BY <1>1, RecOfIsRec DEF Contents, FilesOK, ThreadsOK, Control
<1>2. FilesOK' /\ KernelOK'
  BY DEF FilesOK, KernelOK
<1>3. ThreadsOK'
  BY DEF ThreadsOK, PCs
<1>4. CallOK(t)'
  BY <1>r DEF CallOK, OpenFile, ThreadsOK
<1>5. Control(t)'
  BY DEF Control, ThreadsOK, Shifting, AppendPCs
<1> QED
  BY <1>2, <1>3, <1>4, <1>5, OthersKeepTypes DEF ThreadsOK

LEMMA ReadEOFType ==
  ASSUME TypeInv, NEW t \in Threads, ReadEOF(t) PROVE TypeInv'
<1> USE DEF TypeInv, TypeOK, ReadEOF, Goto, disk, local, bounds
<1>1. OpenFile(t) \in Files /\ Proc(t) \in Procs
  BY Located
<1>2. FilesOK' /\ KernelOK'
  BY DEF FilesOK, KernelOK
<1>3. ThreadsOK'
  BY DEF ThreadsOK, PCs
<1>4. CallOK(t)'
  BY <1>1 DEF CallOK, OpenFile, ThreadsOK
<1>5. Control(t)'
  BY DEF Control, ThreadsOK, Shifting, AppendPCs
<1> QED
  BY <1>2, <1>3, <1>4, <1>5, OthersKeepTypes DEF ThreadsOK

LEMMA EndScanType ==
  ASSUME TypeInv, NEW t \in Threads, EndScan(t) PROVE TypeInv'
<1> USE DEF TypeInv, TypeOK, EndScan, Goto, disk, local, bounds
<1>1. OpenFile(t) \in Files /\ Proc(t) \in Procs
  BY Located
<1>s. ScanStatus(op[t], stage[t], iter[t] # NoRec, Len(out[t])) \in Int
  BY DEF ScanStatus, CallOK, ECONFLICT, ENOTFOUND
<1>2. FilesOK' /\ KernelOK'
  BY <1>1, SetLockType DEF Relock, LockTypes, FilesOK
<1>3. ThreadsOK'
  BY <1>s DEF ThreadsOK, PCs
<1>4. CallOK(t)'
  BY <1>1 DEF CallOK, OpenFile, ThreadsOK
<1>5. Control(t)'
  BY DEF Control, ThreadsOK, Shifting, AppendPCs
<1> QED
  BY <1>2, <1>3, <1>4, <1>5, OthersKeepTypes DEF ThreadsOK

LEMMA LockRecordType ==
  ASSUME TypeInv, NEW t \in Threads, LockRecord(t) PROVE TypeInv'
<1> USE DEF TypeInv, TypeOK, LockRecord, Goto, disk, local, bounds
<1>1. OpenFile(t) \in Files /\ Proc(t) \in Procs
  BY Located
<1>p. Position(t) \in Nat
  BY DEF Position, Control, ThreadsOK
<1>o. op'[t] = IF op[t].fn = "update_user"
               THEN WithRec(op[t], KeepNames(op[t].rec, iter[t])) ELSE op[t]
  BY DEF ThreadsOK
<1>f. op'[t].fn = op[t].fn
  BY <1>o DEF WithRec
<1>u. ASSUME op[t].fn = "update_user"
      PROVE  OpOk(WithRec(op[t], KeepNames(op[t].rec, iter[t])))
  <2>1. OpenFile(t) = "user" /\ TableOf(op[t].fn) = "user"
    BY <1>u DEF OpenFile, FileAt, TableOf, UserFns
  <2>2. op[t].rec \in UserRec /\ iter[t] \in UserRec
    <3>1. OpOk(op[t]) /\ iter[t] \in RecOf("user") /\ RecOf("user") = UserRec
      BY <2>1 DEF CallOK, Control, RecOf
    <3> QED
      BY <2>1, <3>1 DEF OpOk
  <2>3. KeepNames(op[t].rec, iter[t]) \in UserRec
    BY <2>2 DEF UserRec, KeepNames
  <2>4. RecOf(TableOf(op[t].fn)) = UserRec
    BY <2>1 DEF RecOf
  <2> QED
    BY <2>3, <2>4 DEF OpOk, CallOK, WithRec
<1>2. FilesOK' /\ KernelOK'
  BY <1>1, SetLockType DEF Relock, LockTypes, FilesOK
<1>3. ThreadsOK'
  BY <1>p DEF ThreadsOK, PCs
<1>4. CallOK(t)'
  <2>1. OpOk(op[t])'
    BY <1>o, <1>u DEF CallOK
  <2> QED
    BY <2>1, <1>f DEF CallOK, OpenFile
<1>5. Control(t)'
  BY <1>f DEF Control, ThreadsOK, Shifting, AppendPCs
<1> QED
  BY <1>2, <1>3, <1>4, <1>5, OthersKeepTypes DEF ThreadsOK

LEMMA OverwriteType ==
  ASSUME TypeInv, NEW t \in Threads, Overwrite(t) PROVE TypeInv'
<1> USE DEF TypeInv, TypeOK, Overwrite, Goto, disk, local, bounds
<1>1. OpenFile(t) \in Files /\ Proc(t) \in Procs
  BY Located
<1>r. Contents(t) \in Seq(RecOf(OpenFile(t)))
  BY <1>1 DEF Contents, FilesOK
<1>w. WriteAt(Contents(t), Position(t), op[t].rec, ZeroRec(OpenFile(t))) \in Seq(RecOf(OpenFile(t)))
  <2>1. op[t].rec \in RecOf(OpenFile(t))
    BY DEF CallOK, OpOk, Control, OpenFile, FileAt, Updates
  <2>2. Position(t) \in Int
    BY DEF Position, ThreadsOK
  <2> QED
    BY <1>1, <1>r, <2>1, <2>2, ZeroRecType, WriteAtProperties
<1>2. FilesOK' /\ KernelOK'
  BY <1>1, <1>w DEF FilesOK, KernelOK, SetFile
<1>3. ThreadsOK'
  BY DEF ThreadsOK, PCs
<1>4. CallOK(t)'
  BY <1>1 DEF CallOK, OpenFile, ThreadsOK
<1>5. Control(t)'
  BY DEF Control, ThreadsOK, Shifting, AppendPCs
<1> QED
  BY <1>2, <1>3, <1>4, <1>5, OthersKeepTypes DEF ThreadsOK

LEMMA OverwriteFailsType ==
  ASSUME TypeInv, NEW t \in Threads, OverwriteFails(t) PROVE TypeInv'
<1> USE DEF TypeInv, TypeOK, OverwriteFails, Goto, disk, local, bounds, ReportFailure
<1>1. OpenFile(t) \in Files /\ Proc(t) \in Procs
  BY Located
<1>2. FilesOK' /\ KernelOK'
  BY DEF FilesOK, KernelOK
<1>3. ThreadsOK'
  BY DEF ThreadsOK, PCs, EFAIL, ECONFLICT
<1>4. CallOK(t)'
  BY <1>1 DEF CallOK, OpenFile, ThreadsOK
<1>5. Control(t)'
  BY DEF Control, ThreadsOK, Shifting, AppendPCs
<1> QED
  BY <1>2, <1>3, <1>4, <1>5, OthersKeepTypes DEF ThreadsOK

LEMMA LockTailType ==
  ASSUME TypeInv, NEW t \in Threads, LockTail(t) PROVE TypeInv'
<1> USE DEF TypeInv, TypeOK, LockTail, Goto, disk, local, bounds
<1>1. OpenFile(t) \in Files /\ Proc(t) \in Procs
  BY Located
<1>c. cur[t] \in Nat
  BY DEF Control, ThreadsOK
<1>2. FilesOK' /\ KernelOK'
  BY <1>1, SetLockType DEF Relock, LockTypes, FilesOK
<1>3. ThreadsOK'
  BY <1>c DEF ThreadsOK, PCs
<1>4. CallOK(t)'
  BY <1>1 DEF CallOK, OpenFile, ThreadsOK
<1>5. Control(t)'
  BY DEF Control, ThreadsOK, Shifting, AppendPCs
<1> QED
  BY <1>2, <1>3, <1>4, <1>5, OthersKeepTypes DEF ThreadsOK

LEMMA ShiftReadType ==
  ASSUME TypeInv, NEW t \in Threads, ShiftRead(t) PROVE TypeInv'
<1> USE DEF TypeInv, TypeOK, ShiftRead, Goto, disk, local, bounds
<1>1. OpenFile(t) \in Files /\ Proc(t) \in Procs
  BY Located
<1>r. Contents(t)[cur[t] + 1] \in RecOf(OpenFile(t)) /\ cur[t] >= 0
  BY <1>1 DEF Contents, FilesOK, ThreadsOK, Control
<1>n. Contents(t)[cur[t] + 1] # NoRec
  BY <1>1, <1>r, NoRecAssumption
<1>2. FilesOK' /\ KernelOK'
  BY DEF FilesOK, KernelOK
<1>3. ThreadsOK'
  BY DEF ThreadsOK, PCs
<1>4. CallOK(t)'
  BY <1>1, <1>r DEF CallOK, OpenFile, ThreadsOK
<1>5. Control(t)'
  BY <1>r, <1>n DEF Control, ThreadsOK, Shifting, AppendPCs
<1> QED
  BY <1>2, <1>3, <1>4, <1>5, OthersKeepTypes DEF ThreadsOK

LEMMA ShiftWriteType ==
  ASSUME TypeInv, NEW t \in Threads, ShiftWrite(t) PROVE TypeInv'
<1> USE DEF TypeInv, TypeOK, ShiftWrite, Goto, disk, local, bounds, AfterShift
<1>1. OpenFile(t) \in Files /\ Proc(t) \in Procs
  BY Located
<1>r. Contents(t) \in Seq(RecOf(OpenFile(t)))
  BY <1>1 DEF Contents, FilesOK
<1>w. WriteAt(Contents(t), ShiftTarget(t), iter[t], ZeroRec(OpenFile(t))) \in Seq(RecOf(OpenFile(t)))
  <2>1. iter[t] \in RecOf(OpenFile(t)) /\ ShiftTarget(t) \in Int
    BY DEF CallOK, Control, ThreadsOK, ShiftTarget
  <2> QED
    BY <1>1, <1>r, <2>1, ZeroRecType, WriteAtProperties
<1>2. FilesOK' /\ KernelOK'
  BY <1>1, <1>w DEF FilesOK, KernelOK, SetFile
<1>3. ThreadsOK'
  BY DEF ThreadsOK, PCs
<1>4. CallOK(t)'
  BY <1>1 DEF CallOK, OpenFile, ThreadsOK
<1>5. Control(t)'
  BY DEF Control, ThreadsOK, Shifting, AppendPCs
<1> QED
  BY <1>2, <1>3, <1>4, <1>5, OthersKeepTypes DEF ThreadsOK

LEMMA ShiftWriteFailsType ==
  ASSUME TypeInv, NEW t \in Threads, ShiftWriteFails(t) PROVE TypeInv'
<1> USE DEF TypeInv, TypeOK, ShiftWriteFails, Goto, disk, local, bounds
<1>1. OpenFile(t) \in Files /\ Proc(t) \in Procs
  BY Located
<1>2. FilesOK' /\ KernelOK'
  BY DEF FilesOK, KernelOK
<1>3. ThreadsOK'
  BY DEF ThreadsOK, PCs
<1>4. CallOK(t)'
  BY <1>1 DEF CallOK, OpenFile, ThreadsOK
<1>5. Control(t)'
  BY DEF Control, ThreadsOK, Shifting, AppendPCs
<1> QED
  BY <1>2, <1>3, <1>4, <1>5, OthersKeepTypes DEF ThreadsOK

LEMMA ShiftEOFType ==
  ASSUME TypeInv, NEW t \in Threads, ShiftEOF(t) PROVE TypeInv'
<1> USE DEF TypeInv, TypeOK, ShiftEOF, Goto, disk, local, bounds
<1>1. OpenFile(t) \in Files /\ Proc(t) \in Procs
  BY Located
<1>2. FilesOK' /\ KernelOK'
  BY DEF FilesOK, KernelOK
<1>3. ThreadsOK'
  BY DEF ThreadsOK, PCs
<1>4. CallOK(t)'
  BY <1>1 DEF CallOK, OpenFile, ThreadsOK
<1>5. Control(t)'
  BY DEF Control, ThreadsOK, Shifting, AppendPCs
<1> QED
  BY <1>2, <1>3, <1>4, <1>5, OthersKeepTypes DEF ThreadsOK

LEMMA SeekLastType ==
  ASSUME TypeInv, NEW t \in Threads, SeekLast(t) PROVE TypeInv'
<1> USE DEF TypeInv, TypeOK, SeekLast, Goto, disk, local, bounds
<1>1. OpenFile(t) \in Files /\ Proc(t) \in Procs
  BY Located
<1>r. Contents(t) \in Seq(RecOf(OpenFile(t)))
  BY <1>1 DEF Contents, FilesOK
<1>2. FilesOK' /\ KernelOK'
  BY DEF FilesOK, KernelOK
<1>3. ThreadsOK'
  BY <1>r DEF ThreadsOK, PCs
<1>4. CallOK(t)'
  BY <1>1 DEF CallOK, OpenFile, ThreadsOK
<1>5. Control(t)'
  BY DEF Control, ThreadsOK, Shifting, AppendPCs
<1> QED
  BY <1>2, <1>3, <1>4, <1>5, OthersKeepTypes DEF ThreadsOK

LEMMA TruncateType ==
  ASSUME TypeInv, NEW t \in Threads, Truncate(t) PROVE TypeInv'
<1> USE DEF TypeInv, TypeOK, Truncate, Cut, Goto, disk, local, bounds
<1>1. OpenFile(t) \in Files /\ Proc(t) \in Procs
  BY Located
<1>r. Contents(t) \in Seq(RecOf(OpenFile(t)))
  BY <1>1 DEF Contents, FilesOK
<1>w. cur[t] >= 0 => Resize(Contents(t), cur[t], ZeroRec(OpenFile(t)))
                       \in Seq(RecOf(OpenFile(t)))
  BY <1>1, <1>r, ZeroRecType, ResizeProperties DEF ThreadsOK
<1>2. FilesOK' /\ KernelOK'
  <2>1. CASE cur[t] >= 0
    BY <1>1, <1>w, <2>1 DEF FilesOK, KernelOK, SetFile
  <2>2. CASE ~(cur[t] >= 0)
    BY <2>2 DEF FilesOK, KernelOK
  <2> QED
    BY <2>1, <2>2
<1>3. ThreadsOK'
  BY DEF ThreadsOK, PCs
<1>4. CallOK(t)'
  BY <1>1 DEF CallOK, OpenFile, ThreadsOK
<1>5. Control(t)'
  BY DEF Control, ThreadsOK, Shifting, AppendPCs
<1> QED
  BY <1>2, <1>3, <1>4, <1>5, OthersKeepTypes DEF ThreadsOK

LEMMA EndWriteType ==
  ASSUME TypeInv, NEW t \in Threads, EndWrite(t) PROVE TypeInv'
<1> USE DEF TypeInv, TypeOK, EndWrite, Goto, disk, local, bounds
<1>1. OpenFile(t) \in Files /\ Proc(t) \in Procs
  BY Located
<1>2. FilesOK' /\ KernelOK'
  BY <1>1, SetLockType DEF Relock, LockTypes, FilesOK
<1>3. ThreadsOK'
  BY DEF ThreadsOK, PCs
<1>4. CallOK(t)'
  BY <1>1 DEF CallOK, OpenFile, ThreadsOK
<1>5. Control(t)'
  BY DEF Control, ThreadsOK, Shifting, AppendPCs
<1> QED
  BY <1>2, <1>3, <1>4, <1>5, OthersKeepTypes DEF ThreadsOK

LEMMA NewIdType ==
  ASSUME TypeInv, NEW t \in Threads, NewId(t) PROVE TypeInv'
<1> USE DEF NextId, TypeInv, TypeOK, NewId, Goto, disk, local, bounds
<1>1. OpenFile(t) \in Files /\ Proc(t) \in Procs
  BY Located
<1>n. ctr[Proc(t)][OpenFile(t)] + 1 \in Nat
  BY <1>1 DEF KernelOK
<1>o. /\ op'[t] = WithRec(op[t], [op[t].rec EXCEPT
                                     !.id = ctr[Proc(t)][OpenFile(t)] + 1])
      /\ op'[t].fn = op[t].fn
  BY DEF ThreadsOK, WithRec
<1>k. ctr' \in [Procs -> [Files -> Nat]]
  BY <1>1, <1>n DEF KernelOK
<1>2. FilesOK' /\ KernelOK'
  BY <1>k DEF FilesOK, KernelOK
<1>3. ThreadsOK'
  BY DEF ThreadsOK, PCs
<1>4. CallOK(t)'
  <2>1. TableOf(op[t].fn) \in Files /\ OpOk(op[t])
    BY DEF TableOf, Files, CallOK
  <2>2. [op[t].rec EXCEPT !.id = ctr[Proc(t)][OpenFile(t)] + 1]
          \in RecOf(TableOf(op[t].fn))
    BY <2>1, <1>n, WithIdType DEF OpOk
  <2>3. OpOk(op'[t])
    BY <1>o, <2>1, <2>2 DEF OpOk, WithRec
  <2> QED
    BY <1>o, <2>3 DEF CallOK, OpenFile
<1>5. Control(t)'
  BY <1>o DEF Control, ThreadsOK, Shifting, AppendPCs
<1> QED
  BY <1>2, <1>3, <1>4, <1>5, OthersKeepTypes DEF ThreadsOK

LEMMA OpenForAppendType ==
  ASSUME TypeInv, NEW t \in Threads, OpenForAppend(t) PROVE TypeInv'
<1> USE DEF TypeInv, TypeOK, OpenForAppend, Goto, disk, local, bounds
<1>1. OpenFile(t) \in Files /\ Proc(t) \in Procs
  BY Located
<1>r. Contents(t) \in Seq(RecOf(OpenFile(t)))
  BY <1>1 DEF Contents, FilesOK
<1>2. FilesOK' /\ KernelOK'
  BY DEF FilesOK, KernelOK
<1>3. ThreadsOK'
  BY <1>r DEF ThreadsOK, PCs
<1>4. CallOK(t)'
  BY <1>1 DEF CallOK, OpenFile, ThreadsOK
<1>5. Control(t)'
  BY DEF Control, ThreadsOK, Shifting, AppendPCs
<1> QED
  BY <1>2, <1>3, <1>4, <1>5, OthersKeepTypes DEF ThreadsOK

LEMMA LockEndType ==
  ASSUME TypeInv, NEW t \in Threads, LockEnd(t) PROVE TypeInv'
<1> USE DEF TypeInv, TypeOK, LockEnd, Goto, disk, local, bounds
<1>1. OpenFile(t) \in Files /\ Proc(t) \in Procs
  BY Located
<1>2. FilesOK' /\ KernelOK'
  BY <1>1, SetLockType DEF Relock, LockTypes, FilesOK
<1>3. ThreadsOK'
  BY DEF ThreadsOK, PCs
<1>4. CallOK(t)'
  BY <1>1 DEF CallOK, OpenFile, ThreadsOK
<1>5. Control(t)'
  BY DEF Control, ThreadsOK, Shifting, AppendPCs
<1> QED
  BY <1>2, <1>3, <1>4, <1>5, OthersKeepTypes DEF ThreadsOK

LEMMA AppendRecordType ==
  ASSUME TypeInv, NEW t \in Threads, AppendRecord(t) PROVE TypeInv'
<1> USE DEF Appended, TypeInv, TypeOK, AppendRecord, Goto, disk, local, bounds
<1>1. OpenFile(t) \in Files /\ Proc(t) \in Procs
  BY Located
<1>r. Contents(t) \in Seq(RecOf(OpenFile(t)))
  BY <1>1 DEF Contents, FilesOK
<1>w. Append(Contents(t), op[t].rec) \in Seq(RecOf(OpenFile(t)))
  <2>1. op[t].fn \in Creates /\ stage[t] = 3
    BY DEF Control, AppendPCs
  <2>2. OpenFile(t) = TableOf(op[t].fn)
    BY <2>1 DEF OpenFile, FileAt, Creates
  <2>3. op[t].rec \in RecOf(OpenFile(t))
    BY <2>2 DEF CallOK, OpOk
  <2> QED
    BY <1>r, <2>3
<1>2. FilesOK' /\ KernelOK'
  BY <1>1, <1>w DEF FilesOK, KernelOK, SetFile
<1>3. ThreadsOK'
  BY DEF ThreadsOK, PCs
<1>4. CallOK(t)'
  BY <1>1 DEF CallOK, OpenFile, ThreadsOK
<1>5. Control(t)'
  BY DEF Control, ThreadsOK, Shifting, AppendPCs
<1> QED
  BY <1>2, <1>3, <1>4, <1>5, OthersKeepTypes DEF ThreadsOK

LEMMA AppendFailsType ==
  ASSUME TypeInv, NEW t \in Threads, AppendFails(t) PROVE TypeInv'
<1> USE DEF TypeInv, TypeOK, AppendFails, Goto, disk, local, bounds, ReportFailure
<1>1. OpenFile(t) \in Files /\ Proc(t) \in Procs
  BY Located
<1>2. FilesOK' /\ KernelOK'
  BY DEF FilesOK, KernelOK
<1>3. ThreadsOK'
  BY DEF ThreadsOK, PCs, EFAIL, ECONFLICT
<1>4. CallOK(t)'
  BY <1>1 DEF CallOK, OpenFile, ThreadsOK
<1>5. Control(t)'
  BY DEF Control, ThreadsOK, Shifting, AppendPCs
<1> QED
  BY <1>2, <1>3, <1>4, <1>5, OthersKeepTypes DEF ThreadsOK

LEMMA UnlockEndType ==
  ASSUME TypeInv, NEW t \in Threads, UnlockEnd(t) PROVE TypeInv'
<1> USE DEF TypeInv, TypeOK, UnlockEnd, Goto, disk, local, bounds
<1>1. OpenFile(t) \in Files /\ Proc(t) \in Procs
  BY Located
<1>2. FilesOK' /\ KernelOK'
  <2>1. CASE Len(Contents(t)) > 0
    BY <1>1, <2>1, SetLockType DEF Relock, LockTypes, FilesOK
  <2>2. CASE ~(Len(Contents(t)) > 0)
    BY <2>2 DEF FilesOK, KernelOK
  <2> QED
    BY <2>1, <2>2
<1>3. ThreadsOK'
  BY DEF ThreadsOK, PCs
<1>4. CallOK(t)'
  BY <1>1 DEF CallOK, OpenFile, ThreadsOK
<1>5. Control(t)'
  BY DEF Control, ThreadsOK, Shifting, AppendPCs
<1> QED
  BY <1>2, <1>3, <1>4, <1>5, OthersKeepTypes DEF ThreadsOK

LEMMA SeekSizeType ==
  ASSUME TypeInv, NEW t \in Threads, SeekSize(t) PROVE TypeInv'
<1> USE DEF TypeInv, TypeOK, SeekSize, Goto, disk, local, bounds
<1>1. OpenFile(t) \in Files /\ Proc(t) \in Procs
  BY Located
<1>r. Contents(t) \in Seq(RecOf(OpenFile(t)))
  BY <1>1 DEF Contents, FilesOK
<1>2. FilesOK' /\ KernelOK'
  BY DEF FilesOK, KernelOK
<1>3. ThreadsOK'
  BY <1>r DEF ThreadsOK, PCs
<1>4. CallOK(t)'
  BY <1>1 DEF CallOK, OpenFile, ThreadsOK
<1>5. Control(t)'
  BY DEF Control, ThreadsOK, Shifting, AppendPCs
<1> QED
  BY <1>2, <1>3, <1>4, <1>5, OthersKeepTypes DEF ThreadsOK

LEMMA CloseType ==
  ASSUME TypeInv, NEW t \in Threads, Close(t) PROVE TypeInv'
<1> USE DEF TypeInv, TypeOK, Close, Goto, disk, local, bounds
<1>1. OpenFile(t) \in Files /\ Proc(t) \in Procs
  BY Located
<1>s. /\ NextStage(t) \in 1 .. 3
      /\ \/ NextStage(t) = stage[t]
         \/ NextStage(t) = 2
         \/ NextStage(t) = 3 /\ op[t].fn = "create_user"
  BY DEF NextStage, HasNext, ThreadsOK
<1>p. IF NextStage(t) = stage[t] THEN pc'[t] = "done"
      ELSE pc'[t] = IF NextStage(t) = 3 THEN "newid" ELSE "lock"
  BY DEF StageCall, ThreadsOK
<1>2. FilesOK' /\ KernelOK'
  BY <1>1, SetLockType DEF DropLocks, LockTypes, FilesOK
<1>3. ThreadsOK'
  BY <1>s, <1>p DEF ThreadsOK, PCs
<1>4. CallOK(t)'
  <2>1. CASE NextStage(t) = stage[t]
    BY <2>1 DEF CallOK, OpenFile, ThreadsOK
  <2>2. CASE NextStage(t) # stage[t]
    BY <2>2 DEF CallOK, ThreadsOK
  <2> QED
    BY <2>1, <2>2
<1>5. Control(t)'
  BY <1>s, <1>p DEF Control, ThreadsOK, Shifting, AppendPCs, Creates
<1> QED
  BY <1>2, <1>3, <1>4, <1>5, OthersKeepTypes DEF ThreadsOK

LEMMA OpenFailsType ==
  ASSUME TypeInv, NEW t \in Threads, OpenFails(t) PROVE TypeInv'
<1> USE DEF TypeInv, TypeOK, OpenFails, Goto, disk, local, bounds
<1>1. OpenFile(t) \in Files /\ Proc(t) \in Procs
  BY Located
<1>a. pc[t] = "aopen" \/ pc[t] = "size" => ~(op[t].fn = "create_user" /\ stage[t] = 2)
  BY DEF Control, AppendPCs, Counts
<1>2. FilesOK' /\ KernelOK'
  BY DEF FilesOK, KernelOK
<1>3. ThreadsOK'
  BY DEF ThreadsOK, PCs, EFAIL, ECONFLICT
<1>4. CallOK(t)'
  <2>1. CASE op[t].fn = "create_user" /\ stage[t] = 2
    BY <1>a, <2>1 DEF CallOK, Control, ThreadsOK
  <2>2. CASE ~(op[t].fn = "create_user" /\ stage[t] = 2)
    BY <2>2 DEF CallOK, OpenFile, ThreadsOK
  <2> QED
    BY <2>1, <2>2
<1>5. Control(t)'
  BY <1>a DEF Control, ThreadsOK, Shifting, AppendPCs, Creates
<1> QED
  BY <1>2, <1>3, <1>4, <1>5, OthersKeepTypes DEF ThreadsOK

LEMMA InvokeType ==
  ASSUME TypeInv, NEW t \in Threads, NEW o, OpOk(o), Invoke(t, o)
  PROVE  TypeInv'
<1> USE DEF TypeInv, TypeOK, Invoke, Begin, disk, bounds
<1>1. FirstCall(o.fn) \in PCs /\ FirstStage(o.fn) \in 1 .. 3
  BY DEF FirstCall, FirstStage, PCs
<1>2. FilesOK' /\ KernelOK'
  BY DEF FilesOK, KernelOK
<1>3. ThreadsOK'
  BY <1>1 DEF ThreadsOK
<1>4. CallOK(t)'
  BY DEF CallOK, ThreadsOK
<1>5. Control(t)'
  BY DEF ThreadsOK, Control, Shifting, AppendPCs, FirstCall, FirstStage, Counts
<1> QED
  BY <1>2, <1>3, <1>4, <1>5, OthersKeepTypes DEF ThreadsOK

LEMMA CallType ==
  ASSUME TypeInv, NEW t \in Threads, Call(t) PROVE TypeInv'
<1>1. PICK o \in Ops : Invoke(t, o)
  BY DEF Call
<1> QED
  BY <1>1, OpsAssumption, InvokeType

LEMMA InitCounterType ==
  ASSUME TypeInv, NEW p \in Procs, InitCounter(p) PROVE TypeInv'
<1> USE DEF TypeInv, TypeOK, InitCounter, local, bounds
<1> DEFINE ids == Ids(file[boot[p]]) \cup {0}
<1>1. boot[p] \in Files
  BY DEF KernelOK
<1>2. ids \subseteq Nat
  BY <1>1, RecIds DEF FilesOK, Ids
<1>3. BootAfter(boot[p]) \in Files \cup {"up"}
  BY <1>1 DEF BootAfter, Files
<1>4. PICK m \in ids : ctr' = [ctr EXCEPT ![p][boot[p]] = m]
  OBVIOUS
<1> HIDE DEF ids
<1>5. FilesOK' /\ KernelOK'
  BY <1>1, <1>2, <1>3, <1>4 DEF FilesOK, KernelOK
<1>6. ThreadsOK' /\ \A t \in Threads : CallOK(t)' /\ Control(t)'
  BY DEF ThreadsOK, CallOK, OpenFile, Control, Shifting
<1> QED
  BY <1>5, <1>6

LEMMA CrashType ==
  ASSUME TypeInv, NEW p \in Procs, Crash(p) PROVE TypeInv'
<1> USE DEF TypeInv, TypeOK, Crash
<1>1. FilesOK' /\ crashes' \in Nat
  BY DEF FilesOK
<1>2. KernelOK'
  BY DEF KernelOK, NoLocks, LockTypes, Files
<1>3. ThreadsOK'
  BY DEF ThreadsOK, PCs
<1>4. OpOk(NoOp)
  BY ZeroRecType DEF NoOp, OpOk, Fns, Counts, TableOf, UserFns, Files
<1>5. ASSUME NEW t \in Threads PROVE CallOK(t)' /\ Control(t)'
  <2>1. CASE Proc(t) = p
    BY <1>4, <2>1 DEF CallOK, Control, Shifting, AppendPCs
  <2>2. CASE Proc(t) # p
    BY <2>2 DEF CallOK, OpenFile, Control, Shifting
  <2> QED
    BY <2>1, <2>2
<1> QED
  BY <1>1, <1>2, <1>3, <1>5

\* No step of any thread, process or crash breaks a type.
LEMMA NextType == TypeInv /\ [Next]_vars => TypeInv'
<1> SUFFICES ASSUME TypeInv, [Next]_vars PROVE TypeInv'
  OBVIOUS
<1>1. ASSUME NEW t \in Threads, Step(t) PROVE TypeInv'
  BY <1>1, BeginScanType, ReadHitType, ReadMissType, ReadIntoType, ReadEOFType,
     EndScanType, LockRecordType, OverwriteType, OverwriteFailsType,
     LockTailType, ShiftReadType, ShiftWriteType, ShiftWriteFailsType,
     ShiftEOFType, SeekLastType, TruncateType, EndWriteType, NewIdType,
     OpenForAppendType, LockEndType, AppendRecordType, AppendFailsType,
     UnlockEndType, SeekSizeType, CloseType, OpenFailsType
     DEF Step
<1>2. ASSUME UNCHANGED vars PROVE TypeInv'
  BY <1>2 DEF vars, disk, local, bounds, TypeInv, TypeOK, FilesOK, KernelOK,
              ThreadsOK, CallOK, OpenFile, Control, Shifting
<1> QED
  BY <1>1, <1>2, CallType, InitCounterType, CrashType DEF Next, Finished

\* Every variable has its type in every reachable state: what read() puts into
\* a struct is a record of the file that is open, and no write leaves anything
\* else than whole records of the right kind in a file.
THEOREM TypeCorrect == Spec => []TypeOK
<1>1. TypeInv => TypeOK
  BY DEF TypeInv
<1> QED
  BY InitType, NextType, <1>1, PTL DEF Spec

(***************************************************************************)
(* Ids and identities, when all threads run in one process.                *)
(*                                                                         *)
(* The inductive invariant ties every id there is - on disk, in a record   *)
(* in hand, in a record about to be appended - to the process's counter,   *)
(* from the moment db_init has set the counter up.                         *)
(***************************************************************************)

SingleProcess == \A t, u \in Threads : Proc(t) = Proc(u)

\* db_init has set up the counter of file f.
Booted(p, f) ==
  \/ boot[p] = "up"
  \/ f = "user" /\ boot[p] \in {"account", "trans"}
  \/ f = "account" /\ boot[p] = "trans"

OnDiskBounded(t) ==
  \A f \in Files : Booted(Proc(t), f) =>
     \A r \in Range(file[f]) : r.id <= ctr[Proc(t)][f]

InHandBounded(t) ==
  /\ pc[t] # "idle" => boot[Proc(t)] = "up"
  /\ iter[t] # NoRec => iter[t].id <= ctr[Proc(t)][OpenFile(t)]
  /\ Appending(t) => 1 <= op[t].rec.id /\ op[t].rec.id <= ctr[Proc(t)][OpenFile(t)]

\* What an update is about to write has the identity of what it found.
FoundIsKept(t) ==
  /\ op[t].fn \in Updates /\ pc[t] \in {"unlock", "wlock", "write"}
       /\ iter[t] # NoRec => iter[t].id = op[t].rec.id
  /\ op[t].fn = "update_user" /\ pc[t] = "write" =>
       op[t].rec.uname = iter[t].uname /\ op[t].rec.aid = iter[t].aid

Unused(t) ==
  Appending(t) =>
     /\ \A r \in Range(Contents(t)) : r.id # op[t].rec.id
     /\ \A u \in Threads \ {t} : OpenFile(u) = OpenFile(t) =>
          /\ iter[u] # NoRec => iter[u].id # op[t].rec.id
          /\ Appending(u) => op[u].rec.id # op[t].rec.id

Known == UserCopies \cup {ZeroRec("user")}

IdInv ==
  /\ \A t \in Threads :
       OnDiskBounded(t) /\ InHandBounded(t) /\ FoundIsKept(t) /\ Unused(t)
  /\ Consistent(Known)

\* Fewer records cannot disagree more.
LEMMA FewerAgree ==
  ASSUME NEW A, NEW B, A \subseteq B, Consistent(B) PROVE Consistent(A)
BY DEF Consistent

\* A record with the identity of a known one, or with an id of its own, agrees
\* with all that are known.
LEMMA OneMoreAgrees ==
  ASSUME NEW A, NEW r, Consistent(A),
         \/ \E a \in A : r.id = a.id /\ r.uname = a.uname /\ r.aid = a.aid
         \/ \A a \in A : r.id # a.id
  PROVE  Consistent(A \cup {r})
BY DEF Consistent

IInv == SingleProcess /\ TypeInv /\ IdInv

\* A step that writes no file and no counter: all it can do to ids is to put a
\* record it read into a thread's hands, or to forget the one that was there.
LEMMA QuietStep ==
  ASSUME IInv, NEW t \in Threads, pc[t] # "idle", TypeInv',
         UNCHANGED <<file, ctr, boot, op>>,
         \A u \in Threads \ {t} :
            pc'[u] = pc[u] /\ stage'[u] = stage[u] /\ iter'[u] = iter[u],
         \/ iter'[t] = NoRec
         \/ stage'[t] = stage[t] /\ iter'[t] = iter[t]
         \/ stage'[t] = stage[t] /\ iter'[t] \in Range(Contents(t)),
         Appending(t)' => Appending(t) /\ stage'[t] = stage[t],
         FoundIsKept(t)'
  PROVE  IInv'
<1> USE DEF IInv
<1>1. SingleProcess'
  BY DEF SingleProcess, Proc
<1>2. \A u \in Threads \ {t} : OpenFile(u)' = OpenFile(u)
  BY DEF OpenFile
<1>3. stage'[t] = stage[t] => OpenFile(t)' = OpenFile(t)
  BY DEF OpenFile
<1>4. boot[Proc(t)] = "up"
  BY DEF IdInv, InHandBounded
<1>5. \A u \in Threads : OnDiskBounded(u)'
  BY DEF IdInv, OnDiskBounded, Booted, Proc
<1>6. iter'[t] # NoRec /\ iter'[t] # iter[t] =>
         iter'[t].id <= ctr[Proc(t)][OpenFile(t)]
  BY <1>4, Located DEF IdInv, OnDiskBounded, Booted, Contents
<1>7. \A u \in Threads : InHandBounded(u)'
  <2>1. ASSUME NEW u \in Threads \ {t} PROVE InHandBounded(u)'
    BY <1>2 DEF IdInv, InHandBounded, Appending, Proc
  <2>2. InHandBounded(t)'
    BY <1>3, <1>4, <1>6 DEF IdInv, InHandBounded, Appending, Proc
  <2> QED
    BY <2>1, <2>2
<1>8. \A u \in Threads : FoundIsKept(u)'
  BY DEF IdInv, FoundIsKept
<1>9. \A u \in Threads : Unused(u)'
  <2>1. Unused(t)'
    BY <1>2, <1>3 DEF IdInv, Unused, Appending, Contents
  <2>2. ASSUME NEW u \in Threads \ {t} PROVE Unused(u)'
    <3>1. SUFFICES ASSUME Appending(u)' PROVE Unused(u)'
      BY DEF Unused
    <3>2. Appending(u) /\ OpenFile(u)' = OpenFile(u) /\ Contents(u)' = Contents(u)
      BY <1>2, <3>1 DEF Appending, Contents
    <3>3. ASSUME OpenFile(t)' = OpenFile(u)
          PROVE  /\ iter'[t] # NoRec => iter'[t].id # op[u].rec.id
                 /\ Appending(t)' => op[t].rec.id # op[u].rec.id
      BY <1>3, <3>2, <3>3 DEF IdInv, Unused, Contents
    <3>4. ASSUME NEW w \in Threads \ {u}, w # t, OpenFile(w)' = OpenFile(u)'
          PROVE  /\ iter'[w] # NoRec => iter'[w].id # op[u].rec.id
                 /\ Appending(w)' => op[w].rec.id # op[u].rec.id
      BY <1>2, <3>2, <3>4 DEF IdInv, Unused, Appending
    <3> QED
      BY <3>2, <3>3, <3>4 DEF IdInv, Unused
  <2> QED
    BY <2>1, <2>2
<1>10. Consistent(Known)'
  <2>1. Known' \subseteq Known
    BY <1>2, <1>3 DEF Known, UserCopies, Contents
  <2> QED
    BY <2>1, FewerAgree DEF IdInv, Consistent
<1> QED
  BY <1>1, <1>5, <1>7, <1>8, <1>9, <1>10 DEF IdInv

\* The actions of a call that are quiet in that sense.
Quiet(t) ==
  \/ BeginScan(t) \/ ReadHit(t) \/ ReadMiss(t) \/ ReadInto(t) \/ ReadEOF(t)
  \/ EndScan(t) \/ OverwriteFails(t)
  \/ LockTail(t) \/ ShiftRead(t) \/ ShiftWriteFails(t)
  \/ ShiftEOF(t) \/ SeekLast(t) \/ EndWrite(t)
  \/ OpenForAppend(t) \/ LockEnd(t) \/ AppendFails(t) \/ UnlockEnd(t)
  \/ SeekSize(t) \/ Close(t) \/ OpenFails(t)

LEMMA QuietIds ==
  ASSUME IInv, NEW t \in Threads, Quiet(t), TypeInv' PROVE IInv'
<1> USE DEF IInv, disk, local, bounds, Goto
<1>0. TypeInv /\ ThreadsOK
  BY DEF TypeInv, TypeOK
<1>1. /\ pc[t] # "idle"
      /\ UNCHANGED <<file, ctr, boot, op>>
      /\ \A u \in Threads \ {t} :
            pc'[u] = pc[u] /\ stage'[u] = stage[u] /\ iter'[u] = iter[u]
  <2>1. pc[t] # "idle"
    BY DEF Quiet, BeginScan, ReadHit, ReadMiss, ReadInto, ReadEOF, EndScan,
           OverwriteFails, LockTail, ShiftRead, ShiftWriteFails, ShiftEOF, SeekLast,
           EndWrite, OpenForAppend, LockEnd, AppendFails, UnlockEnd, SeekSize,
           Close, OpenFails
  <2>2. UNCHANGED <<file, ctr, boot, op>>
    BY DEF Quiet, BeginScan, ReadHit, ReadMiss, ReadInto, ReadEOF, EndScan,
           OverwriteFails, LockTail, ShiftRead, ShiftWriteFails, ShiftEOF, SeekLast,
           EndWrite, OpenForAppend, LockEnd, AppendFails, UnlockEnd, SeekSize,
           Close, OpenFails
  <2>3. \A u \in Threads \ {t} : pc'[u] = pc[u]
    BY <1>0 DEF Quiet, BeginScan, ReadHit, ReadMiss, ReadInto, ReadEOF, EndScan,
           OverwriteFails, LockTail, ShiftRead, ShiftWriteFails, ShiftEOF, SeekLast,
           EndWrite, OpenForAppend, LockEnd, AppendFails, UnlockEnd, SeekSize,
           Close, OpenFails, ThreadsOK
  <2>4. \A u \in Threads \ {t} : stage'[u] = stage[u]
    BY <1>0 DEF Quiet, BeginScan, ReadHit, ReadMiss, ReadInto, ReadEOF, EndScan,
           OverwriteFails, LockTail, ShiftRead, ShiftWriteFails, ShiftEOF, SeekLast,
           EndWrite, OpenForAppend, LockEnd, AppendFails, UnlockEnd, SeekSize,
           Close, OpenFails, ThreadsOK
  <2>5. \A u \in Threads \ {t} : iter'[u] = iter[u]
    BY <1>0 DEF Quiet, BeginScan, ReadHit, ReadMiss, ReadInto, ReadEOF, EndScan,
           OverwriteFails, LockTail, ShiftRead, ShiftWriteFails, ShiftEOF, SeekLast,
           EndWrite, OpenForAppend, LockEnd, AppendFails, UnlockEnd, SeekSize,
           Close, OpenFails, ThreadsOK
  <2> QED
    BY <2>1, <2>2, <2>3, <2>4, <2>5
<1>2. \/ iter'[t] = NoRec
      \/ stage'[t] = stage[t] /\ iter'[t] = iter[t]
      \/ stage'[t] = stage[t] /\ iter'[t] \in Range(Contents(t))
  <2>1. CASE ReadHit(t) \/ ShiftRead(t)
    <3>1. cur[t] >= 0 /\ cur[t] \in Int /\ cur[t] < Len(Contents(t))
      BY <1>0, <2>1 DEF ReadHit, ShiftRead, TypeInv, Control, ThreadsOK
    <3>2. Contents(t) \in Seq(RecOf(OpenFile(t)))
      BY <1>0, Located DEF TypeInv, TypeOK, FilesOK, Contents
    <3>3. Contents(t)[cur[t] + 1] \in Range(Contents(t))
      BY <3>1, <3>2 DEF Range
    <3> QED
      BY <1>0, <2>1, <3>3 DEF ReadHit, ShiftRead, ThreadsOK
  <2>2. CASE OpenFails(t)
    BY <1>0, <2>2 DEF OpenFails, TypeInv, Control, AppendPCs, ThreadsOK
  <2>3. CASE Close(t)
    BY <1>0, <2>3 DEF Close, ThreadsOK
  <2> QED
    BY <2>1, <2>2, <2>3
       DEF Quiet, BeginScan, ReadMiss, ReadInto, ReadEOF, EndScan, OverwriteFails,
           LockTail, ShiftWriteFails, ShiftEOF, SeekLast, EndWrite, OpenForAppend,
           LockEnd, AppendFails, UnlockEnd, SeekSize
<1>3. Appending(t)' => Appending(t) /\ stage'[t] = stage[t]
  BY <1>0
     DEF Appending, ThreadsOK, Quiet, BeginScan, ReadHit, ReadMiss, ReadInto,
         ReadEOF, EndScan, OverwriteFails, LockTail, ShiftRead, ShiftWriteFails,
         ShiftEOF, SeekLast, EndWrite, OpenForAppend, LockEnd, AppendFails,
         UnlockEnd, SeekSize, Close, OpenFails, StageCall
<1>4. FoundIsKept(t)'
  <2>1. CASE ReadHit(t)
    BY <1>0, <2>1 DEF ReadHit, FoundIsKept, Matches, Updates, TransFns, ThreadsOK
  <2>2. CASE EndScan(t)
    BY <1>0, <2>2 DEF EndScan, FoundIsKept, IdInv, ThreadsOK
  <2>3. CASE ReadEOF(t)
    BY <1>0, <2>3 DEF ReadEOF, FoundIsKept, TypeInv, Control, ThreadsOK
  <2>4. CASE ReadInto(t)
    BY <1>0, <2>4 DEF ReadInto, FoundIsKept, Bulk, Updates, ThreadsOK
  <2>5. CASE ~(ReadHit(t) \/ EndScan(t) \/ ReadEOF(t) \/ ReadInto(t))
    <3>1. pc'[t] \notin {"unlock", "wlock", "write"}
      BY <1>0, <2>5
         DEF ThreadsOK, Quiet, BeginScan, ReadMiss, OverwriteFails, LockTail,
             ShiftRead, ShiftWriteFails, ShiftEOF, SeekLast, EndWrite,
             OpenForAppend, LockEnd, AppendFails, UnlockEnd, SeekSize, Close,
             OpenFails, StageCall
    <3> QED
      BY <3>1 DEF FoundIsKept
  <2> QED
    BY <2>1, <2>2, <2>3, <2>4, <2>5
<1> QED
  BY <1>1, <1>2, <1>3, <1>4, QuietStep

LEMMA LockRecordIds ==
  ASSUME IInv, NEW t \in Threads, LockRecord(t), TypeInv' PROVE IInv'
<1> USE DEF IInv, LockRecord, disk, bounds, Goto
<1>1. /\ \A u \in Threads \ {t} : pc'[u] = pc[u] /\ op'[u] = op[u]
      /\ pc[t] = "wlock" /\ pc'[t] = "write"
      /\ op'[t] = IF op[t].fn = "update_user"
                  THEN WithRec(op[t], KeepNames(op[t].rec, iter[t])) ELSE op[t]
  BY DEF TypeInv, TypeOK, ThreadsOK
<1>2. op'[t].fn = op[t].fn /\ op'[t].rec.id = op[t].rec.id
  BY <1>1 DEF WithRec, KeepNames
<1>3. \A u \in Threads : OpenFile(u)' = OpenFile(u)
  BY <1>1, <1>2 DEF OpenFile
<1>4. SingleProcess'
  BY DEF SingleProcess, Proc
<1>5. \A u \in Threads : OnDiskBounded(u)' /\ InHandBounded(u)'
  BY <1>1, <1>3
     DEF IdInv, OnDiskBounded, Booted, Proc, InHandBounded, Appending
<1>6. \A u \in Threads : FoundIsKept(u)'
  <2>1. FoundIsKept(t)'
    BY <1>1, <1>2 DEF IdInv, FoundIsKept, WithRec, KeepNames
  <2> QED
    BY <2>1, <1>1 DEF IdInv, FoundIsKept
<1>7. \A u \in Threads : Unused(u)'
  BY <1>1, <1>2, <1>3 DEF IdInv, Unused, Appending, Contents
<1>8. Consistent(Known)'
  BY <1>3 DEF IdInv, Known, UserCopies, Consistent
<1> QED
  BY <1>4, <1>5, <1>6, <1>7, <1>8 DEF IdInv

(***************************************************************************)
(* Steps that write a file: each record they leave stands for one that was *)
(* in the file, in the thread's hands, or is zero.                         *)
(***************************************************************************)

SameIdentity(f, r, a) ==
  r.id = a.id /\ (f = "user" => r.uname = a.uname /\ r.aid = a.aid)

Sources(t) == Range(Contents(t)) \cup {ZeroRec(OpenFile(t))}
              \cup ({iter[t]} \ {NoRec})

LEMMA StandInsAgree ==
  ASSUME NEW A, NEW B, Consistent(A),
         \A b \in B : \E a \in A : SameIdentity("user", b, a)
  PROVE  Consistent(B)
BY DEF Consistent, SameIdentity

LEMMA WriteStep ==
  ASSUME IInv, NEW t \in Threads, TypeInv', pc[t] # "idle", ~Appending(t),
         UNCHANGED <<ctr, boot, op, stage, iter>>,
         \A u \in Threads \ {t} : pc'[u] = pc[u],
         pc'[t] \in {"wunlock", "shift"},
         \A f \in Files \ {OpenFile(t)} : file'[f] = file[f],
         \A r \in Range(file'[OpenFile(t)]) :
            \E a \in Sources(t) : SameIdentity(OpenFile(t), r, a)
  PROVE  IInv'
<1> USE DEF IInv
<1>1. /\ \A u \in Threads : OpenFile(u)' = OpenFile(u) /\ OpenFile(u) \in Files
      /\ \A u \in Threads : Appending(u)' <=> Appending(u)
      /\ boot[Proc(t)] = "up" /\ SingleProcess'
  BY Located
     DEF OpenFile, Appending, SingleProcess, Proc, IdInv, InHandBounded
<1>2. \A a \in Sources(t) : a.id <= ctr[Proc(t)][OpenFile(t)]
  <2>1. ctr[Proc(t)][OpenFile(t)] \in Nat
    BY Located DEF TypeInv, TypeOK, KernelOK
  <2> QED
    BY <1>1, <2>1, RecIds
       DEF IdInv, OnDiskBounded, InHandBounded, Booted, Sources, Contents
<1>3. ASSUME NEW u \in Threads PROVE OnDiskBounded(u)'
  <2>1. \A f \in Files \ {OpenFile(t)} : Booted(Proc(u), f) =>
           \A r \in Range(file'[f]) : r.id <= ctr[Proc(u)][f]
    BY DEF IdInv, OnDiskBounded
  <2>2. \A r \in Range(file'[OpenFile(t)]) : r.id <= ctr[Proc(u)][OpenFile(t)]
    BY <1>2 DEF SameIdentity, SingleProcess
  <2> QED
    BY <2>1, <2>2 DEF OnDiskBounded, Booted, Proc
<1>4. \A u \in Threads : InHandBounded(u)' /\ FoundIsKept(u)'
  BY <1>1 DEF IdInv, InHandBounded, FoundIsKept, Proc
<1>5. ASSUME NEW u \in Threads PROVE Unused(u)'
  <2>1. SUFFICES ASSUME Appending(u) PROVE Unused(u)'
    BY <1>1 DEF Unused
  <2>2. CASE OpenFile(u) # OpenFile(t)
    <3>1. Contents(u)' = Contents(u)
      BY <1>1, <2>2 DEF Contents
    <3> QED
      BY <1>1, <3>1 DEF IdInv, Unused
  <2>3. CASE OpenFile(u) = OpenFile(t)
    <3>1. \A a \in Sources(t) : a.id # op[u].rec.id
      BY <1>1, <2>1, <2>3, RecIds
         DEF IdInv, Unused, Sources, Contents, InHandBounded
    <3>2. \A r \in Range(Contents(u)') : r.id # op[u].rec.id
      BY <1>1, <2>3, <3>1 DEF SameIdentity, Contents
    <3> QED
      BY <1>1, <2>1, <3>2 DEF IdInv, Unused
  <2> QED
    BY <2>2, <2>3
<1>6. Consistent(Known)'
  <2>1. ASSUME NEW r \in Known' PROVE \E a \in Known : SameIdentity("user", r, a)
    <3>1. CASE r \in Known
      BY <3>1 DEF SameIdentity
    <3>2. CASE r \notin Known
      <4>1. r \in Range(file'["user"])
        BY <1>1, <3>2 DEF Known, UserCopies
      <4>2. OpenFile(t) = "user"
        BY <3>2, <4>1 DEF Known, UserCopies, Files
      <4>3. Sources(t) \subseteq Known
        BY <4>2 DEF Sources, Known, UserCopies, Contents
      <4> QED
        BY <4>1, <4>2, <4>3
    <3> QED
      BY <3>1, <3>2
  <2>2. Consistent(Known)
    BY DEF IdInv
  <2>3. Consistent(Known')
    BY <2>1, <2>2, StandInsAgree
  <2> QED
    BY <2>3 DEF Consistent
<1> QED
  BY <1>1, <1>3, <1>4, <1>5, <1>6 DEF IdInv

\* Overwriting one record at a position.
LEMMA WriteAtRange ==
  ASSUME NEW f \in Files, NEW s \in Seq(RecOf(f)), NEW p \in Int,
         NEW r \in RecOf(f)
  PROVE  Range(WriteAt(s, p, r, ZeroRec(f)))
           \subseteq Range(s) \cup {r, ZeroRec(f)}
BY ZeroRecType, WriteAtProperties DEF Range

LEMMA ResizeRange ==
  ASSUME NEW f \in Files, NEW s \in Seq(RecOf(f)), NEW n \in Nat
  PROVE  Range(Resize(s, n, ZeroRec(f))) \subseteq Range(s) \cup {ZeroRec(f)}
BY ZeroRecType, ResizeProperties DEF Range

LEMMA OverwriteIds ==
  ASSUME IInv, NEW t \in Threads, Overwrite(t), TypeInv' PROVE IInv'
<1> USE DEF IInv, Overwrite, SetFile, local, bounds, Goto
<1>1. /\ ThreadsOK /\ FilesOK /\ CallOK(t) /\ Control(t)
      /\ OpenFile(t) \in Files
  BY Located DEF TypeInv, TypeOK
<1>2. Contents(t) \in Seq(RecOf(OpenFile(t)))
  BY <1>1 DEF FilesOK, Contents
<1>3. op[t].fn \in Updates /\ iter[t] # NoRec /\ cur[t] - 1 \in Int
  BY <1>1 DEF Control, ThreadsOK
<1>4. OpenFile(t) = TableOf(op[t].fn)
  BY <1>3 DEF OpenFile, FileAt, Updates
<1>5. op[t].rec \in RecOf(OpenFile(t))
  BY <1>1, <1>4 DEF CallOK, OpOk
<1>6. SameIdentity(OpenFile(t), op[t].rec, iter[t])
  BY <1>3, <1>4
     DEF IdInv, FoundIsKept, SameIdentity, TableOf, UserFns, Updates
<1>7. /\ file'[OpenFile(t)] = WriteAt(Contents(t), cur[t] - 1, op[t].rec,
                                      ZeroRec(OpenFile(t)))
      /\ \A f \in Files \ {OpenFile(t)} : file'[f] = file[f]
  BY <1>1 DEF FilesOK, Position
<1>8. Range(file'[OpenFile(t)]) \subseteq
        Range(Contents(t)) \cup {op[t].rec, ZeroRec(OpenFile(t))}
  BY <1>1, <1>2, <1>3, <1>5, <1>7, WriteAtRange
<1>9. \A r \in Range(file'[OpenFile(t)]) :
         \E a \in Sources(t) : SameIdentity(OpenFile(t), r, a)
  BY <1>3, <1>6, <1>8 DEF Sources, SameIdentity
<1>10. /\ ~Appending(t) /\ pc[t] # "idle" /\ pc'[t] = "wunlock"
       /\ \A u \in Threads \ {t} : pc'[u] = pc[u]
  BY <1>1 DEF Appending, ThreadsOK
<1> QED
  BY <1>7, <1>9, <1>10, WriteStep

LEMMA ShiftWriteIds ==
  ASSUME IInv, NEW t \in Threads, ShiftWrite(t), TypeInv' PROVE IInv'
<1> USE DEF IInv, ShiftWrite, SetFile, local, bounds, Goto
<1>1. /\ ThreadsOK /\ FilesOK /\ CallOK(t) /\ Control(t)
      /\ OpenFile(t) \in Files
  BY Located DEF TypeInv, TypeOK
<1>2. Contents(t) \in Seq(RecOf(OpenFile(t)))
  BY <1>1 DEF FilesOK, Contents
<1>3. iter[t] # NoRec /\ iter[t] \in RecOf(OpenFile(t)) /\ ShiftTarget(t) \in Int
  BY <1>1 DEF Control, CallOK, ThreadsOK, ShiftTarget
<1>4. /\ file'[OpenFile(t)] = WriteAt(Contents(t), ShiftTarget(t), iter[t],
                                      ZeroRec(OpenFile(t)))
      /\ \A f \in Files \ {OpenFile(t)} : file'[f] = file[f]
  BY <1>1 DEF FilesOK
<1>5. Range(file'[OpenFile(t)]) \subseteq Sources(t)
  BY <1>1, <1>2, <1>3, <1>4, WriteAtRange DEF Sources
<1>6. \A r \in Range(file'[OpenFile(t)]) :
         \E a \in Sources(t) : SameIdentity(OpenFile(t), r, a)
  BY <1>5 DEF SameIdentity
<1>7. /\ ~Appending(t) /\ pc[t] # "idle" /\ pc'[t] = "shift"
      /\ \A u \in Threads \ {t} : pc'[u] = pc[u]
  BY <1>1 DEF Appending, ThreadsOK
<1> QED
  BY <1>4, <1>6, <1>7, WriteStep

LEMMA TruncateIds ==
  ASSUME IInv, NEW t \in Threads, Truncate(t), TypeInv' PROVE IInv'
<1> USE DEF IInv, Truncate, Cut, SetFile, local, bounds, Goto
<1>1. ThreadsOK /\ FilesOK /\ OpenFile(t) \in Files
  BY Located DEF TypeInv, TypeOK
<1>2. Contents(t) \in Seq(RecOf(OpenFile(t)))
  BY <1>1 DEF FilesOK, Contents
<1>3. /\ Range(file'[OpenFile(t)]) \subseteq Sources(t)
      /\ \A f \in Files \ {OpenFile(t)} : file'[f] = file[f]
  <2>1. CASE cur[t] >= 0
    <3>1. cur[t] \in Nat
      BY <1>1, <2>1 DEF ThreadsOK
    <3>2. /\ file'[OpenFile(t)] =
               Resize(Contents(t), cur[t], ZeroRec(OpenFile(t)))
          /\ \A f \in Files \ {OpenFile(t)} : file'[f] = file[f]
      BY <1>1, <2>1 DEF FilesOK
    <3> QED
      BY <1>1, <1>2, <3>1, <3>2, ResizeRange DEF Sources
  <2>2. CASE ~(cur[t] >= 0)
    BY <2>2 DEF Sources, Contents
  <2> QED
    BY <2>1, <2>2
<1>4. \A r \in Range(file'[OpenFile(t)]) :
         \E a \in Sources(t) : SameIdentity(OpenFile(t), r, a)
  BY <1>3 DEF SameIdentity
<1>5. /\ ~Appending(t) /\ pc[t] # "idle" /\ pc'[t] = "wunlock"
      /\ \A u \in Threads \ {t} : pc'[u] = pc[u]
  BY <1>1 DEF Appending, ThreadsOK
<1> QED
  BY <1>3, <1>4, <1>5, WriteStep

LEMMA AppendRange ==
  ASSUME NEW S, NEW s \in Seq(S), NEW r \in S
  PROVE  Range(Append(s, r)) = Range(s) \cup {r}
<1>1. /\ DOMAIN s = 1 .. Len(s) /\ Len(s) \in Nat
      /\ DOMAIN Append(s, r) = 1 .. Len(s) + 1
      /\ \A i \in 1 .. Len(s) : Append(s, r)[i] = s[i]
      /\ Append(s, r)[Len(s) + 1] = r
  OBVIOUS
<1>2. 1 .. Len(s) + 1 = 1 .. Len(s) \cup {Len(s) + 1}
  BY <1>1
<1> QED
  BY <1>1, <1>2, Zenon DEF Range

LEMMA AppendRecordIds ==
  ASSUME IInv, NEW t \in Threads, AppendRecord(t), TypeInv' PROVE IInv'
<1> USE DEF IInv, AppendRecord, Appended, SetFile, local, bounds, Goto
<1>1. /\ ThreadsOK /\ FilesOK /\ CallOK(t) /\ Control(t)
      /\ OpenFile(t) \in Files
  BY Located DEF TypeInv, TypeOK
<1>2. /\ Contents(t) \in Seq(RecOf(OpenFile(t)))
      /\ iter[t] = NoRec /\ Appending(t) /\ ~Appending(t)'
      /\ pc'[t] = "aunlock" /\ \A u \in Threads \ {t} : pc'[u] = pc[u]
  BY <1>1 DEF FilesOK, Contents, Control, Appending, AppendPCs, ThreadsOK
<1>3. /\ Range(file'[OpenFile(t)]) = Range(Contents(t)) \cup {op[t].rec}
      /\ \A f \in Files \ {OpenFile(t)} : file'[f] = file[f]
  <2>1. file'[OpenFile(t)] = Append(Contents(t), op[t].rec)
    BY <1>1 DEF FilesOK
  <2>2. Range(Append(Contents(t), op[t].rec)) = Range(Contents(t)) \cup {op[t].rec}
    <3>1. op[t].rec \in RecOf(OpenFile(t))
      BY <1>1, <1>2
         DEF CallOK, OpOk, Control, AppendPCs, OpenFile, FileAt, Creates, Appending
    <3> QED
      BY <1>2, <3>1, AppendRange
  <2> QED
    BY <1>1, <2>1, <2>2 DEF FilesOK
<1>4. /\ \A u \in Threads : OpenFile(u)' = OpenFile(u)
      /\ \A u \in Threads \ {t} : Appending(u)' <=> Appending(u)
      /\ SingleProcess'
  BY <1>2 DEF OpenFile, Appending, SingleProcess, Proc
<1>5. /\ op[t].rec.id <= ctr[Proc(t)][OpenFile(t)] /\ 1 <= op[t].rec.id
      /\ \A r \in Range(Contents(t)) : r.id # op[t].rec.id
      /\ \A u \in Threads \ {t} : OpenFile(u) = OpenFile(t) =>
            /\ iter[u] # NoRec => iter[u].id # op[t].rec.id
            /\ Appending(u) => op[u].rec.id # op[t].rec.id
  BY <1>2 DEF IdInv, InHandBounded, Unused
<1>6. ASSUME NEW u \in Threads PROVE OnDiskBounded(u)'
  <2>1. Proc(u) = Proc(t)
    BY DEF SingleProcess
  <2>2. \A f \in Files : Booted(Proc(u), f) =>
           \A r \in Range(file'[f]) : r.id <= ctr[Proc(u)][f]
    BY <1>3, <1>5, <2>1 DEF IdInv, OnDiskBounded, Contents
  <2> QED
    BY <2>2 DEF OnDiskBounded, Booted, Proc
<1>7. \A u \in Threads : InHandBounded(u)'
  BY <1>2, <1>4 DEF IdInv, InHandBounded, Proc
<1>8. \A u \in Threads : FoundIsKept(u)'
  BY <1>2 DEF IdInv, FoundIsKept
<1>9. ASSUME NEW u \in Threads PROVE Unused(u)'
  <2>1. SUFFICES ASSUME Appending(u)', u # t PROVE Unused(u)'
    BY <1>2 DEF Unused
  <2>2. Appending(u) /\ OpenFile(u)' = OpenFile(u)
    BY <1>4, <2>1
  <2>3. \A r \in Range(Contents(u)') : r.id # op[u].rec.id
    <3>1. CASE OpenFile(u) = OpenFile(t)
      BY <1>3, <1>5, <2>1, <2>2, <3>1 DEF IdInv, Unused, Contents
    <3>2. CASE OpenFile(u) # OpenFile(t)
      BY <1>3, <2>2, <3>2, Located DEF IdInv, Unused, Contents
    <3> QED
      BY <3>1, <3>2
  <2> QED
    BY <1>2, <1>4, <2>1, <2>2, <2>3 DEF IdInv, Unused
<1>10. Consistent(Known)'
  <2>1. CASE OpenFile(t) = "user"
    <3>1. Known' = Known \cup {op[t].rec}
      BY <1>3, <1>4, <2>1 DEF Known, UserCopies, Contents
    <3>2. \A a \in Known : op[t].rec.id # a.id
      BY <1>2, <1>5, <2>1, RecIds DEF Known, UserCopies, Contents, Files
    <3>3. Consistent(Known \cup {op[t].rec})
      BY <3>2, OneMoreAgrees DEF IdInv
    <3> QED
      BY <3>1, <3>3 DEF Consistent
  <2>2. CASE OpenFile(t) # "user"
    <3>1. Known' = Known
      BY <1>3, <1>4, <2>2 DEF Known, UserCopies, Files
    <3> QED
      BY <3>1 DEF IdInv, Consistent
  <2> QED
    BY <2>1, <2>2
<1> QED
  BY <1>4, <1>6, <1>7, <1>8, <1>9, <1>10 DEF IdInv

LEMMA NewIdIds ==
  ASSUME IInv, NEW t \in Threads, NewId(t), TypeInv' PROVE IInv'
<1> USE DEF IInv, NewId, NextId, bounds, Goto
<1> DEFINE n == ctr[Proc(t)][OpenFile(t)] + 1
<1>1. /\ ThreadsOK /\ FilesOK /\ KernelOK /\ CallOK(t) /\ Control(t)
      /\ OpenFile(t) \in Files /\ Proc(t) \in Procs
  BY Located DEF TypeInv, TypeOK
<1>2. /\ pc[t] = "newid" /\ pc'[t] = "aopen" /\ iter[t] = NoRec
      /\ \A u \in Threads \ {t} : pc'[u] = pc[u] /\ op'[u] = op[u]
      /\ op'[t] = WithRec(op[t], [op[t].rec EXCEPT !.id = n])
      /\ op[t].fn \in Creates /\ stage[t] = 3
  BY <1>1 DEF ThreadsOK, Control, AppendPCs
<1>3. op'[t].fn = op[t].fn /\ op'[t].rec.id = n
  <2>1. OpenFile(t) = TableOf(op[t].fn)
    BY <1>2 DEF OpenFile, FileAt, Creates
  <2>2. op[t].rec \in RecOf(OpenFile(t)) /\ n \in Nat
    BY <1>1, <2>1 DEF CallOK, OpOk, KernelOK
  <2>3. [op[t].rec EXCEPT !.id = n].id = n
    BY <1>1, <2>2, WithIdType
  <2> DEFINE r == [op[t].rec EXCEPT !.id = n]
  <2>4. op'[t] = WithRec(op[t], r) /\ r.id = n
    BY <1>2, <2>3
  <2> HIDE DEF r
  <2> QED
    BY <2>4 DEF WithRec
<1>4. /\ \A u \in Threads : OpenFile(u)' = OpenFile(u)
      /\ \A u \in Threads \ {t} : Appending(u)' <=> Appending(u)
      /\ SingleProcess' /\ boot[Proc(t)] = "up"
  BY <1>2, <1>3
     DEF OpenFile, Appending, SingleProcess, Proc, IdInv, InHandBounded
<1>5. /\ ctr'[Proc(t)][OpenFile(t)] = n
      /\ \A f \in Files : /\ ctr[Proc(t)][f] \in Nat
                          /\ ctr'[Proc(t)][f] \in Nat
                          /\ ctr[Proc(t)][f] <= ctr'[Proc(t)][f]
  BY <1>1 DEF KernelOK
<1>6. /\ \A r \in Range(Contents(t)) : r.id < n /\ r.id \in Nat
      /\ \A u \in Threads : OpenFile(u) = OpenFile(t) =>
            /\ iter[u] # NoRec => iter[u].id < n /\ iter[u].id \in Nat
            /\ Appending(u) => op[u].rec.id < n /\ op[u].rec.id \in Nat
  <2>1. \A r \in Range(Contents(t)) : r.id \in Nat
    BY <1>1, RecIds DEF FilesOK, Contents, Range
  <2>2. ASSUME NEW u \in Threads, iter[u] # NoRec PROVE iter[u].id \in Nat
    BY <2>2, RecIds, Located DEF TypeInv, TypeOK, CallOK
  <2>3. ASSUME NEW u \in Threads PROVE op[u].rec.id \in Nat
    BY RecIds DEF TypeInv, TypeOK, CallOK, OpOk, TableOf, Files
  <2>4. \A r \in Range(Contents(t)) : r.id <= ctr[Proc(t)][OpenFile(t)]
    BY <1>1, <1>4 DEF IdInv, OnDiskBounded, Booted, Contents
  <2>5. \A u \in Threads : OpenFile(u) = OpenFile(t) =>
            /\ iter[u] # NoRec => iter[u].id <= ctr[Proc(t)][OpenFile(t)]
            /\ Appending(u) => op[u].rec.id <= ctr[Proc(t)][OpenFile(t)]
    BY DEF IdInv, InHandBounded, SingleProcess
  <2> QED
    BY <1>1, <1>5, <2>1, <2>2, <2>3, <2>4, <2>5
<1> HIDE DEF n
<1>7. ASSUME NEW u \in Threads PROVE OnDiskBounded(u)'
  <2>1. \A f \in Files : Booted(Proc(t), f) =>
           \A r \in Range(file[f]) : r.id <= ctr[Proc(t)][f] /\ r.id \in Nat
    BY <1>1, RecIds DEF IdInv, OnDiskBounded, FilesOK, Range
  <2>2. \A f \in Files : Booted(Proc(t), f) =>
           \A r \in Range(file[f]) : r.id <= ctr'[Proc(t)][f]
    BY <1>5, <2>1
  <2> QED
    BY <2>2 DEF OnDiskBounded, Booted, Proc, SingleProcess
<1>8. ASSUME NEW u \in Threads PROVE InHandBounded(u)'
  <2>1. u # t => pc'[u] = pc[u] /\ op'[u] = op[u]
    BY <1>2
  <2>2. iter[u] # NoRec => iter[u].id <= ctr'[Proc(u)][OpenFile(u)]
    <3>1. iter[u] # NoRec => /\ iter[u].id <= ctr[Proc(t)][OpenFile(u)]
                             /\ iter[u].id \in Nat
      BY RecIds, Located
         DEF IdInv, InHandBounded, SingleProcess, TypeInv, TypeOK, CallOK
    <3> QED
      BY <1>5, <3>1, Located DEF SingleProcess
  <2>3. Appending(u)' => /\ 1 <= op'[u].rec.id
                         /\ op'[u].rec.id <= ctr'[Proc(u)][OpenFile(u)]
    <3>1. CASE u = t
      BY <1>1, <1>3, <1>5, <3>1 DEF n
    <3>2. CASE u # t
      <4>1. Appending(u) => /\ 1 <= op[u].rec.id
                            /\ op[u].rec.id <= ctr[Proc(t)][OpenFile(u)]
                            /\ op[u].rec.id \in Nat
        BY RecIds
           DEF IdInv, InHandBounded, SingleProcess, TypeInv, TypeOK, CallOK, OpOk,
               TableOf, Files
      <4> QED
        BY <1>2, <1>4, <1>5, <3>2, <4>1, Located DEF SingleProcess
    <3> QED
      BY <3>1, <3>2
  <2>4. pc'[u] # "idle" => boot'[Proc(u)] = "up"
    BY <1>4 DEF SingleProcess
  <2> QED
    BY <1>4, <2>2, <2>3, <2>4 DEF InHandBounded, Proc
<1>9. \A u \in Threads : FoundIsKept(u)'
  BY <1>2 DEF IdInv, FoundIsKept
<1>10. ASSUME NEW u \in Threads PROVE Unused(u)'
  <2>1. CASE u = t
    BY <1>2, <1>3, <1>4, <1>6, <2>1 DEF Unused, Contents
  <2>2. CASE u # t
    BY <1>2, <1>3, <1>4, <1>6, <2>2 DEF IdInv, Unused, Contents
  <2> QED
    BY <2>1, <2>2
<1>11. Consistent(Known)'
  BY <1>4 DEF IdInv, Known, UserCopies, Consistent
<1> QED
  BY <1>4, <1>7, <1>8, <1>9, <1>10, <1>11 DEF IdInv

LEMMA InvokeIds ==
  ASSUME IInv, NEW t \in Threads, NEW o, Invoke(t, o), TypeInv' PROVE IInv'
<1> USE DEF IInv, Invoke, Begin, disk
<1>1. /\ ThreadsOK /\ boot[Proc(t)] = "up"
      /\ \A u \in Threads \ {t} :
            /\ pc'[u] = pc[u] /\ op'[u] = op[u] /\ stage'[u] = stage[u]
            /\ iter'[u] = iter[u]
      /\ op'[t] = o /\ iter'[t] = NoRec /\ pc'[t] \in {"newid", "size", "lock"}
      /\ UNCHANGED <<file, ctr, boot>>
  BY DEF TypeInv, TypeOK, ThreadsOK, FirstCall
<1>2. /\ \A u \in Threads \ {t} : /\ OpenFile(u)' = OpenFile(u)
                                  /\ Appending(u)' <=> Appending(u)
      /\ ~Appending(t)' /\ SingleProcess'
  BY <1>1 DEF OpenFile, Appending, SingleProcess, Proc
<1>3. ASSUME NEW u \in Threads PROVE OnDiskBounded(u)' /\ InHandBounded(u)'
  BY <1>1, <1>2 DEF IdInv, OnDiskBounded, InHandBounded, Booted, Proc
<1>4. ASSUME NEW u \in Threads PROVE FoundIsKept(u)'
  BY <1>1 DEF IdInv, FoundIsKept
<1>5. ASSUME NEW u \in Threads PROVE Unused(u)'
  <2>1. SUFFICES ASSUME Appending(u)', u # t PROVE Unused(u)'
    BY <1>2 DEF Unused
  <2>2. /\ Contents(u)' = Contents(u) /\ Appending(u)
        /\ \A w \in Threads \ {u, t} : OpenFile(w)' = OpenFile(w)
    BY <1>1, <1>2, <2>1 DEF Contents
  <2> QED
    BY <1>1, <1>2, <2>1, <2>2 DEF IdInv, Unused
<1>6. Consistent(Known)'
  <2>1. Known' \subseteq Known
    BY <1>1, <1>2 DEF Known, UserCopies
  <2> QED
    BY <2>1, FewerAgree DEF IdInv, Consistent
<1> QED
  BY <1>2, <1>3, <1>4, <1>5, <1>6 DEF IdInv

LEMMA CallIds ==
  ASSUME IInv, NEW t \in Threads, Call(t), TypeInv' PROVE IInv'
<1>1. PICK o \in Ops : Invoke(t, o)
  BY DEF Call
<1> QED
  BY <1>1, InvokeIds

\* db_init runs before the threads do, so no id is in anybody's hands.
LEMMA InitCounterIds ==
  ASSUME IInv, NEW p \in Procs, InitCounter(p), TypeInv' PROVE IInv'
<1> USE DEF IInv, InitCounter, local, bounds
<1>1. /\ KernelOK /\ FilesOK /\ boot[p] \in Files
      /\ UNCHANGED <<file, pc, op, stage, iter>>
  BY DEF TypeInv, TypeOK, KernelOK
<1>2. PICK m \in Ids(file[boot[p]]) \cup {0} :
         /\ IsLargest(m, file[boot[p]])
         /\ ctr' = [ctr EXCEPT ![p][boot[p]] = m]
  OBVIOUS
<1>3. /\ boot'[p] = BootAfter(boot[p]) /\ ctr'[p][boot[p]] = m
      /\ \A f \in Files \ {boot[p]} : ctr'[p][f] = ctr[p][f]
      /\ \A q \in Procs \ {p} : boot'[q] = boot[q] /\ ctr'[q] = ctr[q]
  BY <1>1, <1>2 DEF KernelOK
<1>4. \A r \in Range(file[boot[p]]) : r.id <= m
  BY <1>2 DEF IsLargest, Ids, Range
<1>5. \A u \in Threads : /\ OpenFile(u)' = OpenFile(u)
                         /\ Appending(u)' <=> Appending(u)
                         /\ Proc(u) \in Procs /\ Proc(u)' = Proc(u)
  BY <1>1, Located DEF OpenFile, Appending, Proc
<1>6. ASSUME NEW u \in Threads PROVE OnDiskBounded(u)'
  <2>1. CASE Proc(u) = p
    <3>1. ASSUME NEW f \in Files, Booted(p, f)', f # boot[p] PROVE Booted(p, f)
      BY <1>1, <1>3, <3>1 DEF Booted, BootAfter, Files
    <3>2. \A f \in Files : Booted(p, f)' => \A r \in Range(file[f]) : r.id <= ctr'[p][f]
      BY <1>3, <1>4, <2>1, <3>1 DEF IdInv, OnDiskBounded
    <3> QED
      BY <1>1, <1>5, <2>1, <3>2 DEF OnDiskBounded
  <2>2. CASE Proc(u) # p
    BY <1>1, <1>3, <1>5, <2>2 DEF IdInv, OnDiskBounded, Booted
  <2> QED
    BY <2>1, <2>2
<1>7. ASSUME NEW u \in Threads PROVE InHandBounded(u)'
  <2>1. CASE Proc(u) = p
    <3>1. pc[u] = "idle" /\ iter[u] = NoRec
      BY <2>1 DEF IdInv, InHandBounded, TypeInv, Control
    <3> QED
      BY <1>1, <3>1 DEF InHandBounded, Appending
  <2>2. CASE Proc(u) # p
    BY <1>1, <1>3, <1>5, <2>2 DEF IdInv, InHandBounded
  <2> QED
    BY <2>1, <2>2
<1>8. \A u \in Threads : FoundIsKept(u)' /\ Unused(u)'
  BY <1>1, <1>5 DEF IdInv, FoundIsKept, Unused, Contents
<1>9. Consistent(Known)' /\ SingleProcess'
  BY <1>1, <1>5
     DEF IdInv, Known, UserCopies, Consistent, SingleProcess
<1> QED
  BY <1>6, <1>7, <1>8, <1>9 DEF IdInv

\* A crash of the process forgets all that was in hand; a crash of a process
\* without threads changes nothing that matters.
LEMMA CrashIds ==
  ASSUME IInv, NEW p \in Procs, Crash(p), TypeInv' PROVE IInv'
<1> USE DEF IInv, Crash
<1>1. KernelOK /\ KernelOK' /\ UNCHANGED file
  BY DEF TypeInv, TypeOK
<1>2. \A t \in Threads : Proc(t)' = Proc(t) /\ Proc(t) \in Procs
  BY Located DEF Proc
<1>3. SingleProcess'
  BY <1>2 DEF SingleProcess
<1>4. CASE \A t \in Threads : Proc(t) = p
  <2>1. /\ boot'[p] = "user" \/ Threads = {}
        /\ \A t \in Threads : pc'[t] = "idle" /\ iter'[t] = NoRec
    BY <1>1, <1>2, <1>4 DEF KernelOK
  <2>2. \A t \in Threads : OnDiskBounded(t)' /\ InHandBounded(t)'
    BY <1>2, <1>4, <2>1
       DEF OnDiskBounded, InHandBounded, Booted, Appending
  <2>3. \A t \in Threads : FoundIsKept(t)' /\ Unused(t)'
    BY <2>1 DEF FoundIsKept, Unused, Appending
  <2>4. Known' \subseteq Known
    BY <1>1, <2>1 DEF Known, UserCopies
  <2>5. Consistent(Known)'
    BY <2>4, FewerAgree DEF IdInv, Consistent
  <2> QED
    BY <1>3, <2>2, <2>3, <2>5 DEF IdInv
<1>5. CASE \A t \in Threads : Proc(t) # p
  <2>1. /\ \A t \in Threads : /\ pc'[t] = pc[t] /\ op'[t] = op[t]
                              /\ stage'[t] = stage[t] /\ iter'[t] = iter[t]
        /\ \A q \in Procs \ {p} : boot'[q] = boot[q] /\ ctr'[q] = ctr[q]
    BY <1>1, <1>5 DEF KernelOK
  <2>2. \A t \in Threads : /\ OpenFile(t)' = OpenFile(t)
                           /\ Appending(t)' <=> Appending(t)
    BY <2>1 DEF OpenFile, Appending
  <2>3. \A t \in Threads : OnDiskBounded(t)' /\ InHandBounded(t)'
    BY <1>1, <1>2, <1>5, <2>1, <2>2
       DEF IdInv, OnDiskBounded, InHandBounded, Booted
  <2>4. \A t \in Threads : FoundIsKept(t)' /\ Unused(t)'
    BY <1>1, <2>1, <2>2 DEF IdInv, FoundIsKept, Unused, Contents
  <2>5. Known' \subseteq Known
    BY <1>1, <2>1, <2>2 DEF Known, UserCopies
  <2>6. Consistent(Known)'
    BY <2>5, FewerAgree DEF IdInv, Consistent
  <2> QED
    BY <1>3, <2>3, <2>4, <2>6 DEF IdInv
<1> QED
  BY <1>4, <1>5 DEF SingleProcess

LEMMA InitIds == SingleProcess /\ Init => IInv
<1> SUFFICES ASSUME SingleProcess, Init PROVE IInv
  OBVIOUS
<1>1. TypeInv
  BY InitType
<1>2. \A t \in Threads :
         OnDiskBounded(t) /\ InHandBounded(t) /\ FoundIsKept(t) /\ Unused(t)
  BY Located
     DEF Init, OnDiskBounded, InHandBounded, FoundIsKept, Unused, Booted, Appending
<1>3. Known = Range(file["user"]) \cup {ZeroRec("user")}
  BY DEF Init, Known, UserCopies
<1> QED
  BY <1>1, <1>2, <1>3, InitFilesAssumption DEF Init, IInv, IdInv

LEMMA NextIds == IInv /\ [Next]_vars => IInv'
<1> SUFFICES ASSUME IInv, [Next]_vars PROVE IInv'
  OBVIOUS
<1>1. TypeInv'
  BY NextType DEF IInv
<1>2. ASSUME NEW t \in Threads, Step(t) PROVE IInv'
  BY <1>1, <1>2, QuietIds, LockRecordIds, OverwriteIds, ShiftWriteIds,
     TruncateIds, AppendRecordIds, NewIdIds
     DEF Step, Quiet
<1>3. ASSUME UNCHANGED vars PROVE IInv'
  <2>1. IdInv'
    BY <1>3
       DEF vars, disk, local, IInv, IdInv, OnDiskBounded, InHandBounded,
           FoundIsKept, Unused, Booted, Appending, OpenFile, Proc, Contents,
           Known, UserCopies, Consistent
  <2>2. SingleProcess'
    BY DEF IInv, SingleProcess, Proc
  <2> QED
    BY <1>1, <2>1, <2>2 DEF IInv
<1> QED
  BY <1>1, <1>2, <1>3, CallIds, InitCounterIds, CrashIds DEF Next, Finished

\* However many threads of the server scan, update, delete, append and die, no
\* record ever mixes two users.
THEOREM IdentityIsKept == SingleProcess /\ Spec => []OneIdentityPerUid
<1>1. IInv => OneIdentityPerUid
  BY FewerAgree DEF IInv, IdInv, Known, OneIdentityPerUid
<1> QED
  BY InitIds, NextIds, <1>1, PTL DEF Spec

\* An id taken from a counter is on no record of the file and in nobody else's
\* hands until its record is appended.
THEOREM IdsAreFresh == SingleProcess /\ Spec => []NewIdIsUnused
<1>1. IInv => NewIdIsUnused
  BY DEF IInv, IdInv, Unused, NewIdIsUnused, Ids, Range
<1> QED
  BY InitIds, NextIds, <1>1, PTL DEF Spec

JournalStep ==
  \/ file'["trans"] = file["trans"]
  \/ \E t \in Threads :
       /\ file'["trans"] = Append(file["trans"], op[t].rec)
       /\ op[t].rec.id \notin Ids(file["trans"])

\* No step, whatever call, process or crash it belongs to, changes or removes a
\* transaction that is on record, and each new one gets an id of its own.
THEOREM JournalIsAppendOnly == SingleProcess /\ Spec => JournalOnlyGrows
<1>1. IInv /\ [Next]_vars => [JournalStep]_vars
  <2> SUFFICES ASSUME IInv, [Next]_vars PROVE JournalStep
    OBVIOUS
  <2>1. /\ TypeInv /\ FilesOK /\ ThreadsOK
        /\ \A t \in Threads : OpenFile(t) \in Files
    BY Located DEF IInv, TypeInv, TypeOK
  <2>2. ASSUME NEW t \in Threads, op[t].fn \in Updates \cup Deletes
        PROVE  OpenFile(t) # "trans"
    BY <2>2 DEF OpenFile, FileAt, TableOf, UserFns, TransFns, Updates, Deletes
  <2>3. ASSUME NEW t \in Threads, Overwrite(t) \/ ShiftWrite(t) \/ Truncate(t)
        PROVE  JournalStep
    <3>1. op[t].fn \in Updates \cup Deletes
      BY <2>1, <2>3
         DEF TypeInv, Control, Overwrite, ShiftWrite, Truncate, Cut, Goto, Shifting
    <3>2. file'["trans"] = file["trans"]
      <4>1. OpenFile(t) # "trans"
        BY <2>2, <3>1
      <4>2. CASE Overwrite(t)
        BY <2>1, <4>1, <4>2 DEF Overwrite, SetFile, FilesOK, Files
      <4>3. CASE ShiftWrite(t)
        BY <2>1, <4>1, <4>3 DEF ShiftWrite, SetFile, FilesOK, Files
      <4>4. CASE Truncate(t)
        BY <2>1, <4>1, <4>4 DEF Truncate, Cut, SetFile, FilesOK, Files
      <4> QED
        BY <2>3, <4>2, <4>3, <4>4
    <3> QED
      BY <3>2 DEF JournalStep
  <2>4. ASSUME NEW t \in Threads, AppendRecord(t) PROVE JournalStep
    <3>1. CASE OpenFile(t) = "trans"
      <4>1. file'["trans"] = Append(file["trans"], op[t].rec)
        BY <2>1, <2>4, <3>1 DEF AppendRecord, Appended, SetFile, Contents, FilesOK
      <4>2. op[t].rec.id \notin Ids(file["trans"])
        <5>1. Appending(t)
          BY <2>1, <2>4
             DEF AppendRecord, Goto, TypeInv, Control, AppendPCs, Appending
        <5> QED
          BY <3>1, <5>1 DEF IInv, IdInv, Unused, Contents, Ids, Range
      <4> QED
        BY <4>1, <4>2 DEF JournalStep
    <3>2. CASE OpenFile(t) # "trans"
      BY <2>1, <2>4, <3>2 DEF AppendRecord, SetFile, FilesOK, JournalStep, Files
    <3> QED
      BY <3>1, <3>2
  <2>5. ASSUME NEW t \in Threads, Quiet(t) \/ LockRecord(t) \/ NewId(t) \/ Call(t)
        PROVE  UNCHANGED file
    BY <2>5
       DEF Quiet, BeginScan, ReadHit, ReadMiss, ReadInto, ReadEOF, EndScan,
           OverwriteFails, LockTail, ShiftRead, ShiftWriteFails, ShiftEOF,
           SeekLast, EndWrite, OpenForAppend, LockEnd, AppendFails, UnlockEnd,
           SeekSize, Close, OpenFails, LockRecord, NewId, Call, Invoke, disk, local
  <2>6. ASSUME NEW p \in Procs, InitCounter(p) \/ Crash(p) PROVE UNCHANGED file
    BY <2>6 DEF InitCounter, Crash
  <2>7. ASSUME UNCHANGED vars PROVE UNCHANGED file
    BY <2>7 DEF vars, disk
  <2> QED
    BY <2>3, <2>4, <2>5, <2>6, <2>7
       DEF Next, Step, Quiet, Finished, JournalStep
<1> QED
  BY InitIds, NextIds, <1>1, PTL DEF Spec, JournalOnlyGrows, JournalStep

=============================================================================
