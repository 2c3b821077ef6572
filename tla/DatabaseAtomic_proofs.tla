------------------------ MODULE DatabaseAtomic_proofs ------------------------
(***************************************************************************)
(* What the calls of lib/database.c give to whoever keeps those apart that *)
(* are not atomic in company: the stored users are what the comments say   *)
(* of them, and every call behaves as if it were executed in one step.     *)
(***************************************************************************)
EXTENDS DatabaseAtomic, DatabaseClaims, Database_apart_proofs, SequenceTheorems

\* At the start no two users share a name and every user has an account.
StartsConsistent ==
  \A s \in InitFiles :
    /\ \A a, b \in Range(s["user"]) : a.uname = b.uname => a.id = b.id
    /\ \A a \in Range(s["user"]) : a.aid \in Ids(s["account"])

\* Which system calls a function makes, and in which of its lookups.
Placed(t) ==
  /\ op[t].fn \in Counts => pc[t] \in {"idle", "size", "close", "done"}
  /\ op[t].fn \in Creates \ {"create_user"} => pc[t] \in AppendPCs \cup {"close", "done"}
  /\ op[t].fn = "create_user" /\ pc[t] \in {"lock", "scan", "unlock"} => stage[t] < 3
  /\ op[t].fn = "delete_account" => stage[t] < 3
  /\ pc[t] = "wunlock" => WritesInPlace(op[t].fn, stage[t])
  /\ op[t].fn \notin Bulk => out[t] = <<>>

\* The lookup of a stage has said that the call may go on.
Cleared(t, s) ==
  \/ /\ stage[t] = s
     /\ pc[t] = "unlock" /\ ScanStatus(op[t], s, iter[t] # NoRec, Len(out[t])) = 0
  \/ stage[t] = s /\ pc[t] = "close" /\ ret[t] = 0
  \/ stage[t] > s

\* The record of a create is not written yet.
Unwritten(t) == pc[t] # "aunlock" /\ (stage[t] = 3 => pc[t] # "close")

\* What the lookups of create_user and delete_account have found out is still
\* true when the call writes.
Established(t) ==
  Calling(t) =>
    /\ op[t].fn = "create_user" /\ Unwritten(t) =>
         /\ Cleared(t, 1) => \A a \in Range(Users) : a.uname # op[t].rec.uname
         /\ Cleared(t, 2) => op[t].rec.aid \in Ids(file["account"])
    /\ op[t].fn = "delete_account" /\ Cleared(t, 1) =>
         \A a \in Range(Users) : a.aid # op[t].rec.id

ClaimInv ==
  /\ ApartInv
  /\ UsersAreConsistent
  /\ \A t \in Threads : Placed(t) /\ Established(t)

(***************************************************************************)
(* Where a call is.                                                        *)
(***************************************************************************)

LEMMA ScanPlaced ==
  ASSUME TypeInv, NEW t \in Threads, Scanning(t), Placed(t) PROVE Placed(t)'
<1>1. /\ ThreadsOK /\ op'[t].fn = op[t].fn /\ stage'[t] = stage[t]
      /\ op[t].fn \notin Bulk => out'[t] = out[t]
  BY ScanSameFile
     DEF TypeInv, TypeOK, Scanning, BeginScan, ReadHit, ReadMiss, ReadInto, ReadEOF,
         EndScan, LockRecord, local
<1>2. /\ pc[t] \in {"lock", "scan", "unlock", "wlock"}
      /\ pc'[t] \in {"scan", "unlock", "wlock", "write", "close"}
      /\ pc'[t] \in {"scan", "unlock"} => pc[t] \in {"lock", "scan"}
  BY <1>1 DEF Scanning, BeginScan, ReadHit, ReadMiss, ReadInto, ReadEOF, EndScan,
              LockRecord, Goto, ThreadsOK
<1> QED
  BY <1>1, <1>2 DEF Placed, AppendPCs

LEMMA WritePlaced ==
  ASSUME TypeInv, NEW t \in Threads, Placed(t),
         Overwrite(t) \/ OverwriteFails(t) \/ ShiftWrite(t) \/ Truncate(t)
           \/ ShiftStep(t) \/ EndWrite(t)
  PROVE  Placed(t)'
<1>1. /\ ThreadsOK /\ op' = op /\ stage' = stage /\ out' = out /\ Control(t)
  BY DEF TypeInv, TypeOK, Overwrite, OverwriteFails, ShiftWrite, Truncate, ShiftStep,
         EndWrite, LockTail, ShiftRead, ShiftWriteFails, ShiftEOF, SeekLast, local
<1>2. /\ pc[t] \in {"write", "wlock", "wunlock"} \/ Shifting(t)
      /\ pc'[t] \in {"wunlock", "shift", "shiftw", "seekend", "trunc", "close"}
      /\ pc'[t] = "wunlock" => pc[t] = "write" \/ Shifting(t)
  BY <1>1
     DEF Overwrite, OverwriteFails, ShiftWrite, Truncate, ShiftStep, EndWrite, LockTail,
         ShiftRead, ShiftWriteFails, ShiftEOF, SeekLast, Goto, ThreadsOK, Shifting
<1>3. WritesInPlace(op[t].fn, stage[t])
  BY <1>2 DEF Control, Placed, TypeInv
<1>4. op[t].fn \notin Counts \cup Creates
  BY <1>3 DEF WritesInPlace, Updates, Counts, Creates
<1> QED
  BY <1>1, <1>2, <1>3, <1>4 DEF Placed, Creates

LEMMA AppendPlaced ==
  ASSUME TypeInv, NEW t \in Threads, Placed(t),
         NewId(t) \/ OpenForAppend(t) \/ LockEnd(t) \/ AppendRecord(t)
           \/ AppendFails(t) \/ UnlockEnd(t)
  PROVE  Placed(t)'
<1>1. /\ ThreadsOK /\ op'[t].fn = op[t].fn /\ stage' = stage /\ out' = out /\ Control(t)
  BY LaterSteps
     DEF TypeInv, TypeOK, NewId, OpenForAppend, LockEnd, AppendRecord, AppendFails,
         UnlockEnd, local, WithRec, ThreadsOK
<1>2. pc[t] \in AppendPCs /\ pc'[t] \in {"aopen", "alock", "append", "aunlock", "close"}
  BY <1>1
     DEF NewId, OpenForAppend, LockEnd, AppendRecord, AppendFails, UnlockEnd, Goto,
         ThreadsOK, AppendPCs
<1>3. op[t].fn \in Creates
  BY <1>1, <1>2 DEF Control
<1>4. op[t].fn \notin Counts /\ op[t].fn # "delete_account"
  BY <1>3 DEF Creates, Counts
<1> QED
  BY <1>1, <1>2, <1>3, <1>4 DEF Placed, AppendPCs

LEMMA EndPlaced ==
  ASSUME TypeInv, NEW t \in Threads, Placed(t),
         SeekSize(t) \/ Close(t) \/ OpenFails(t)
  PROVE  Placed(t)'
<1>1. ThreadsOK /\ op' = op /\ out' = out /\ Control(t)
  BY DEF TypeInv, TypeOK, SeekSize, Close, OpenFails
<1>2. CASE SeekSize(t)
  <2>1. pc[t] = "size" /\ pc'[t] = "close" /\ stage' = stage
    BY <1>1, <1>2 DEF SeekSize, Goto, ThreadsOK
  <2> QED
    BY <1>1, <2>1 DEF Placed
<1>3. CASE Close(t)
  <2>1. /\ pc[t] = "close" /\ stage'[t] = NextStage(t)
        /\ pc'[t] = IF NextStage(t) = stage[t] THEN "done" ELSE StageCall(NextStage(t))
    BY <1>1, <1>3 DEF Close, Goto, ThreadsOK
  <2>2. CASE NextStage(t) = stage[t]
    BY <1>1, <2>1, <2>2 DEF Placed
  <2>3. CASE NextStage(t) # stage[t]
    <3>1. stage[t] \in 1 .. 3 /\ NextStage(t) = stage[t] + 1 /\ HasNext(t)
      BY <1>1, <2>3 DEF NextStage, ThreadsOK
    <3>2. /\ op[t].fn \in {"create_user", "delete_account"}
          /\ op[t].fn = "delete_account" => stage'[t] = 2
          /\ pc'[t] = IF stage'[t] = 3 THEN "newid" ELSE "lock"
          /\ stage'[t] < 3 \/ stage'[t] = 3
      BY <2>1, <2>3, <3>1 DEF HasNext, StageCall
    <3> QED
      BY <1>1, <3>2 DEF Placed, Counts, Creates
  <2> QED
    BY <2>2, <2>3
<1>4. CASE OpenFails(t)
  <2>1. \/ pc'[t] = "done" /\ stage' = stage
        \/ pc'[t] = "newid" /\ op[t].fn = "create_user"
    BY <1>1, <1>4 DEF OpenFails, ThreadsOK
  <2> QED
    BY <1>1, <2>1 DEF Placed, Counts, Creates
<1> QED
  BY <1>2, <1>3, <1>4

LEMMA StepPlaced ==
  ASSUME TypeInv, NEW t \in Threads, Placed(t), Step(t) PROVE Placed(t)'
<1>1. CASE Scanning(t)
  BY <1>1, ScanPlaced
<1>2. CASE ~Scanning(t)
  BY <1>2, WritePlaced, AppendPlaced, EndPlaced DEF Step, Scanning, ShiftStep
<1> QED
  BY <1>1, <1>2

\* A step of one thread leaves everything of the others alone.
LEMMA OthersAsTheyWere ==
  ASSUME TypeInv, NEW t \in Threads, Step(t), NEW u \in Threads \ {t}
  PROVE  /\ pc'[u] = pc[u] /\ op'[u] = op[u] /\ stage'[u] = stage[u]
         /\ cur'[u] = cur[u] /\ iter'[u] = iter[u] /\ ret'[u] = ret[u]
         /\ out'[u] = out[u]
<1>1. ThreadsOK
  BY DEF TypeInv, TypeOK
<1>2. out'[u] = out[u]
  BY <1>1 DEF ThreadsOK, Step, BeginScan, ReadHit, ReadMiss, ReadInto, ReadEOF, EndScan,
         LockRecord, Overwrite, OverwriteFails, LockTail, ShiftRead, ShiftWrite,
         ShiftWriteFails, ShiftEOF, SeekLast, Truncate, EndWrite, NewId,
         OpenForAppend, LockEnd, AppendRecord, AppendFails, UnlockEnd, SeekSize,
         Close, OpenFails, local
<1> QED
  BY <1>2, OthersStandStill

LEMMA SamePlaced ==
  ASSUME NEW u \in Threads, Placed(u), pc'[u] = pc[u], op'[u] = op[u],
         stage'[u] = stage[u], out'[u] = out[u]
  PROVE  Placed(u)'
BY DEF Placed

\* The first system call of a function, and what a call starts with.
LEMMA Called ==
  ASSUME TypeInv, NEW t \in Threads, NEW o \in Ops, Invoke(t, o)
  PROVE  /\ pc[t] \in {"idle", "done"} /\ pc'[t] = FirstCall(o.fn)
         /\ pc'[t] \in {"lock", "newid", "size"} /\ op'[t] = o
         /\ stage'[t] = FirstStage(o.fn) /\ cur'[t] = 0 /\ iter'[t] = NoRec
         /\ out'[t] = <<>> /\ ret'[t] = 0 /\ file' = file /\ OpOk(o)
         /\ \A u \in Threads \ {t} :
               /\ pc'[u] = pc[u] /\ op'[u] = op[u] /\ stage'[u] = stage[u]
               /\ cur'[u] = cur[u] /\ from'[u] = from[u] /\ iter'[u] = iter[u]
               /\ ret'[u] = ret[u] /\ out'[u] = out[u]
<1>1. ThreadsOK /\ OpOk(o)
  BY OpsAssumption DEF TypeInv, TypeOK
<1> QED
  BY <1>1 DEF Invoke, Begin, ThreadsOK, disk, FirstCall

LEMMA CallPlaced ==
  ASSUME TypeInv, NEW t \in Threads, NEW o \in Ops, Invoke(t, o) PROVE Placed(t)'
<1>1. /\ pc'[t] = FirstCall(o.fn) /\ op'[t] = o /\ stage'[t] = FirstStage(o.fn)
      /\ out'[t] = <<>> /\ o.fn \in Fns
  BY Called DEF OpOk
<1>2. CASE o.fn \in Creates \ {"create_user"}
  <2>1. pc'[t] = "newid" /\ stage'[t] = 3
    BY <1>1, <1>2 DEF FirstCall, FirstStage
  <2> QED
    BY <1>1, <1>2, <2>1 DEF Placed, Creates, Counts, AppendPCs
<1>3. CASE o.fn \in Counts
  <2>1. pc'[t] = "size" /\ stage'[t] = 1
    BY <1>1, <1>3 DEF FirstCall, FirstStage, Counts, Creates
  <2> QED
    BY <1>1, <1>3, <2>1 DEF Placed, Creates, Counts
<1>4. CASE o.fn \notin Counts \cup (Creates \ {"create_user"})
  <2>1. pc'[t] = "lock" /\ stage'[t] = 1
    BY <1>1, <1>4 DEF FirstCall, FirstStage
  <2> QED
    BY <1>1, <1>4, <2>1 DEF Placed
<1> QED
  BY <1>2, <1>3, <1>4

\* A thread of a killed process has not called anything.
LEMMA Killed ==
  ASSUME NEW p \in Procs, Crash(p), NEW u \in Threads
  PROVE  /\ file' = file
         /\ Proc(u) = p => /\ pc'[u] = "idle" /\ op'[u] = NoOp /\ stage'[u] = 1
                           /\ out'[u] = <<>> /\ ret'[u] = 0
         /\ Proc(u) # p => /\ pc'[u] = pc[u] /\ op'[u] = op[u] /\ stage'[u] = stage[u]
                           /\ cur'[u] = cur[u] /\ from'[u] = from[u]
                           /\ iter'[u] = iter[u] /\ ret'[u] = ret[u] /\ out'[u] = out[u]
BY DEF Crash

LEMMA NextPlaced ==
  ASSUME TypeInv, \A t \in Threads : Placed(t), [Next]_vars
  PROVE  \A t \in Threads : Placed(t)'
<1>1. ASSUME NEW t \in Threads, Step(t) PROVE \A u \in Threads : Placed(u)'
  BY <1>1, StepPlaced, OthersAsTheyWere, SamePlaced
<1>2. ASSUME NEW t \in Threads, Call(t) PROVE \A u \in Threads : Placed(u)'
  <2>1. PICK o \in Ops : Invoke(t, o)
    BY <1>2 DEF Call
  <2> QED
    BY <2>1, Called, CallPlaced, SamePlaced
<1>3. ASSUME NEW p \in Procs, Crash(p) PROVE \A u \in Threads : Placed(u)'
  <2> TAKE u \in Threads
  <2>1. CASE Proc(u) = p
    BY <1>3, <2>1, Killed DEF Placed, NoOp, Creates, Counts
  <2>2. CASE Proc(u) # p
    BY <1>3, <2>2, Killed, SamePlaced
  <2> QED
    BY <2>1, <2>2
<1>4. ASSUME UNCHANGED <<pc, local>> PROVE \A u \in Threads : Placed(u)'
  BY <1>4, SamePlaced DEF local
<1> QED
  BY <1>1, <1>2, <1>3, <1>4 DEF Next, InitCounter, Finished, vars

LEMMA InitPlaced == Init => \A t \in Threads : Placed(t)
BY DEF Init, Placed, NoOp, Creates, Counts

(***************************************************************************)
(* What the lookups of a call have established.                            *)
(***************************************************************************)

\* The calls that look something up before they write are alone under way.
LEMMA LooksUpAlone ==
  ASSUME KeptApart, NEW t \in Threads, NEW u \in Threads \ {t}, Calling(t), Calling(u)
  PROVE  op[u].fn \notin {"create_user", "delete_account"}
BY DEF KeptApart, AtomicFns, TransFns, Updates, Gets, Counts

\* The steps that decide nothing.
LEMMA NothingDecided ==
  ASSUME NEW t \in Threads, Calling(t), Established(t), file' = file, stage'[t] = stage[t],
         pc'[t] \notin {"unlock", "close"},
         op'[t].fn = op[t].fn, op'[t].rec.uname = op[t].rec.uname,
         op'[t].rec.aid = op[t].rec.aid,
         op'[t].fn = "delete_account" => op'[t].rec.id = op[t].rec.id,
         pc[t] = "aunlock" => pc'[t] = "aunlock",
         stage[t] = 3 => pc[t] # "close"
  PROVE  Established(t)'
<1>1. \A s \in 1 .. 2 : Cleared(t, s)' => Cleared(t, s)
  BY DEF Cleared
<1>2. Unwritten(t)' => Unwritten(t)
  BY DEF Unwritten
<1> QED
  BY <1>1, <1>2 DEF Established, Users

LookingUp(t) == op[t].fn \in {"create_user", "delete_account"}

\* What the lookups of the two functions look at.
LEMMA LookedUp ==
  ASSUME TypeInv, NEW t \in Threads, LookingUp(t), Placed(t),
         pc[t] \in {"lock", "scan", "unlock"}
  PROVE  /\ stage[t] \in {1, 2} /\ op[t].fn \notin Bulk
         /\ stage[t] = 1 => OpenFile(t) = "user" /\ Contents(t) = file["user"]
         /\ stage[t] = 2 => OpenFile(t) = "account" /\ Contents(t) = file["account"]
         /\ \A r : Matches(op[t], stage[t], r) <=>
              IF op[t].fn = "create_user"
              THEN IF stage[t] = 1 THEN r.uname = op[t].rec.uname ELSE r.id = op[t].rec.aid
              ELSE IF stage[t] = 1 THEN r.aid = op[t].rec.id ELSE r.id = op[t].rec.id
<1>1. stage[t] \in {1, 2}
  BY DEF LookingUp, Placed, TypeInv, TypeOK, ThreadsOK
<1> QED
  BY <1>1
     DEF LookingUp, Bulk, OpenFile, FileAt, TableOf, UserFns, TransFns, Contents, Matches

LEMMA HitEstablished ==
  ASSUME TypeInv, NEW t \in Threads, LookingUp(t), Placed(t), Established(t), ReadHit(t)
  PROVE  Established(t)'
<1>1. /\ ThreadsOK /\ pc[t] = "scan" /\ pc'[t] = "unlock" /\ op' = op /\ stage' = stage
      /\ file' = file /\ cur[t] >= 0 /\ cur[t] < Len(Contents(t)) /\ cur[t] \in Int
      /\ Matches(op[t], stage[t], Contents(t)[cur[t] + 1])
      /\ iter'[t] = Contents(t)[cur[t] + 1]
  BY DEF TypeInv, TypeOK, ThreadsOK, ReadHit, Goto, disk, Control
<1>2. cur[t] + 1 \in 1 .. Len(Contents(t))
  BY <1>1, FileSeq
<1>3. iter'[t] # NoRec
  <2>1. OpenFile(t) \in Files /\ Contents(t) \in Seq(RecOf(OpenFile(t)))
    BY Located, FileSeq
  <2>2. Contents(t)[cur[t] + 1] \in RecOf(OpenFile(t))
    BY <1>2, <2>1
  <2> QED
    BY <1>1, <2>1, <2>2, NoRecAssumption
<1>4. Calling(t)
  BY <1>1 DEF Calling
<1>5. CASE stage[t] = 1
  <2>1. ~Cleared(t, 1)' /\ ~Cleared(t, 2)'
    BY <1>1, <1>3, <1>5, LookedUp
       DEF Cleared, ScanStatus, LookingUp, ECONFLICT
  <2> QED
    BY <2>1 DEF Established
<1>6. CASE stage[t] = 2 /\ op[t].fn = "create_user"
  <2>1. Cleared(t, 1) /\ Unwritten(t)
    BY <1>1, <1>6 DEF Cleared, Unwritten
  <2>2. op[t].rec.aid \in Ids(file["account"])
    <3>1. Contents(t) = file["account"] /\ Contents(t)[cur[t] + 1].id = op[t].rec.aid
      BY <1>1, <1>6, LookedUp
    <3>2. DOMAIN file["account"] = 1 .. Len(file["account"])
      BY FileSeq DEF Files
    <3> QED
      BY <1>2, <3>1, <3>2 DEF Ids
  <2> QED
    BY <1>1, <1>4, <1>6, <2>1, <2>2 DEF Established, Users
<1>7. CASE stage[t] = 2 /\ op[t].fn = "delete_account"
  <2>1. Cleared(t, 1)
    BY <1>7 DEF Cleared
  <2> QED
    BY <1>1, <1>4, <1>7, <2>1 DEF Established, Users
<1> QED
  BY <1>1, <1>5, <1>6, <1>7, LookedUp DEF LookingUp

LEMMA EOFEstablished ==
  ASSUME TypeInv, NEW t \in Threads, LookingUp(t), Placed(t), Established(t), Sees(t),
         ReadEOF(t)
  PROVE  Established(t)'
<1>1. /\ ThreadsOK /\ pc[t] = "scan" /\ pc'[t] = "unlock" /\ op' = op /\ stage' = stage
      /\ file' = file /\ iter'[t] = NoRec /\ out' = out
      /\ cur[t] >= Len(Contents(t)) /\ cur[t] \in Int
  BY DEF TypeInv, TypeOK, ThreadsOK, ReadEOF, Goto, disk, Control, local
<1>2. \A r \in Range(Contents(t)) : ~Matches(op[t], stage[t], r)
  <2>1. \A i \in 1 .. cur[t] : ~Matches(op[t], stage[t], Contents(t)[i])
    BY <1>1, LookedUp DEF Sees, Passed
  <2>2. \A i \in DOMAIN Contents(t) : i \in 1 .. cur[t]
    BY <1>1, FileSeq
  <2> QED
    BY <2>1, <2>2 DEF Range
<1>3. Calling(t) /\ Unwritten(t)
  BY <1>1 DEF Calling, Unwritten
<1>4. CASE stage[t] = 1
  <2>1. ~Cleared(t, 2)'
    BY <1>1, <1>4 DEF Cleared
  <2>2. op[t].fn = "create_user" => \A a \in Range(Users) : a.uname # op[t].rec.uname
    BY <1>1, <1>2, <1>4, LookedUp DEF Users
  <2>3. op[t].fn = "delete_account" => \A a \in Range(Users) : a.aid # op[t].rec.id
    BY <1>1, <1>2, <1>4, LookedUp DEF Users
  <2> QED
    BY <1>1, <2>1, <2>2, <2>3 DEF Established, Users
<1>5. CASE stage[t] = 2
  <2>1. op[t].fn = "create_user" => ~Cleared(t, 2)'
    BY <1>1, <1>5 DEF Cleared, ScanStatus, Bulk, ECONFLICT
  <2>2. Cleared(t, 1)
    BY <1>5 DEF Cleared
  <2> QED
    BY <1>1, <1>3, <1>5, <2>1, <2>2 DEF Established, Users
<1> QED
  BY <1>1, <1>4, <1>5, LookedUp

LEMMA EndScanEstablished ==
  ASSUME TypeInv, NEW t \in Threads, LookingUp(t), Placed(t), Established(t), EndScan(t)
  PROVE  Established(t)'
<1>1. /\ ThreadsOK /\ pc[t] = "unlock" /\ pc'[t] \in {"wlock", "close"} /\ op' = op
      /\ stage' = stage /\ file' = file
      /\ ret'[t] = ScanStatus(op[t], stage[t], iter[t] # NoRec, Len(out[t]))
  BY DEF TypeInv, TypeOK, ThreadsOK, EndScan, Goto, disk
<1>2. Calling(t) /\ Unwritten(t)
  BY <1>1 DEF Calling, Unwritten
<1>3. \A s \in 1 .. 2 : Cleared(t, s)' => Cleared(t, s)
  BY <1>1 DEF Cleared
<1> QED
  BY <1>1, <1>2, <1>3 DEF Established, Users

LEMMA CloseEstablished ==
  ASSUME TypeInv, NEW t \in Threads, LookingUp(t), Placed(t), Established(t), Close(t)
  PROVE  Established(t)'
<1>1. /\ ThreadsOK /\ pc[t] = "close" /\ op' = op /\ file' = file
      /\ stage[t] \in 1 .. 3 /\ stage'[t] = NextStage(t)
      /\ pc'[t] = IF NextStage(t) = stage[t] THEN "done" ELSE StageCall(NextStage(t))
  BY DEF TypeInv, TypeOK, ThreadsOK, Close, Goto, disk
<1>2. CASE NextStage(t) = stage[t]
  BY <1>1, <1>2 DEF Established, Calling
<1>3. CASE NextStage(t) # stage[t]
  <2>1. /\ ret[t] = 0 /\ stage'[t] = stage[t] + 1 /\ stage[t] < 3
        /\ pc'[t] \in {"newid", "lock"}
    BY <1>1, <1>3 DEF NextStage, HasNext, StageCall
  <2>2. Calling(t) /\ Unwritten(t)
    BY <1>1, <2>1 DEF Calling, Unwritten
  <2>3. \A s \in 1 .. 2 : Cleared(t, s)' => Cleared(t, s)
    BY <1>1, <2>1 DEF Cleared
  <2> QED
    BY <1>1, <2>2, <2>3 DEF Established, Users
<1> QED
  BY <1>2, <1>3

\* What comes after the write() of a create, and the writes of a delete.
LEMMA WriteEstablished ==
  ASSUME TypeInv, NEW t \in Threads, LookingUp(t), Placed(t), Established(t),
         AppendRecord(t) \/ AppendFails(t) \/ UnlockEnd(t) \/ ShiftWrite(t)
           \/ Truncate(t) \/ EndWrite(t)
  PROVE  Established(t)'
<1>1. /\ ThreadsOK /\ Control(t) /\ op' = op /\ stage' = stage
  BY DEF TypeInv, TypeOK, AppendRecord, AppendFails, UnlockEnd, ShiftWrite, Truncate,
         EndWrite, local
<1>2. CASE AppendRecord(t) \/ AppendFails(t) \/ UnlockEnd(t)
  <2>1. /\ op[t].fn \in Creates /\ stage[t] = 3 /\ pc'[t] \in {"aunlock", "close"}
    BY <1>1, <1>2
       DEF AppendRecord, AppendFails, UnlockEnd, Goto, Control, AppendPCs, ThreadsOK
  <2>2. ~Unwritten(t)' /\ op[t].fn # "delete_account"
    BY <1>1, <2>1 DEF Unwritten, Creates
  <2> QED
    BY <1>1, <2>2 DEF Established
<1>3. CASE ShiftWrite(t) \/ Truncate(t) \/ EndWrite(t)
  <2>1. /\ WritesInPlace(op[t].fn, stage[t]) /\ Calling(t)
    BY <1>1, <1>3
       DEF ShiftWrite, Truncate, EndWrite, Goto, Control, Shifting, Placed, Calling
  <2>2. op[t].fn = "delete_account" /\ stage[t] = 2
    BY <2>1 DEF WritesInPlace, LookingUp, Updates
  <2>3. file'["user"] = file["user"]
    <3>1. OpenFile(t) = "account" /\ "user" \in Files
      BY <2>2 DEF OpenFile, FileAt, TableOf, UserFns, TransFns, Files
    <3>2. CASE ShiftWrite(t) \/ Truncate(t)
      BY <3>1, <3>2, OtherFiles
    <3>3. CASE EndWrite(t)
      BY <3>3 DEF EndWrite, disk
    <3> QED
      BY <1>3, <3>2, <3>3
  <2>4. Cleared(t, 1)
    BY <2>2 DEF Cleared
  <2> QED
    BY <1>1, <2>1, <2>2, <2>3, <2>4 DEF Established, Users
<1> QED
  BY <1>2, <1>3

\* The other steps of the two functions.
LEMMA QuietEstablished ==
  ASSUME TypeInv, NEW t \in Threads, LookingUp(t), Placed(t), Established(t),
         BeginScan(t) \/ ReadMiss(t) \/ LockTail(t) \/ ShiftRead(t) \/ ShiftWriteFails(t)
           \/ ShiftEOF(t) \/ SeekLast(t) \/ NewId(t) \/ OpenForAppend(t) \/ LockEnd(t)
  PROVE  Established(t)'
<1>1. /\ ThreadsOK /\ CallOK(t) /\ Control(t) /\ file' = file /\ stage' = stage
      /\ ~NewId(t) => op' = op
  BY DEF TypeInv, TypeOK, BeginScan, ReadMiss, LockTail, ShiftRead, ShiftWriteFails,
         ShiftEOF, SeekLast, NewId, OpenForAppend, LockEnd, disk, local
<1>2. /\ pc[t] \notin {"idle", "done", "close", "aunlock"}
      /\ pc'[t] \notin {"unlock", "close"}
  BY <1>1
     DEF BeginScan, ReadMiss, LockTail, ShiftRead, ShiftWriteFails, ShiftEOF, SeekLast,
         NewId, OpenForAppend, LockEnd, Goto, ThreadsOK
<1>3. /\ op'[t].fn = op[t].fn /\ op'[t].rec.uname = op[t].rec.uname
      /\ op'[t].rec.aid = op[t].rec.aid
      /\ op'[t].fn = "delete_account" => op'[t].rec.id = op[t].rec.id
  <2>1. CASE ~NewId(t)
    BY <1>1, <2>1
  <2>2. CASE NewId(t)
    <3>1. op[t].fn = "create_user"
      BY <1>1, <2>2 DEF NewId, Goto, Control, AppendPCs, Creates, LookingUp
    <3>2. op[t].rec \in UserRec
      BY <1>1, <3>1, Tables DEF CallOK, OpOk
    <3>3. PICK n : op'[t] = WithRec(op[t], [op[t].rec EXCEPT !.id = n])
      BY <1>1, <2>2 DEF NewId, ThreadsOK
    <3>4. [op[t].rec EXCEPT !.id = n] =
            [id |-> n, uname |-> op[t].rec.uname, aid |-> op[t].rec.aid,
             info |-> op[t].rec.info]
      BY <3>2 DEF UserRec
    <3> QED
      BY <3>1, <3>3, <3>4 DEF WithRec
  <2> QED
    BY <2>1, <2>2
<1>4. Calling(t)
  BY <1>2 DEF Calling
<1> QED
  BY <1>1, <1>2, <1>3, <1>4, NothingDecided

LEMMA StepEstablished ==
  ASSUME TypeInv, NEW t \in Threads, Placed(t), Established(t), Sees(t), Step(t),
         "open" \notin Faults
  PROVE  Established(t)'
<1>1. Control(t) /\ op'[t].fn = op[t].fn
  BY ScanSameFile, LaterSteps DEF TypeInv
<1>2. CASE ~LookingUp(t)
  BY <1>1, <1>2 DEF LookingUp, Established
<1>3. CASE LookingUp(t)
  <2>1. /\ op[t].fn \notin Bulk \cup Updates \cup Counts
    BY <1>3 DEF LookingUp, Bulk, Updates, Counts
  <2>2. /\ ~ReadInto(t) /\ ~LockRecord(t) /\ ~Overwrite(t) /\ ~OverwriteFails(t)
        /\ ~SeekSize(t) /\ ~OpenFails(t)
    BY <1>1, <2>1
       DEF ReadInto, LockRecord, Overwrite, OverwriteFails, SeekSize, OpenFails,
           Control, Goto
  <2> QED
    BY <1>3, <2>2, HitEstablished, EOFEstablished, EndScanEstablished, CloseEstablished,
       WriteEstablished, QuietEstablished DEF Step
<1> QED
  BY <1>2, <1>3

\* What a call has established nobody else undoes.
LEMMA SameEstablished ==
  ASSUME NEW u \in Threads, Established(u), file' = file, pc'[u] = pc[u], op'[u] = op[u],
         stage'[u] = stage[u], iter'[u] = iter[u], ret'[u] = ret[u], out'[u] = out[u]
  PROVE  Established(u)'
<1>1. \A s \in 1 .. 2 : Cleared(u, s)' <=> Cleared(u, s)
  BY DEF Cleared
<1>2. (Calling(u)' <=> Calling(u)) /\ (Unwritten(u)' <=> Unwritten(u))
  BY DEF Calling, Unwritten
<1> QED
  BY <1>1, <1>2 DEF Established, Users

LEMMA NextEstablished ==
  ASSUME ApartInv, \A t \in Threads : Placed(t) /\ Established(t), "open" \notin Faults,
         [Next /\ KeptApart']_vars
  PROVE  \A t \in Threads : Established(t)'
<1>1. TypeInv /\ KeptApart /\ \A t \in Threads : Sees(t)
  BY DEF ApartInv, IInv
<1>2. ASSUME NEW t \in Threads, Step(t) PROVE \A u \in Threads : Established(u)'
  <2>1. Established(t)'
    BY <1>1, <1>2, StepEstablished
  <2>2. ASSUME NEW u \in Threads \ {t} PROVE Established(u)'
    <3>1. pc'[u] = pc[u] /\ op'[u] = op[u]
      BY <1>1, <1>2, OthersAsTheyWere
    <3>2. Calling(u) => ~LookingUp(u)
      BY <1>1, <1>2, StepIsCalling, LooksUpAlone DEF LookingUp
    <3> QED
      BY <3>1, <3>2 DEF Established, Calling, LookingUp
  <2> QED
    BY <2>1, <2>2
<1>3. ASSUME NEW t \in Threads, Call(t) PROVE \A u \in Threads : Established(u)'
  <2>1. PICK o \in Ops : Invoke(t, o)
    BY <1>3 DEF Call
  <2>2. Established(t)'
    <3>1. pc'[t] \in {"lock", "newid", "size"} /\ op'[t] = o /\ stage'[t] = FirstStage(o.fn)
      BY <1>1, <2>1, Called
    <3>2. CASE o.fn \notin {"create_user", "delete_account"}
      BY <3>1, <3>2 DEF Established
    <3>3. CASE o.fn \in {"create_user", "delete_account"}
      <4>1. stage'[t] = 1
        BY <3>1, <3>3 DEF FirstStage, Creates
      <4>2. ~Cleared(t, 1)' /\ ~Cleared(t, 2)'
        BY <3>1, <4>1 DEF Cleared
      <4> QED
        BY <4>2 DEF Established
    <3> QED
      BY <3>2, <3>3
  <2> QED
    BY <1>1, <2>1, <2>2, Called, SameEstablished
<1>4. ASSUME NEW p \in Procs, Crash(p) PROVE \A u \in Threads : Established(u)'
  <2> TAKE u \in Threads
  <2>1. CASE Proc(u) = p
    BY <1>4, <2>1, Killed DEF Established, Calling
  <2>2. CASE Proc(u) # p
    BY <1>4, <2>2, Killed, SameEstablished
  <2> QED
    BY <2>1, <2>2
<1>5. ASSUME UNCHANGED <<file, pc, local>> PROVE \A u \in Threads : Established(u)'
  BY <1>5, SameEstablished DEF local
<1> QED
  BY <1>2, <1>3, <1>4, <1>5 DEF Next, InitCounter, Finished, vars, disk

(***************************************************************************)
(* The stored users.                                                       *)
(***************************************************************************)

\* A write that brings no new user and takes no account away.
LEMMA StillConsistent ==
  ASSUME UsersAreConsistent,
         \A a \in Range(file'["user"]) : \E b \in Range(file["user"]) :
           SameIdentity("user", a, b),
         \A a \in Range(file'["user"]) :
           a.aid \in Ids(file["account"]) => a.aid \in Ids(file'["account"])
  PROVE  UsersAreConsistent'
<1>1. UnameIsUnique'
  <2> SUFFICES ASSUME NEW a \in Range(file'["user"]), NEW b \in Range(file'["user"]),
                      a.uname = b.uname
               PROVE  a.id = b.id
    BY DEF UnameIsUnique, Users
  <2>1. PICK c \in Range(file["user"]) : SameIdentity("user", a, c)
    OBVIOUS
  <2>2. PICK d \in Range(file["user"]) : SameIdentity("user", b, d)
    OBVIOUS
  <2> QED
    BY <2>1, <2>2 DEF UsersAreConsistent, UnameIsUnique, Users, SameIdentity
<1>2. LinkedAccountExists'
  <2> SUFFICES ASSUME NEW a \in Range(file'["user"]) PROVE a.aid \in Ids(file'["account"])
    BY DEF LinkedAccountExists, Users
  <2>1. PICK c \in Range(file["user"]) : SameIdentity("user", a, c)
    OBVIOUS
  <2> QED
    BY <2>1 DEF UsersAreConsistent, LinkedAccountExists, Users, SameIdentity
<1> QED
  BY <1>1, <1>2 DEF UsersAreConsistent

LEMMA OverwriteConsistent ==
  ASSUME ApartInv, UsersAreConsistent, TypeInv', NEW t \in Threads, Overwrite(t)
  PROVE  UsersAreConsistent'
<1>1. IInv /\ TypeInv /\ Sees(t) /\ Standing(t) /\ "user" \in Files /\ "account" \in Files
  BY DEF ApartInv, IInv, Files
<1>2. /\ Len(file'["user"]) = Len(file["user"])
      /\ \A i \in 1 .. Len(file["user"]) :
           SameIdentity("user", file'["user"][i], file["user"][i])
  BY <1>1, OverwriteStays DEF Stays
<1>3. Ids(file'["account"]) = Ids(file["account"])
  BY <1>1, OverwriteAlone
<1>4. DOMAIN file'["user"] = DOMAIN file["user"] /\ DOMAIN file["user"] = 1 .. Len(file["user"])
  <2>1. DOMAIN file["user"] = 1 .. Len(file["user"])
    BY <1>1, FileSeq
  <2>2. DOMAIN file'["user"] = 1 .. Len(file'["user"])
    BY <1>1 DEF TypeInv, TypeOK, FilesOK
  <2> QED
    BY <1>2, <2>1, <2>2
<1>5. \A a \in Range(file'["user"]) : \E b \in Range(file["user"]) : SameIdentity("user", a, b)
  BY <1>2, <1>4 DEF Range
<1> QED
  BY <1>3, <1>5, StillConsistent

\* What a delete copies down, and what it leaves, was in the file.
LEMMA ShiftWriteRange ==
  ASSUME IInv, NEW t \in Threads, Standing(t), ShiftWrite(t)
  PROVE  Range(file'[OpenFile(t)]) \subseteq Range(file[OpenFile(t)])
<1> DEFINE f == OpenFile(t)
           s == file[f]
           c == cur[t]
<1>1. /\ TypeInv /\ FilesOK /\ SpareIsNext(t) /\ f \in Files /\ s \in Seq(RecOf(f))
      /\ Contents(t) = s /\ c \in Int /\ Len(s) \in Nat
  BY Located DEF Standing, IInv, TypeInv, TypeOK, FilesOK, Contents, ThreadsOK
<1>2. c \in 1 .. Len(s) /\ c - 1 \in 1 .. Len(s) /\ iter[t] = s[c]
  BY <1>1 DEF ShiftWrite, Goto, SpareIsNext, Spare
<1>3. file'[f] = WriteAt(s, c - 2, s[c], ZeroRec(f))
  BY <1>1, <1>2 DEF ShiftWrite, SetFile, ShiftTarget, Contents, FilesOK
<1> HIDE DEF f, s, c
<1>4. /\ s[c] \in RecOf(f) /\ c - 2 \in Int /\ 0 <= c - 2 /\ c - 2 < Len(s)
  BY <1>1, <1>2
<1>5. DOMAIN file'[f] = 1 .. Len(s)
  BY <1>1, <1>3, <1>4, WriteAtDomain
<1>6. \A i \in 1 .. Len(s) : file'[f][i] = s[i] \/ file'[f][i] = s[c]
  BY <1>1, <1>3, <1>4, WriteAtStays
<1>7. DOMAIN s = 1 .. Len(s)
  BY <1>1
<1> QED
  BY <1>2, <1>5, <1>6, <1>7 DEF Range, f, s

LEMMA TruncateRange ==
  ASSUME IInv, NEW t \in Threads, Standing(t), Truncate(t)
  PROVE  Range(file'[OpenFile(t)]) \subseteq Range(file[OpenFile(t)])
<1> DEFINE f == OpenFile(t)
           s == file[f]
           n == Len(s)
<1>1. /\ TypeInv /\ FilesOK /\ SpareIsNext(t) /\ f \in Files /\ s \in Seq(RecOf(f))
      /\ Contents(t) = s /\ n \in Nat
  BY Located DEF Standing, IInv, TypeInv, TypeOK, FilesOK, Contents
<1>2. cur[t] = n - 1 /\ n \in 1 .. n
  BY <1>1 DEF Truncate, Goto, SpareIsNext, Spare
<1>3. file'[f] = [i \in 1 .. n - 1 |-> IF i <= n THEN s[i] ELSE ZeroRec(f)]
  <2>1. cur[t] >= 0
    BY <1>2
  <2> QED
    BY <1>1, <1>2, <2>1 DEF Truncate, SetFile, Cut, Resize, Contents, FilesOK
<1>4. DOMAIN s = 1 .. n
  BY <1>1
<1> HIDE DEF f, s, n
<1>5. \A i \in 1 .. n - 1 : i \in DOMAIN s /\ file'[f][i] = s[i]
  BY <1>1, <1>3, <1>4
<1> QED
  BY <1>3, <1>5 DEF Range, f, s

LEMMA ShiftConsistent ==
  ASSUME ClaimInv, NEW t \in Threads, ShiftWrite(t) \/ Truncate(t)
  PROVE  UsersAreConsistent'
<1>1. /\ IInv /\ TypeInv /\ Standing(t) /\ Established(t) /\ Control(t)
      /\ UsersAreConsistent /\ "user" \in Files /\ "account" \in Files
  BY DEF ClaimInv, ApartInv, IInv, TypeInv, Files
<1>2. /\ Calling(t) /\ WritesInPlace(op[t].fn, stage[t]) /\ op[t].fn \in Deletes
      /\ OpenFile(t) = TableOf(op[t].fn)
  BY <1>1, DeletesOpen DEF ShiftWrite, Truncate, Goto, Shifting, Calling, Control
<1>3. /\ Range(file'[OpenFile(t)]) \subseteq Range(file[OpenFile(t)])
      /\ Ids(file[OpenFile(t)]) \ {op[t].rec.id} \subseteq Ids(file'[OpenFile(t)])
      /\ \A f \in Files : f # OpenFile(t) => file'[f] = file[f]
  BY <1>1, ShiftWriteRange, TruncateRange, ShiftWriteAlone, TruncateAlone, OtherFiles
<1>4. CASE op[t].fn = "delete_user"
  <2>1. OpenFile(t) = "user" /\ file'["account"] = file["account"]
    BY <1>1, <1>2, <1>3, <1>4 DEF TableOf, UserFns
  <2> QED
    BY <1>1, <1>3, <2>1, StillConsistent DEF SameIdentity
<1>5. CASE op[t].fn = "delete_account"
  <2>1. OpenFile(t) = "account" /\ file'["user"] = file["user"]
    BY <1>1, <1>2, <1>3, <1>5 DEF TableOf, UserFns, TransFns
  <2>2. stage[t] = 2
    BY <1>2, <1>5 DEF WritesInPlace, Updates
  <2>3. \A a \in Range(file["user"]) : a.aid # op[t].rec.id
    BY <1>1, <1>2, <1>5, <2>2 DEF Established, Cleared, Users
  <2> QED
    BY <1>1, <1>3, <2>1, <2>3, StillConsistent DEF SameIdentity
<1> QED
  BY <1>2, <1>4, <1>5 DEF Deletes

LEMMA AppendConsistent ==
  ASSUME ClaimInv, NEW t \in Threads, AppendRecord(t) PROVE UsersAreConsistent'
<1>1. /\ IInv /\ TypeInv /\ Standing(t) /\ Established(t) /\ Control(t)
      /\ UsersAreConsistent /\ "user" \in Files /\ "account" \in Files
  BY DEF ClaimInv, ApartInv, IInv, TypeInv, Files
<1>2. /\ Calling(t) /\ Unwritten(t) /\ op[t].fn \in Creates /\ stage[t] = 3
      /\ OpenFile(t) \in Files
  BY <1>1, Located
     DEF AppendRecord, Goto, Calling, Unwritten, Control, AppendPCs
<1>3. /\ \A f \in Files : f # OpenFile(t) => file'[f] = file[f]
      /\ Ids(file'[OpenFile(t)]) = Ids(file[OpenFile(t)]) \cup {op[t].rec.id}
  BY <1>1, AppendAlone, OtherFiles
<1>4. CASE OpenFile(t) # "user"
  <2>1. /\ file'["user"] = file["user"]
        /\ Ids(file["account"]) \subseteq Ids(file'["account"])
    BY <1>1, <1>3, <1>4
  <2> QED
    BY <1>1, <2>1, StillConsistent DEF SameIdentity
<1>5. CASE OpenFile(t) = "user"
  <2>1. op[t].fn = "create_user"
    BY <1>2, <1>5 DEF OpenFile, FileAt, TableOf, Creates, UserFns, TransFns
  <2>2. /\ \A a \in Range(Users) : a.uname # op[t].rec.uname
        /\ op[t].rec.aid \in Ids(file["account"])
    BY <1>1, <1>2, <2>1 DEF Established, Cleared
  <2>3. file'["account"] = file["account"]
    BY <1>1, <1>3, <1>5
  <2>4. \A a \in Range(file'["user"]) : a \in Range(file["user"]) \/ a = op[t].rec
    <3>1. file["user"] \in Seq(RecOf("user")) /\ FilesOK
      BY <1>1 DEF TypeInv, TypeOK, FilesOK
    <3>2. file'["user"] = Append(file["user"], op[t].rec)
      BY <1>1, <1>5, <3>1 DEF AppendRecord, Appended, SetFile, Contents, FilesOK
    <3> QED
      BY <3>1, <3>2 DEF Range
  <2>5. UnameIsUnique'
    BY <1>1, <2>2, <2>4 DEF UsersAreConsistent, UnameIsUnique, Users
  <2>6. LinkedAccountExists'
    BY <1>1, <2>2, <2>3, <2>4 DEF UsersAreConsistent, LinkedAccountExists, Users
  <2> QED
    BY <2>5, <2>6 DEF UsersAreConsistent
<1> QED
  BY <1>4, <1>5

LEMMA NextClaims ==
  "open" \notin Faults /\ ClaimInv /\ [Next /\ KeptApart']_vars => ClaimInv'
<1> SUFFICES ASSUME "open" \notin Faults, ClaimInv, [Next /\ KeptApart']_vars
             PROVE  ClaimInv'
  OBVIOUS
<1>1. /\ ApartInv /\ UsersAreConsistent /\ TypeInv
      /\ \A t \in Threads : Placed(t) /\ Established(t)
  BY DEF ClaimInv, ApartInv, IInv
<1>2. ApartInv' /\ TypeInv'
  BY <1>1, NextApart DEF ApartInv, IInv
<1>3. \A t \in Threads : Placed(t)' /\ Established(t)'
  BY <1>1, NextPlaced, NextEstablished
<1>4. UsersAreConsistent'
  <2>1. CASE \E t \in Threads : Overwrite(t) \/ ShiftWrite(t) \/ Truncate(t) \/ AppendRecord(t)
    BY <1>1, <1>2, <2>1, OverwriteConsistent, ShiftConsistent, AppendConsistent
  <2>2. CASE ~\E t \in Threads :
              Overwrite(t) \/ ShiftWrite(t) \/ Truncate(t) \/ AppendRecord(t)
    <3>1. file' = file
      BY <2>2, OnlyWrites DEF Next, Call, Invoke, InitCounter, Crash, Finished, vars, disk
    <3> QED
      BY <1>1, <3>1 DEF UsersAreConsistent, UnameIsUnique, LinkedAccountExists, Users
  <2> QED
    BY <2>1, <2>2
<1> QED
  BY <1>2, <1>3, <1>4 DEF ClaimInv

LEMMA InitClaims == SingleProcess /\ StartsConsistent /\ Init => ClaimInv
<1> SUFFICES ASSUME SingleProcess, StartsConsistent, Init PROVE ClaimInv
  OBVIOUS
<1>1. ApartInv /\ \A t \in Threads : Placed(t)
  BY InitApart, InitPlaced
<1>2. UsersAreConsistent
  BY DEF Init, StartsConsistent, UsersAreConsistent, UnameIsUnique, LinkedAccountExists,
         Users
<1>3. \A t \in Threads : Established(t)
  BY DEF Init, Established, Calling
<1> QED
  BY <1>1, <1>2, <1>3 DEF ClaimInv

\* create_user keeps user names unique and every user has an account, delete_account
\* deletes none that has a user (database.c:259 and 613), whichever write() fails and
\* wherever the process is killed, if no open() fails and the calls that are not atomic
\* in company keep apart.
THEOREM UsersStayConsistent ==
  SingleProcess /\ StartsConsistent /\ "open" \notin Faults /\ ApartSpec
    => []UsersAreConsistent
<1>1. SingleProcess /\ StartsConsistent /\ Init => ClaimInv
  BY InitClaims
<1>2. "open" \notin Faults /\ ClaimInv /\ [Next /\ KeptApart']_vars
        => ("open" \notin Faults)' /\ ClaimInv'
  BY NextClaims
<1>3. ClaimInv => UsersAreConsistent
  BY DEF ClaimInv
<1> QED
  BY <1>1, <1>2, <1>3, PTL DEF ApartSpec

NamesStep ==
  \A t \in Threads :
    op[t].fn = "update_user" /\ pc[t] = "write" /\ pc'[t] = "wunlock" =>
      \A i \in DOMAIN Users :
        Users'[i].uname = Users[i].uname /\ Users'[i].aid = Users[i].aid

\* The write of update_user leaves the name and the account in every slot of the file
\* alone (database.c:298), if the calls that are not atomic in company keep apart.
THEOREM UpdatesKeepNames == SingleProcess /\ ApartSpec => UpdateKeepsNames
<1>1. ApartInv /\ [Next /\ KeptApart']_vars => [NamesStep]_vars
  <2> SUFFICES ASSUME ApartInv, [Next]_vars,
                      NEW t \in Threads, op[t].fn = "update_user", pc[t] = "write",
                      pc'[t] = "wunlock", NEW i \in DOMAIN Users
               PROVE  Users'[i].uname = Users[i].uname /\ Users'[i].aid = Users[i].aid
    BY DEF NamesStep
  <2>1. /\ IInv /\ TypeInv /\ ThreadsOK /\ Sees(t) /\ "user" \in Files
        /\ DOMAIN Users = 1 .. Len(file["user"])
    BY FileSeq DEF ApartInv, IInv, TypeInv, TypeOK, Files, Users
  <2>2. PICK u \in Threads : Step(u)
    <3>1. ~UNCHANGED pc
      OBVIOUS
    <3>2. \A u \in Threads : ~Call(u)
      BY <2>1, Called DEF Call
    <3>3. \A p \in Procs : ~Crash(p)
      BY Killed
    <3> QED
      BY <3>1, <3>2, <3>3 DEF Next, InitCounter, Finished, vars
  <2>3. u = t
    BY <2>1, <2>2, OthersStandStill
  <2>4. Overwrite(t) \/ OverwriteFails(t)
    BY <2>2, <2>3
       DEF Step, BeginScan, ReadHit, ReadMiss, ReadInto, ReadEOF, EndScan, LockRecord,
           LockTail, ShiftRead, ShiftWrite, ShiftWriteFails, ShiftEOF, SeekLast, Truncate,
           EndWrite, NewId, OpenForAppend, LockEnd, AppendRecord, AppendFails, UnlockEnd,
           SeekSize, Close, OpenFails, Goto
  <2>5. CASE Overwrite(t)
    BY <2>1, <2>5, OverwriteStays DEF Stays, SameIdentity, Users
  <2>6. CASE OverwriteFails(t)
    BY <2>6 DEF OverwriteFails, disk, Users
  <2> QED
    BY <2>4, <2>5, <2>6
<1> QED
  BY InitApart, NextApart, <1>1, PTL DEF ApartSpec, UpdateKeepsNames, NamesStep

(***************************************************************************)
(* The operators of the store.                                             *)
(***************************************************************************)

\* The store names the same functions, files and codes as the database does.
LEMMA StoreOps ==
  /\ \A fn : Store!TableOf(fn) = TableOf(fn)
  /\ \A s, a : Store!HistoryIn(s, a) = HistoryIn(s, a)
  /\ \A s, i : Store!RemoveAt(s, i) = RemoveAt(s, i)
  /\ \A s : Store!Ids(s) = Ids(s)
  /\ Store!NoCall = NoOp
<1>1. \A fn : Store!TableOf(fn) = TableOf(fn)
  BY DEF Store!TableOf, TableOf, Store!UserFns, UserFns, Store!TransFns, TransFns
<1>2. \A s, a : Store!HistoryIn(s, a) = HistoryIn(s, a)
  BY DEF Store!HistoryIn, HistoryIn
<1>3. \A s, i : Store!RemoveAt(s, i) = RemoveAt(s, i)
  BY DEF Store!RemoveAt, RemoveAt
<1>4. \A s : Store!Ids(s) = Ids(s)
  BY DEF Store!Ids, Ids
<1>5. Store!NoCall = NoOp
  BY DEF Store!NoCall, NoOp, Store!ZeroRec, ZeroRec
<1> QED
  BY <1>1, <1>2, <1>3, <1>4, <1>5

LEMMA StoreSets ==
  /\ Store!Gets = Gets /\ Store!Counts = Counts /\ Store!Bulk = Bulk
  /\ Store!Creates = Creates /\ Store!Updates = Updates /\ Store!Deletes = Deletes
  /\ Store!ENOTFOUND = ENOTFOUND /\ Store!ECONFLICT = ECONFLICT
BY DEF Store!Gets, Gets, Store!Counts, Counts, Store!Bulk, Bulk, Store!Creates, Creates,
       Store!Updates, Updates, Store!Deletes, Deletes, Store!ENOTFOUND, ENOTFOUND,
       Store!ECONFLICT, ECONFLICT

\* A user with another name and account.
LEMMA TwoFields ==
  ASSUME NEW u \in UserRec, NEW n, NEW a
  PROVE  [u EXCEPT !.uname = n, !.aid = a] =
           [id |-> u.id, uname |-> n, aid |-> a, info |-> u.info]
<1>1. u = [id |-> u.id, uname |-> u.uname, aid |-> u.aid, info |-> u.info]
  BY DEF UserRec
<1>2. [u EXCEPT !.uname = n, !.aid = a] = [[u EXCEPT !.uname = n] EXCEPT !.aid = a]
  OBVIOUS
<1>3. PICK v : v = [u EXCEPT !.uname = n]
  OBVIOUS
<1>4. v = [id |-> u.id, uname |-> n, aid |-> u.aid, info |-> u.info]
  BY <1>1, <1>3
<1>5. [v EXCEPT !.aid = a] = [id |-> u.id, uname |-> n, aid |-> a, info |-> u.info]
  BY <1>4
<1> QED
  BY <1>2, <1>3, <1>5

\* A request is the call as it was made, and about the same file.
LEMMA RequestIs ==
  ASSUME NEW o, OpOk(o)
  PROVE  /\ Request(o) = [fn |-> o.fn, rec |-> Request(o).rec, limit |-> o.limit]
         /\ Request(o).fn = o.fn /\ Request(o).limit = o.limit
         /\ o.fn \notin Creates \cup {"update_user"} => Request(o) = o
         /\ o.fn \in Creates => Request(o).rec = [o.rec EXCEPT !.id = 0]
         /\ o.fn = "update_user" =>
              Request(o).rec = [id |-> o.rec.id, uname |-> NoName, aid |-> 0,
                                info |-> o.rec.info]
<1>1. o = [fn |-> o.fn, rec |-> o.rec, limit |-> o.limit]
  BY DEF OpOk
<1>2. CASE o.fn \in Creates
  <2>1. Request(o) = [o EXCEPT !.rec = [o.rec EXCEPT !.id = 0]] /\ o.fn # "update_user"
    BY <1>2 DEF Request, Creates
  <2>2. PICK r : r = [o.rec EXCEPT !.id = 0]
    OBVIOUS
  <2>3. Request(o) = [fn |-> o.fn, rec |-> r, limit |-> o.limit]
    BY <1>1, <2>1, <2>2
  <2> QED
    BY <1>2, <2>1, <2>2, <2>3
<1>3. CASE o.fn = "update_user"
  <2>1. o.rec \in UserRec /\ o.fn \notin Creates
    BY <1>3, Tables DEF OpOk, Creates
  <2>2. PICK r : r = [id |-> o.rec.id, uname |-> NoName, aid |-> 0, info |-> o.rec.info]
    OBVIOUS
  <2>3. [o.rec EXCEPT !.uname = NoName, !.aid = 0] = r
    BY <2>1, <2>2, TwoFields
  <2>4. Request(o) = [o EXCEPT !.rec = [o.rec EXCEPT !.uname = NoName, !.aid = 0]]
    BY <1>3, <2>1 DEF Request
  <2>5. Request(o) = [fn |-> o.fn, rec |-> r, limit |-> o.limit]
    BY <1>1, <2>3, <2>4
  <2> QED
    BY <1>3, <2>1, <2>2, <2>5
<1>4. CASE o.fn \notin Creates \cup {"update_user"}
  BY <1>1, <1>4 DEF Request
<1> QED
  BY <1>2, <1>3, <1>4

\* What a call of the store is about, in terms of the call it stands for.
LEMMA StoreTerms ==
  ASSUME NEW t \in Threads, OpOk(op[t])
  PROVE  /\ Store!Fn(t) = op[t].fn /\ Store!Arg(t) = Request(op[t]).rec
         /\ Store!Of(t) = tableBar[TableOf(op[t].fn)]
BY StoreOps, RequestIs DEF Store!Fn, Store!Arg, Store!Of, reqBar

(***************************************************************************)
(* The table.                                                              *)
(***************************************************************************)

\* The table as one thread under way sees it.
TableSeen(t) ==
  [f \in Files |-> IF Shifting(t) /\ OpenFile(t) = f
                   THEN RemoveAt(file[f], SpareSlot(t)) ELSE file[f]]

LEMMA TableIsSeen ==
  KeptApart /\ TypeInv => \A t \in Threads : Calling(t) => tableBar = TableSeen(t)
<1> SUFFICES ASSUME KeptApart, TypeInv, NEW t \in Threads, Calling(t)
             PROVE  tableBar = TableSeen(t)
  OBVIOUS
<1>1. \A u \in Threads : Shifting(u) => u = t
  BY Company
<1>2. ASSUME NEW f \in Files
      PROVE  SpareSlots(f) = IF Shifting(t) /\ OpenFile(t) = f THEN {SpareSlot(t)} ELSE {}
  <2>1. {u \in Threads : Shifting(u) /\ OpenFile(u) = f}
          = IF Shifting(t) /\ OpenFile(t) = f THEN {t} ELSE {}
    BY <1>1
  <2> QED
    BY <2>1 DEF SpareSlots
<1>3. \A i : (CHOOSE j \in {i} : TRUE) = i
  OBVIOUS
<1>4. ASSUME NEW f \in Files
      PROVE  (IF SpareSlots(f) = {} THEN file[f]
              ELSE RemoveAt(file[f], CHOOSE i \in SpareSlots(f) : TRUE))
             = IF Shifting(t) /\ OpenFile(t) = f
               THEN RemoveAt(file[f], SpareSlot(t)) ELSE file[f]
  <2>1. CASE Shifting(t) /\ OpenFile(t) = f
    <3>1. SpareSlots(f) = {SpareSlot(t)}
      BY <1>2, <2>1
    <3>2. (CHOOSE i \in SpareSlots(f) : TRUE) = SpareSlot(t)
      BY <1>3, <3>1
    <3> QED
      BY <2>1, <3>1, <3>2
  <2>2. CASE ~(Shifting(t) /\ OpenFile(t) = f)
    BY <1>2, <2>2
  <2> QED
    BY <2>1, <2>2
<1> QED
  BY <1>4 DEF tableBar, TableSeen

\* A step that writes nothing and moves no spare slot.
LEMMA SameTable ==
  ASSUME file' = file,
         \A u \in Threads : /\ Shifting(u)' <=> Shifting(u)
                            /\ Shifting(u) => OpenFile(u)' = OpenFile(u)
                                              /\ SpareSlot(u)' = SpareSlot(u)
  PROVE  tableBar' = tableBar
<1>1. ASSUME NEW f \in Files PROVE SpareSlots(f)' = SpareSlots(f)
  BY DEF SpareSlots
<1>2. ASSUME NEW f \in Files
      PROVE  (IF SpareSlots(f) = {} THEN file[f]
              ELSE RemoveAt(file[f], CHOOSE i \in SpareSlots(f) : TRUE))'
             = IF SpareSlots(f) = {} THEN file[f]
               ELSE RemoveAt(file[f], CHOOSE i \in SpareSlots(f) : TRUE)
  <2>1. \A S, T : S = T => (CHOOSE i \in S : TRUE) = (CHOOSE i \in T : TRUE)
    BY Zenon
  <2>2. (CHOOSE i \in SpareSlots(f) : TRUE)' = CHOOSE i \in SpareSlots(f) : TRUE
    BY <1>1, <2>1
  <2> QED
    BY <1>1, <2>2 DEF RemoveAt
<1> QED
  BY <1>2 DEF tableBar

\* A file without one of its records.
LEMMA RemoveAtIs ==
  ASSUME NEW R, NEW s \in Seq(R), NEW i \in 1 .. Len(s)
  PROVE  /\ RemoveAt(s, i) \in Seq(R) /\ Len(RemoveAt(s, i)) = Len(s) - 1
         /\ \A j \in 1 .. Len(s) - 1 :
              RemoveAt(s, i)[j] = IF j < i THEN s[j] ELSE s[j + 1]
<1>1. Len(s) \in Nat /\ i \in Nat
  OBVIOUS
<1> DEFINE a == SubSeq(s, 1, i - 1)
           b == SubSeq(s, i + 1, Len(s))
<1>2. a \in Seq(R) /\ Len(a) = i - 1 /\ \A j \in 1 .. i - 1 : a[j] = s[j]
  BY <1>1
<1>3. b \in Seq(R) /\ Len(b) = Len(s) - i /\ \A j \in 1 .. Len(s) - i : b[j] = s[i + j]
  BY <1>1
<1>4. RemoveAt(s, i) = a \o b
  BY DEF RemoveAt
<1> HIDE DEF a, b
<1>5. /\ a \o b \in Seq(R) /\ Len(a \o b) = Len(a) + Len(b)
      /\ \A j \in 1 .. Len(a) + Len(b) :
           (a \o b)[j] = IF j <= Len(a) THEN a[j] ELSE b[j - Len(a)]
  BY <1>2, <1>3, ConcatProperties
<1>6. Len(a) + Len(b) = Len(s) - 1
  BY <1>1, <1>2, <1>3
<1>7. \A j \in 1 .. Len(s) - 1 :
        (IF j <= Len(a) THEN a[j] ELSE b[j - Len(a)]) = IF j < i THEN s[j] ELSE s[j + 1]
  <2> TAKE j \in 1 .. Len(s) - 1
  <2>1. CASE j < i
    BY <1>1, <1>2, <2>1
  <2>2. CASE ~(j < i)
    <3>1. ~(j <= Len(a)) /\ j - Len(a) = j - i + 1 /\ j - i + 1 \in 1 .. Len(s) - i
      BY <1>1, <1>2, <2>2
    <3>2. i + (j - i + 1) = j + 1
      BY <1>1
    <3> QED
      BY <1>3, <2>2, <3>1, <3>2
  <2> QED
    BY <2>1, <2>2
<1> QED
  BY <1>4, <1>5, <1>6, <1>7

(***************************************************************************)
(* The calls, as the clients of the store see them.                        *)
(***************************************************************************)

\* A thread that does not move is the same client.
LEMMA SameView ==
  ASSUME NEW u \in Threads, pc'[u] = pc[u], op'[u] = op[u], stage'[u] = stage[u],
         iter'[u] = iter[u], ret'[u] = ret[u], out'[u] = out[u]
  PROVE  /\ Phase(u)' = Phase(u) /\ Reply(u)' = Reply(u)
         /\ Request(op'[u]) = Request(op[u])
<1>1. /\ Outcome(u)' = Outcome(u) /\ ScanOver(u)' = ScanOver(u)
      /\ Shifting(u)' = Shifting(u) /\ NextStage(u)' = NextStage(u)
  BY DEF Outcome, ScanOver, Shifting, NextStage, HasNext
<1>2. LastLookup(u)' <=> LastLookup(u)
  BY <1>1 DEF LastLookup
<1>3. Effective(u)' <=> Effective(u)
  BY <1>1, <1>2 DEF Effective
<1>4. Status(u)' = Status(u)
  BY <1>1 DEF Status
<1>5. Records(u)' = Records(u)
  BY <1>4 DEF Records
<1> QED
  BY <1>3, <1>4, <1>5 DEF Phase, Reply

\* A step that the clients of the store do not notice.
LEMMA Stutters ==
  ASSUME TypeInv, NEW t \in Threads, Step(t), tableBar' = tableBar,
         Request(op'[t]) = Request(op[t]), Phase(t)' = Phase(t), Reply(t)' = Reply(t)
  PROVE  UNCHANGED Store!svars
<1>1. \A u \in Threads : /\ Phase(u)' = Phase(u) /\ Reply(u)' = Reply(u)
                         /\ Request(op'[u]) = Request(op[u])
  BY OthersAsTheyWere, SameView
<1> QED
  BY <1>1 DEF Store!svars, reqBar, phaseBar, answerBar

\* The step in which a call takes effect.
TakesEffect(t) ==
  Step(t) /\ Request(op'[t]) = Request(op[t]) /\ ~Effective(t) /\ Effective(t)'

LEMMA Effects ==
  ASSUME TypeInv, NEW t \in Threads, TakesEffect(t)
  PROVE  /\ phaseBar[t] = "called" /\ phaseBar' = [phaseBar EXCEPT ![t] = "answered"]
         /\ reqBar' = reqBar
         /\ answerBar' = [answerBar EXCEPT ![t] =
                            [status |-> Status(t)', recs |-> Records(t)']]
<1>1. \A u \in Threads \ {t} :
         /\ Phase(u)' = Phase(u) /\ Reply(u)' = Reply(u)
         /\ Request(op'[u]) = Request(op[u])
  BY OthersAsTheyWere, SameView DEF TakesEffect
<1>2. Phase(t) = "called" /\ Phase(t)' = "answered"
  BY StepIsCalling DEF TakesEffect, Phase, Calling
<1>3. Reply(t)' = [status |-> Status(t)', recs |-> Records(t)']
  BY DEF TakesEffect, Reply
<1> QED
  BY <1>1, <1>2, <1>3 DEF TakesEffect, phaseBar, reqBar, answerBar

\* Any operation of the store, in that step, is a step of the store.
LEMMA EffectIsStep ==
  ASSUME TypeInv, NEW t \in Threads, TakesEffect(t),
         \/ Store!Get(t) \/ Store!Count(t) \/ Store!List(t) \/ Store!Create(t)
         \/ Store!CreateRefused(t) \/ Store!Update(t) \/ Store!Delete(t)
         \/ Store!DeleteRefused(t) \/ Store!NotFound(t)
  PROVE  Store!SNext
BY Effects DEF Store!SNext, Store!TakeEffect

(***************************************************************************)
(* What is true while nothing fails and the functions keep apart.          *)
(***************************************************************************)

\* Every array has room for a record.
ArraysHaveRoom == \A o \in Ops : o.fn \in Bulk \ {"get_num_transactions"} => o.limit > 0

\* Nothing has failed so far.
Clean(t) ==
  pc[t] \in {"wlock", "write", "newid", "aopen", "alock", "append"} => ret[t] = 0

\* A bulk getter has not filled its array yet.
Room(t) ==
  op[t].fn \in Bulk \ {"get_num_transactions"} /\ pc[t] \in {"lock", "scan"} =>
    Len(out[t]) < op[t].limit

\* What get_users and get_accounts have read of their file, which nobody else
\* touches.
Listed(t) ==
  op[t].fn \in Bulk \ TransFns /\ pc[t] \in {"lock", "scan"} =>
    /\ cur[t] \in 0 .. Len(Contents(t))
    /\ out[t] = SubSeq(Contents(t), 1, cur[t])

AtomicInv ==
  /\ ApartInv
  /\ \A t \in Threads : /\ Placed(t) /\ Established(t) /\ Gathered(t)
                        /\ Clean(t) /\ Room(t) /\ Listed(t)

NoFaults == Faults = {} /\ MaxCrashes = 0

\* No status is set before the write.
LEMMA StepClean ==
  ASSUME TypeInv, Faults = {}, NEW t \in Threads, Step(t), Clean(t) PROVE Clean(t)'
<1>1. ThreadsOK /\ ~OverwriteFails(t) /\ ~ShiftWriteFails(t) /\ ~AppendFails(t)
      /\ ~OpenFails(t)
  BY DEF TypeInv, TypeOK, OverwriteFails, ShiftWriteFails, AppendFails, OpenFails
<1>2. CASE EndScan(t)
  <2>1. pc'[t] \in {"wlock", "close"}
        /\ (pc'[t] = "wlock" => WritesInPlace(op[t].fn, stage[t]) /\ iter[t] # NoRec)
        /\ ret'[t] = ScanStatus(op[t], stage[t], iter[t] # NoRec, Len(out[t]))
    BY <1>1, <1>2 DEF EndScan, Goto, ThreadsOK
  <2>2. WritesInPlace(op[t].fn, stage[t]) /\ iter[t] # NoRec =>
          ScanStatus(op[t], stage[t], iter[t] # NoRec, Len(out[t])) = 0
    BY DEF WritesInPlace, ScanStatus, Updates, Bulk
  <2> QED
    BY <2>1, <2>2 DEF Clean
<1>3. CASE Close(t)
  <2>1. pc'[t] \in {"done", "lock", "newid"} /\ ret'[t] = ret[t]
        /\ (pc'[t] # "done" => NextStage(t) # stage[t])
    BY <1>1, <1>3 DEF Close, Goto, ThreadsOK, StageCall
  <2>2. NextStage(t) # stage[t] => ret[t] = 0
    BY DEF NextStage
  <2> QED
    BY <2>1, <2>2 DEF Clean
<1>4. CASE LockRecord(t) \/ NewId(t) \/ OpenForAppend(t) \/ LockEnd(t)
  <2>1. ret'[t] = ret[t] /\ pc[t] \in {"wlock", "newid", "aopen", "alock"}
    BY <1>4 DEF LockRecord, NewId, OpenForAppend, LockEnd, Goto, local
  <2> QED
    BY <2>1 DEF Clean
<1>5. CASE BeginScan(t) \/ ReadHit(t) \/ ReadMiss(t) \/ ReadInto(t) \/ ReadEOF(t)
  <2>1. pc'[t] \in {"scan", "unlock"}
    BY <1>1, <1>5 DEF BeginScan, ReadHit, ReadMiss, ReadInto, ReadEOF, Goto, ThreadsOK
  <2> QED
    BY <2>1 DEF Clean
<1>6. CASE Overwrite(t) \/ LockTail(t) \/ ShiftRead(t) \/ ShiftWrite(t) \/ ShiftEOF(t)
           \/ SeekLast(t) \/ Truncate(t) \/ EndWrite(t) \/ AppendRecord(t)
           \/ UnlockEnd(t) \/ SeekSize(t)
  <2>1. pc'[t] \in {"wunlock", "shift", "shiftw", "seekend", "trunc", "close", "aunlock"}
    BY <1>1, <1>6 DEF Overwrite, LockTail, ShiftRead, ShiftWrite, ShiftEOF, SeekLast,
         Truncate, EndWrite, AppendRecord, UnlockEnd, SeekSize, Goto, ThreadsOK
  <2> QED
    BY <2>1 DEF Clean
<1> QED
  BY <1>1, <1>2, <1>3, <1>4, <1>5, <1>6 DEF Step

\* One record more of a file.
LEMMA SubSeqNext ==
  ASSUME NEW R, NEW q \in Seq(R), NEW m \in 0 .. Len(q), m < Len(q)
  PROVE  Append(SubSeq(q, 1, m), q[m + 1]) = SubSeq(q, 1, m + 1)
<1>1. m + 1 \in 1 .. Len(q) /\ Len(q) \in Nat /\ m \in Nat /\ q[m + 1] \in R
  OBVIOUS
<1>2. SubSeq(q, 1, m) \in Seq(R) /\ Len(SubSeq(q, 1, m)) = m
      /\ \A j \in 1 .. m : SubSeq(q, 1, m)[j] = q[j]
  BY <1>1
<1>3. SubSeq(q, 1, m + 1) \in Seq(R) /\ Len(SubSeq(q, 1, m + 1)) = m + 1
      /\ \A j \in 1 .. m + 1 : SubSeq(q, 1, m + 1)[j] = q[j]
  BY <1>1
<1> DEFINE a == SubSeq(q, 1, m)
           b == SubSeq(q, 1, m + 1)
           c == Append(a, q[m + 1])
<1> HIDE DEF a, b
<1>4. c \in Seq(R) /\ Len(c) = m + 1 /\ \A j \in 1 .. m + 1 : c[j] = q[j]
  BY <1>1, <1>2 DEF a
<1> HIDE DEF c
<1>5. c = b
  BY <1>3, <1>4, SeqEqual DEF b
<1> QED
  BY <1>5 DEF a, b, c

\* A bulk getter reads one record more.
LEMMA ReadIntoListed ==
  ASSUME TypeInv, NEW t \in Threads, Room(t), Listed(t), ReadInto(t)
  PROVE  /\ Room(t)' /\ Listed(t)'
         /\ op[t].fn \notin TransFns => /\ cur'[t] \in 0 .. Len(Contents(t))
                                       /\ out'[t] = SubSeq(Contents(t), 1, cur'[t])
<1>1. /\ ThreadsOK /\ CallOK(t) /\ Contents(t) \in Seq(RecOf(OpenFile(t)))
      /\ OpenFile(t) \in Files
  BY FileSeq, Located DEF TypeInv, TypeOK
<1> DEFINE r == Contents(t)[cur[t] + 1]
<1>2. /\ out'[t] = (IF Wanted(op[t], r) THEN Append(out[t], r) ELSE out[t])
      /\ cur'[t] = cur[t] + 1 /\ cur[t] < Len(Contents(t)) /\ file' = file /\ op' = op
      /\ stage' = stage /\ pc[t] = "scan"
      /\ pc'[t] = IF op[t].fn # "get_num_transactions" /\ Len(out'[t]) = op[t].limit
                  THEN "unlock" ELSE "scan"
  BY <1>1 DEF ReadInto, ThreadsOK, disk
<1>3. Contents(t)' = Contents(t)
  BY <1>2 DEF Contents, OpenFile
<1>4. out[t] \in Seq(Rec) /\ op[t].limit \in Nat
  BY <1>1 DEF CallOK, OpOk
<1>5. Room(t)'
  <2>1. Len(out'[t]) \in Nat /\ Len(out'[t]) <= Len(out[t]) + 1
    <3>1. CASE Wanted(op[t], r)
      <4>1. out'[t] = Append(out[t], r)
        BY <1>2, <3>1
      <4>2. Len(Append(out[t], r)) = Len(out[t]) + 1 /\ Len(out[t]) \in Nat
        BY <1>4
      <4> QED
        BY <4>1, <4>2
    <3>2. CASE ~Wanted(op[t], r)
      BY <1>2, <1>4, <3>2
    <3> QED
      BY <3>1, <3>2
  <2> QED
    BY <1>2, <1>4, <2>1 DEF Room
<1>6. ASSUME op[t].fn \notin TransFns
      PROVE  cur'[t] \in 0 .. Len(Contents(t)) /\ out'[t] = SubSeq(Contents(t), 1, cur'[t])
  <2> op[t].fn \in Bulk \ TransFns
    BY <1>6 DEF ReadInto
  <2>1. cur[t] \in 0 .. Len(Contents(t)) /\ out[t] = SubSeq(Contents(t), 1, cur[t])
    BY <1>2 DEF Listed
  <2>2. out'[t] = Append(out[t], r)
    BY <1>2 DEF Wanted
  <2> DEFINE s == Contents(t)
             n == cur[t]
  <2>3. s \in Seq(RecOf(OpenFile(t))) /\ n \in 0 .. Len(s) /\ n < Len(s)
    BY <1>1, <1>2, <2>1
  <2>4. Append(SubSeq(Contents(t), 1, cur[t]), Contents(t)[cur[t] + 1])
          = SubSeq(Contents(t), 1, cur[t] + 1)
    BY <2>3, SubSeqNext
  <2>5. cur[t] + 1 \in 0 .. Len(Contents(t))
    BY <2>3, FileSeq
  <2> QED
    BY <1>2, <2>1, <2>2, <2>4, <2>5
<1>7. Listed(t)'
  BY <1>2, <1>3, <1>6 DEF Listed
<1> QED
  BY <1>5, <1>6, <1>7

LEMMA StepListed ==
  ASSUME TypeInv, NEW t \in Threads, Step(t), Gathered(t), Room(t), Listed(t)
  PROVE  Room(t)' /\ Listed(t)'
<1> SUFFICES ASSUME op'[t].fn \in Bulk, pc'[t] \in {"lock", "scan"} PROVE Room(t)' /\ Listed(t)'
  BY DEF Room, Listed
<1>1. /\ ThreadsOK /\ CallOK(t) /\ FilesOK
  BY DEF TypeInv, TypeOK
<1>2. GatherStep(t) /\ op[t].fn \in Bulk
  BY SameFn, StepsOfBulk
<1>3. CASE BeginScan(t)
  <2>1. /\ pc[t] = "lock" /\ cur[t] = 0 /\ cur'[t] = 0 /\ op' = op /\ out' = out
        /\ Contents(t)' = Contents(t)
    BY <1>1, <1>2, <1>3
       DEF BeginScan, Goto, Gathered, ThreadsOK, disk, Contents, OpenFile
  <2> QED
    BY <2>1 DEF Room, Listed
<1>4. CASE ReadInto(t)
  BY <1>4, ReadIntoListed
<1>5. CASE ReadEOF(t) \/ EndScan(t) \/ OpenFails(t)
  <2>1. pc'[t] \in {"unlock", "wlock", "close", "newid", "done"}
    BY <1>1, <1>5 DEF ReadEOF, EndScan, OpenFails, Goto, ThreadsOK
  <2> QED
    BY <2>1
<1>6. CASE Close(t)
  <2>1. NextStage(t) = stage[t]
    BY <1>2 DEF NextStage, HasNext, Bulk
  <2>2. pc'[t] = "done"
    BY <1>1, <1>6, <2>1 DEF Close, Goto, ThreadsOK
  <2> QED
    BY <2>2
<1> QED
  BY <1>2, <1>3, <1>4, <1>5, <1>6 DEF GatherStep

\* Those who list a table are alone under way.
LEMMA OthersListed ==
  ASSUME KeptApart, TypeInv, NEW t \in Threads, Step(t), NEW u \in Threads \ {t},
         Clean(u), Room(u), Listed(u)
  PROVE  Clean(u)' /\ Room(u)' /\ Listed(u)'
<1>1. /\ pc'[u] = pc[u] /\ op'[u] = op[u] /\ stage'[u] = stage[u] /\ cur'[u] = cur[u]
      /\ ret'[u] = ret[u] /\ out'[u] = out[u]
  BY OthersAsTheyWere
<1>2. pc[u] \in {"lock", "scan"} => op[u].fn \in AtomicFns
  BY StepIsCalling, Company DEF Calling
<1>3. ~(op[u].fn \in Bulk \ TransFns /\ pc[u] \in {"lock", "scan"})
  BY <1>2 DEF AtomicFns, Bulk, TransFns, Updates, Gets, Counts
<1> QED
  BY <1>1, <1>3 DEF Clean, Room, Listed

\* A new call has read nothing.
LEMMA CallListed ==
  ASSUME TypeInv, NEW t \in Threads, NEW o \in Ops, Invoke(t, o),
         o.fn \in Bulk \ {"get_num_transactions"} => o.limit > 0
  PROVE  Clean(t)' /\ Room(t)' /\ Listed(t)'
<1>1. /\ op'[t] = o /\ cur'[t] = 0 /\ out'[t] = <<>> /\ ret'[t] = 0 /\ OpOk(o)
      /\ file' = file /\ stage'[t] = FirstStage(o.fn)
  BY Called
<1>2. Clean(t)' /\ Room(t)'
  BY <1>1 DEF Clean, Room
<1>3. Listed(t)'
  <2>1. ASSUME o.fn \in Bulk PROVE Contents(t)' = file[TableOf(o.fn)] /\ TableOf(o.fn) \in Files
    BY <1>1, <2>1 DEF Contents, OpenFile, FileAt, FirstStage, Bulk, Creates, TableOf, Files
  <2>2. ASSUME NEW f \in Files PROVE SubSeq(file[f], 1, 0) = <<>> /\ 0 \in 0 .. Len(file[f])
    BY FileSeq
  <2> QED
    BY <1>1, <2>1, <2>2 DEF Listed
<1> QED
  BY <1>2, <1>3

LEMMA SameListed ==
  ASSUME NEW u \in Threads, Clean(u), Room(u), Listed(u), file' = file, pc'[u] = pc[u],
         op'[u] = op[u], stage'[u] = stage[u], cur'[u] = cur[u], ret'[u] = ret[u],
         out'[u] = out[u]
  PROVE  Clean(u)' /\ Room(u)' /\ Listed(u)'
BY DEF Clean, Room, Listed, Contents, OpenFile

\* Of the steps of Next those that can be taken, and what is known of them.
LEMMA NextSteps ==
  ASSUME TypeInv, NoFaults, [Next]_vars
  PROVE  \/ \E t \in Threads : Step(t)
         \/ \E t \in Threads, o \in Ops : Invoke(t, o)
         \/ UNCHANGED <<file, pc, local>>
<1>1. \A p \in Procs : ~Crash(p)
  <2>1. crashes \in Nat /\ MaxCrashes = 0
    BY DEF TypeInv, TypeOK, NoFaults
  <2> QED
    BY <2>1 DEF Crash
<1> QED
  BY <1>1 DEF Next, Call, InitCounter, Finished, vars, disk

LEMMA NextAtomic ==
  NoFaults /\ ArraysHaveRoom /\ AtomicInv /\ [Next /\ KeptApart']_vars => AtomicInv'
<1> SUFFICES ASSUME NoFaults, ArraysHaveRoom, AtomicInv, [Next /\ KeptApart']_vars
             PROVE  AtomicInv'
  OBVIOUS
<1>1. /\ ApartInv /\ TypeInv /\ KeptApart /\ Faults = {}
      /\ \A t \in Threads : /\ Placed(t) /\ Established(t) /\ Gathered(t)
                            /\ Clean(t) /\ Room(t) /\ Listed(t)
  BY DEF AtomicInv, ApartInv, IInv, NoFaults
<1>2. ApartInv'
  BY <1>1, NextApart
<1>3. \A t \in Threads : Placed(t)' /\ Established(t)'
  BY <1>1, NextPlaced, NextEstablished
<1>4. \A u \in Threads : Gathered(u)' /\ Clean(u)' /\ Room(u)' /\ Listed(u)'
  <2>1. ASSUME NEW t \in Threads, Step(t), NEW u \in Threads
        PROVE  Gathered(u)' /\ Clean(u)' /\ Room(u)' /\ Listed(u)'
    <3>1. CASE u = t
      BY <1>1, <2>1, <3>1, GatheredByStep, StepClean, StepListed
    <3>2. CASE u # t
      BY <1>1, <2>1, <3>2, GatheredOthers, OthersListed
    <3> QED
      BY <3>1, <3>2
  <2>2. ASSUME NEW t \in Threads, NEW o \in Ops, Invoke(t, o)
        PROVE  \A u \in Threads : Gathered(u)' /\ Clean(u)' /\ Room(u)' /\ Listed(u)'
    <3>1. OpOk(o) /\ (o.fn \in Bulk \ {"get_num_transactions"} => o.limit > 0)
      BY OpsAssumption DEF ArraysHaveRoom
    <3>2. \A u \in Threads : Gathered(u)'
      BY <1>1, <2>2, <3>1, GatheredByCall
    <3>3. Clean(t)' /\ Room(t)' /\ Listed(t)'
      BY <1>1, <2>2, <3>1, CallListed
    <3>4. \A u \in Threads \ {t} : Clean(u)' /\ Room(u)' /\ Listed(u)'
      BY <1>1, <2>2, Called, SameListed
    <3> QED
      BY <3>2, <3>3, <3>4
  <2>3. ASSUME UNCHANGED <<file, pc, local>>
        PROVE  \A u \in Threads : Gathered(u)' /\ Clean(u)' /\ Room(u)' /\ Listed(u)'
    BY <1>1, <2>3, GatheredQuiet, SameListed DEF local
  <2> QED
    BY <1>1, <2>1, <2>2, <2>3, NextSteps
<1> QED
  BY <1>2, <1>3, <1>4 DEF AtomicInv

LEMMA InitAtomic == SingleProcess /\ Init => AtomicInv
<1> SUFFICES ASSUME SingleProcess, Init PROVE AtomicInv
  OBVIOUS
<1>1. ApartInv /\ \A t \in Threads : Placed(t)
  BY InitApart, InitPlaced
<1>2. \A t \in Threads : Established(t) /\ Gathered(t) /\ Clean(t) /\ Room(t) /\ Listed(t)
  BY DEF Init, NoOp, Established, Calling, Gathered, Bulk, Clean, Room, Listed
<1> QED
  BY <1>1, <1>2 DEF AtomicInv

(***************************************************************************)
(* The steps the clients of the store do not notice.                       *)
(***************************************************************************)

LEMMA QuietTable ==
  ASSUME TypeInv, NEW t \in Threads, Step(t), file' = file, ~Shifting(t), ~Shifting(t)'
  PROVE  tableBar' = tableBar
<1>1. \A u \in Threads \ {t} : /\ Shifting(u)' <=> Shifting(u)
                               /\ OpenFile(u)' = OpenFile(u) /\ SpareSlot(u)' = SpareSlot(u)
  BY OthersAsTheyWere DEF Shifting, OpenFile, SpareSlot
<1> QED
  BY <1>1, SameTable

\* Before the call takes effect.
LEMMA EarlyStep ==
  ASSUME TypeInv, NEW t \in Threads, Step(t), tableBar' = tableBar,
         Request(op'[t]) = Request(op[t]), ~Effective(t), ~Effective(t)'
  PROVE  UNCHANGED Store!svars
<1>1. pc[t] # "idle" /\ pc'[t] # "idle"
  <2>1. ThreadsOK
    BY DEF TypeInv, TypeOK
  <2> QED
    BY <2>1 DEF Step, BeginScan, ReadHit, ReadMiss, ReadInto, ReadEOF, EndScan, LockRecord,
         Overwrite, OverwriteFails, LockTail, ShiftRead, ShiftWrite, ShiftWriteFails,
         ShiftEOF, SeekLast, Truncate, EndWrite, NewId, OpenForAppend, LockEnd,
         AppendRecord, AppendFails, UnlockEnd, SeekSize, Close, OpenFails, Goto, ThreadsOK,
         StageCall
<1> QED
  BY <1>1, Stutters DEF Phase, Reply

\* After it has.
LEMMA LateStep ==
  ASSUME TypeInv, NEW t \in Threads, Step(t), tableBar' = tableBar,
         Request(op'[t]) = Request(op[t]), Effective(t), Effective(t)',
         Status(t)' = Status(t), Records(t)' = Records(t)
  PROVE  UNCHANGED Store!svars
BY Stutters DEF Phase, Reply

\* A record given one id and then another.
LEMMA IdAgain ==
  ASSUME NEW f \in Files, NEW r \in RecOf(f), NEW m \in Nat, NEW n \in Nat
  PROVE  /\ [[r EXCEPT !.id = m] EXCEPT !.id = n] = [r EXCEPT !.id = n]
         /\ r.id = n => [r EXCEPT !.id = n] = r
<1>1. CASE f = "user"
  <2>1. r \in UserRec
    BY <1>1, Tables
  <2> QED
    BY <2>1 DEF UserRec
<1>2. CASE f = "account"
  <2>1. r \in AccountRec
    BY <1>2, Tables
  <2> QED
    BY <2>1 DEF AccountRec
<1>3. CASE f = "trans"
  <2>1. r \in TransRec
    BY <1>3, Tables
  <2> QED
    BY <2>1 DEF TransRec
<1> QED
  BY <1>1, <1>2, <1>3 DEF Files

LEMMA UpdateRequest ==
  ASSUME NEW o, OpOk(o), o.fn = "update_user"
  PROVE  Request(o).rec = [id |-> o.rec.id, uname |-> NoName, aid |-> 0,
                           info |-> o.rec.info]
BY RequestIs

LEMMA SameRequest ==
  ASSUME NEW o, NEW q, OpOk(o), OpOk(q), q.fn = o.fn, q.limit = o.limit,
         Request(q).rec = Request(o).rec
  PROVE  Request(q) = Request(o)
<1>1. /\ Request(o) = [fn |-> o.fn, rec |-> Request(o).rec, limit |-> o.limit]
      /\ Request(q) = [fn |-> q.fn, rec |-> Request(q).rec, limit |-> q.limit]
  BY RequestIs
<1> QED
  BY <1>1

LEMMA SameCreate ==
  ASSUME NEW o, NEW q, OpOk(o), OpOk(q), o.fn \in Creates, q.fn = o.fn,
         q.limit = o.limit, [q.rec EXCEPT !.id = 0] = [o.rec EXCEPT !.id = 0]
  PROVE  Request(q) = Request(o)
<1>1. Request(o).rec = [o.rec EXCEPT !.id = 0]
  BY RequestIs
<1>2. Request(q).rec = [q.rec EXCEPT !.id = 0]
  BY RequestIs
<1> QED
  BY <1>1, <1>2, SameRequest

\* The id a create is given, and the fields update_user restores, are no part of
\* the request.
LEMMA NewIdRequest ==
  ASSUME TypeInv, TypeInv', NEW t \in Threads, NewId(t)
  PROVE  Request(op'[t]) = Request(op[t])
<1> DEFINE n == NextId(Proc(t), OpenFile(t))
           r == [op[t].rec EXCEPT !.id = n]
<1>1. /\ CallOK(t) /\ CallOK(t)' /\ KernelOK /\ ThreadsOK /\ Control(t) /\ OpenFile(t) \in Files
      /\ Proc(t) \in Procs
  BY Located DEF TypeInv, TypeOK
<1>2. pc[t] = "newid" /\ op[t].fn \in Creates /\ n \in Nat /\ op'[t] = WithRec(op[t], r)
  BY <1>1 DEF NewId, Goto, Control, AppendPCs, NextId, KernelOK, ThreadsOK
<1>3. OpOk(op[t]) /\ OpOk(op'[t])
  BY <1>1 DEF CallOK
<1>4. op[t].rec \in RecOf(TableOf(op[t].fn)) /\ TableOf(op[t].fn) \in Files
  BY <1>3 DEF OpOk, TableOf, Files
<1> HIDE DEF n
<1>5. op'[t].fn = op[t].fn /\ op'[t].limit = op[t].limit /\ op'[t].rec = r
  BY <1>2 DEF WithRec
<1>6. [op'[t].rec EXCEPT !.id = 0] = [op[t].rec EXCEPT !.id = 0]
  BY <1>2, <1>4, <1>5, IdAgain
<1> HIDE DEF r
<1>7. PICK q : q = op'[t]
  OBVIOUS
<1>8. OpOk(q) /\ q.fn = op[t].fn /\ q.limit = op[t].limit /\ q.fn \in Creates
      /\ [q.rec EXCEPT !.id = 0] = [op[t].rec EXCEPT !.id = 0]
  BY <1>2, <1>3, <1>5, <1>6, <1>7
<1>9. PICK o : o = op[t]
  OBVIOUS
<1>10. /\ OpOk(o) /\ OpOk(q) /\ q.fn = o.fn /\ q.limit = o.limit /\ o.fn \in Creates
       /\ [q.rec EXCEPT !.id = 0] = [o.rec EXCEPT !.id = 0]
  BY <1>3, <1>8, <1>9
<1>11. Request(q) = Request(o)
  BY <1>10, SameCreate
<1> QED
  BY <1>7, <1>9, <1>11

LEMMA LockRecordRequest ==
  ASSUME TypeInv, TypeInv', NEW t \in Threads, LockRecord(t)
  PROVE  Request(op'[t]) = Request(op[t])
<1>1. CallOK(t) /\ CallOK(t)'
  BY DEF TypeInv, TypeOK
<1>2. OpOk(op[t]) /\ OpOk(op'[t]) /\ op[t].fn \in Updates
  BY <1>1 DEF CallOK, LockRecord
<1>3. CASE op[t].fn # "update_user"
  BY <1>1, <1>3 DEF LockRecord, TypeInv, TypeOK, ThreadsOK
<1>4. CASE op[t].fn = "update_user"
  <2>1. op'[t] = WithRec(op[t], KeepNames(op[t].rec, iter[t]))
    BY <1>4 DEF LockRecord, TypeInv, TypeOK, ThreadsOK
  <2>2. /\ op'[t].fn = op[t].fn /\ op'[t].limit = op[t].limit
        /\ op'[t].rec.id = op[t].rec.id /\ op'[t].rec.info = op[t].rec.info
    BY <2>1 DEF WithRec, KeepNames
  <2>3. PICK q : q = op'[t]
    OBVIOUS
  <2>4. OpOk(q) /\ q.fn = op[t].fn /\ q.limit = op[t].limit
        /\ q.rec.id = op[t].rec.id /\ q.rec.info = op[t].rec.info
    BY <1>2, <2>2, <2>3
  <2>5. Request(q).rec = Request(op[t]).rec
    <3>1. Request(q).rec = [id |-> q.rec.id, uname |-> NoName, aid |-> 0,
                            info |-> q.rec.info]
      BY <1>4, <2>4, UpdateRequest
    <3>2. Request(op[t]).rec = [id |-> op[t].rec.id, uname |-> NoName, aid |-> 0,
                                info |-> op[t].rec.info]
      BY <1>2, <1>4, UpdateRequest
    <3> QED
      BY <2>4, <3>1, <3>2
  <2>6. OpOk(op[t])
    BY <1>2
  <2>7. Request(q) = Request(op[t])
    BY <2>4, <2>5, <2>6, SameRequest
  <2> QED
    BY <2>3, <2>7
<1> QED
  BY <1>3, <1>4

\* What a call does before it has found out anything.
LEMMA EarlyStutters ==
  ASSUME TypeInv, TypeInv', NEW t \in Threads,
         \/ BeginScan(t) \/ ReadMiss(t) \/ LockRecord(t) \/ NewId(t) \/ OpenForAppend(t)
         \/ LockEnd(t)
         \/ ReadInto(t) /\ pc'[t] = "scan"
  PROVE  UNCHANGED Store!svars
<1>1. Step(t) /\ ThreadsOK
  BY DEF Step, TypeInv, TypeOK
<1>2. /\ pc[t] \in {"lock", "scan", "wlock", "newid", "aopen", "alock"}
      /\ pc'[t] \in {"scan", "write", "aopen", "alock", "append"} /\ file' = file
  BY <1>1 DEF BeginScan, ReadMiss, LockRecord, NewId, OpenForAppend, LockEnd, ReadInto,
              Goto, ThreadsOK, disk
<1>3. ~Effective(t) /\ ~Effective(t)' /\ ~Shifting(t) /\ ~Shifting(t)'
  BY <1>2 DEF Effective, ScanOver, Shifting
<1>4. Request(op'[t]) = Request(op[t])
  BY NewIdRequest, LockRecordRequest
     DEF BeginScan, ReadMiss, OpenForAppend, LockEnd, ReadInto, local
<1> QED
  BY <1>1, <1>2, <1>3, <1>4, QuietTable, EarlyStep

LEMMA TableIsSeenNext ==
  KeptApart' /\ TypeInv' => \A t \in Threads : Calling(t)' => tableBar' = TableSeen(t)'
<1>1. (KeptApart /\ TypeInv => \A t \in Threads : Calling(t) => tableBar = TableSeen(t))'
  BY TableIsSeen, PTL
<1> QED
  BY <1>1

\* The unlock after a lookup tells the clients nothing new.
LEMMA EndScanStutters ==
  ASSUME TypeInv, NEW t \in Threads, Placed(t), EndScan(t) PROVE UNCHANGED Store!svars
<1>1. /\ Step(t) /\ ThreadsOK /\ Control(t) /\ op[t].fn \in Fns /\ file' = file
  BY DEF Step, TypeInv, TypeOK, CallOK, OpOk, EndScan, disk
<1>2. /\ pc[t] = "unlock" /\ op'[t] = op[t] /\ stage'[t] = stage[t] /\ iter'[t] = iter[t]
      /\ out'[t] = out[t] /\ ret'[t] = Outcome(t)
      /\ pc'[t] = IF WritesInPlace(op[t].fn, stage[t]) /\ iter[t] # NoRec
                  THEN "wlock" ELSE "close"
  BY <1>1 DEF EndScan, Goto, ThreadsOK, Outcome
<1>3. tableBar' = tableBar
  <2>1. ~Shifting(t) /\ ~Shifting(t)'
    BY <1>2 DEF Shifting
  <2> QED
    BY <1>1, <2>1, QuietTable
<1>4. CASE LastLookup(t)
  <2>1. pc'[t] = "close"
    BY <1>2, <1>4 DEF LastLookup
  <2>2. Outcome(t) # 0 \/ ~HasNext(t)
    <3>1. CASE WritesInPlace(op[t].fn, stage[t])
      <4>1. iter[t] = NoRec
        BY <1>4, <3>1 DEF LastLookup
      <4>2. Outcome(t) = ENOTFOUND
        BY <3>1, <4>1 DEF Outcome, ScanStatus, WritesInPlace, Updates, Bulk
      <4> QED
        BY <4>2 DEF ENOTFOUND
    <3>2. CASE ~WritesInPlace(op[t].fn, stage[t])
      <4>1. op[t].fn \in Gets \cup Bulk => ~HasNext(t)
        BY DEF Gets, Bulk, HasNext
      <4> QED
        BY <1>4, <3>2, <4>1 DEF LastLookup
    <3> QED
      BY <3>1, <3>2
  <2>3. NextStage(t)' = stage'[t]
    BY <1>2, <2>2 DEF NextStage, HasNext
  <2>4. Effective(t) /\ Effective(t)'
    BY <1>2, <1>4, <2>1, <2>3 DEF Effective, ScanOver
  <2>5. Status(t) = Outcome(t) /\ Status(t)' = Outcome(t)
    BY <1>2, <2>1 DEF Status, ScanOver
  <2>6. Records(t)' = Records(t)
    BY <1>2, <2>5 DEF Records
  <2> QED
    BY <1>1, <1>2, <1>3, <2>4, <2>5, <2>6, LateStep
<1>5. CASE ~LastLookup(t)
  <2>1. ~Effective(t)
    BY <1>2, <1>5 DEF Effective, Shifting, ScanOver
  <2>2. CASE pc'[t] = "wlock"
    <3>1. ~Effective(t)'
      BY <2>2 DEF Effective, Shifting, ScanOver
    <3> QED
      BY <1>1, <1>2, <1>3, <2>1, <3>1, EarlyStep
  <2>3. CASE pc'[t] = "close"
    <3>1. ~WritesInPlace(op[t].fn, stage[t]) /\ Outcome(t) = 0
          /\ op[t].fn \notin Gets \cup Bulk
      BY <1>2, <1>5, <2>3 DEF LastLookup
    <3>2. op[t].fn \in {"create_user", "delete_account"}
      BY <1>1, <1>2, <3>1
         DEF Fns, Placed, Counts, Creates, Deletes, Updates, WritesInPlace, AppendPCs
    <3>3. HasNext(t)
      <4>1. CASE op[t].fn = "create_user"
        BY <1>2, <4>1 DEF Placed, HasNext
      <4>2. CASE op[t].fn = "delete_account"
        BY <1>1, <3>1, <4>2 DEF Placed, HasNext, WritesInPlace, ThreadsOK
      <4> QED
        BY <3>2, <4>1, <4>2
    <3>4. NextStage(t)' = stage'[t] + 1 /\ stage'[t] \in 1 .. 3
      BY <1>1, <1>2, <3>1, <3>3 DEF NextStage, HasNext, ThreadsOK
    <3>5. ~Effective(t)'
      BY <2>3, <3>4 DEF Effective, Shifting, ScanOver
    <3> QED
      BY <1>1, <1>2, <1>3, <2>1, <3>5, EarlyStep
  <2> QED
    BY <1>2, <2>2, <2>3
<1> QED
  BY <1>4, <1>5

\* Nor does close(), at the end of the call or between two lookups.
LEMMA CloseStutters ==
  ASSUME TypeInv, NEW t \in Threads, Close(t) PROVE UNCHANGED Store!svars
<1>1. /\ Step(t) /\ ThreadsOK /\ file' = file
  BY DEF Step, TypeInv, TypeOK, Close, disk
<1>2. /\ pc[t] = "close" /\ op'[t] = op[t] /\ out'[t] = out[t] /\ ret'[t] = ret[t]
      /\ iter'[t] = IF NextStage(t) = stage[t] THEN iter[t] ELSE NoRec
      /\ pc'[t] = IF NextStage(t) = stage[t] THEN "done" ELSE StageCall(NextStage(t))
  BY <1>1 DEF Close, Goto, ThreadsOK
<1>3. pc'[t] \in {"done", "lock", "newid"}
  BY <1>2 DEF StageCall
<1>4. tableBar' = tableBar
  <2>1. ~Shifting(t) /\ ~Shifting(t)'
    BY <1>2, <1>3 DEF Shifting
  <2> QED
    BY <1>1, <2>1, QuietTable
<1>5. CASE NextStage(t) = stage[t]
  <2>1. Effective(t) /\ Effective(t)'
    BY <1>2, <1>5 DEF Effective
  <2>2. Status(t) = ret[t] /\ Status(t)' = ret[t]
    BY <1>2, <1>5 DEF Status, ScanOver
  <2>3. Records(t)' = Records(t)
    BY <1>2, <1>5, <2>2 DEF Records
  <2> QED
    BY <1>1, <1>2, <1>4, <2>1, <2>2, <2>3, LateStep
<1>6. CASE NextStage(t) # stage[t]
  <2>1. ~Effective(t)
    BY <1>2, <1>6 DEF Effective, ScanOver, Shifting
  <2>2. pc'[t] \in {"lock", "newid"}
    BY <1>2, <1>6 DEF StageCall
  <2>3. ~Effective(t)'
    BY <2>2 DEF Effective, ScanOver, Shifting
  <2> QED
    BY <1>1, <1>2, <1>4, <2>1, <2>3, EarlyStep
<1> QED
  BY <1>5, <1>6

\* The end of a call that writes.
LEMMA EndStutters ==
  ASSUME TypeInv, NEW t \in Threads, Placed(t), EndWrite(t) \/ UnlockEnd(t)
  PROVE  UNCHANGED Store!svars
<1>1. /\ Step(t) /\ ThreadsOK /\ Control(t) /\ file' = file
  BY DEF Step, TypeInv, TypeOK, EndWrite, UnlockEnd, disk
<1>2. /\ pc[t] \in {"wunlock", "aunlock"} /\ pc'[t] = "close" /\ op'[t] = op[t]
      /\ out'[t] = out[t] /\ ret'[t] = ret[t] /\ iter'[t] = iter[t] /\ stage'[t] = stage[t]
  BY <1>1 DEF EndWrite, UnlockEnd, Goto, ThreadsOK, local
<1>3. tableBar' = tableBar
  <2>1. ~Shifting(t) /\ ~Shifting(t)'
    BY <1>2 DEF Shifting
  <2> QED
    BY <1>1, <2>1, QuietTable
<1>4. ~HasNext(t)
  <2>1. CASE pc[t] = "wunlock"
    BY <2>1 DEF Placed, HasNext, WritesInPlace, Updates
  <2>2. CASE pc[t] = "aunlock"
    BY <1>1, <2>2 DEF Control, AppendPCs, HasNext, Creates
  <2> QED
    BY <1>2, <2>1, <2>2
<1>5. NextStage(t)' = stage'[t]
  BY <1>2, <1>4 DEF NextStage, HasNext
<1>6. Effective(t) /\ Effective(t)'
  BY <1>2, <1>5 DEF Effective
<1>7. Status(t) = ret[t] /\ Status(t)' = ret[t]
  BY <1>2 DEF Status, ScanOver
<1>8. Records(t)' = Records(t)
  BY <1>2, <1>7 DEF Records
<1> QED
  BY <1>1, <1>2, <1>3, <1>6, <1>7, <1>8, LateStep

\* Without the slot that was free before, or the one that is free after a record
\* has been copied down into it, the records are the same.
LEMMA CopiedDown ==
  ASSUME NEW f \in Files, NEW s \in Seq(RecOf(f)), NEW c \in 2 .. Len(s)
  PROVE  RemoveAt(WriteAt(s, c - 2, s[c], ZeroRec(f)), c) = RemoveAt(s, c - 1)
<1> DEFINE w == WriteAt(s, c - 2, s[c], ZeroRec(f))
           a == RemoveAt(w, c)
           b == RemoveAt(s, c - 1)
           R == RecOf(f)
<1>1. /\ c - 2 \in Int /\ 0 <= c - 2 /\ c - 2 < Len(s) /\ (c - 2) + 1 = c - 1
      /\ c \in 1 .. Len(s) /\ c - 1 \in 1 .. Len(s) /\ Len(s) \in Nat /\ s[c] \in R
      /\ ZeroRec(f) \in R
  BY ZeroRecType
<1>2. w \in Seq(R)
  BY <1>1, WriteAtProperties
<1>3. Len(w) = Len(s) /\ \A i \in 1 .. Len(s) : w[i] = IF i = c - 1 THEN s[c] ELSE s[i]
  BY <1>1, WriteAtStays
<1> HIDE DEF w, R
<1>4. /\ a \in Seq(R) /\ Len(a) = Len(s) - 1
      /\ \A j \in 1 .. Len(s) - 1 : a[j] = IF j < c THEN w[j] ELSE w[j + 1]
  BY <1>1, <1>2, <1>3, RemoveAtIs
<1>5. /\ b \in Seq(R) /\ Len(b) = Len(s) - 1
      /\ \A j \in 1 .. Len(s) - 1 : b[j] = IF j < c - 1 THEN s[j] ELSE s[j + 1]
  BY <1>1, RemoveAtIs DEF R
<1> HIDE DEF a, b
<1>6. \A j \in 1 .. Len(s) - 1 : a[j] = b[j]
  <2> TAKE j \in 1 .. Len(s) - 1
  <2>1. j \in 1 .. Len(s) /\ j + 1 \in 1 .. Len(s)
    BY <1>1
  <2> QED
    BY <1>1, <1>3, <1>4, <1>5, <2>1
<1>7. a = b
  BY <1>1, <1>4, <1>5, <1>6, SeqEqual
<1> QED
  BY <1>7 DEF a, b, w

\* Cutting off the last record is removing it.
LEMMA CutOff ==
  ASSUME NEW f \in Files, NEW s \in Seq(RecOf(f)), Len(s) > 0
  PROVE  Resize(s, Len(s) - 1, ZeroRec(f)) = RemoveAt(s, Len(s))
<1> DEFINE a == Resize(s, Len(s) - 1, ZeroRec(f))
           b == RemoveAt(s, Len(s))
           R == RecOf(f)
<1>1. /\ Len(s) - 1 \in Nat /\ Len(s) \in 1 .. Len(s) /\ ZeroRec(f) \in R
      /\ \A i \in 1 .. Len(s) : s[i] \in R
  BY ZeroRecType
<1>2. a = [i \in 1 .. Len(s) - 1 |-> s[i]]
  BY <1>1 DEF Resize
<1>3. a \in Seq(R) /\ Len(a) = Len(s) - 1 /\ \A j \in 1 .. Len(s) - 1 : a[j] = s[j]
  BY <1>1, <1>2
<1>4. /\ b \in Seq(R) /\ Len(b) = Len(s) - 1
      /\ \A j \in 1 .. Len(s) - 1 : b[j] = IF j < Len(s) THEN s[j] ELSE s[j + 1]
  BY <1>1, RemoveAtIs
<1> HIDE DEF a, b
<1>5. \A j \in 1 .. Len(s) - 1 : a[j] = b[j]
  BY <1>1, <1>3, <1>4
<1>6. a = b
  BY <1>3, <1>4, <1>5, SeqEqual
<1> QED
  BY <1>6 DEF a, b

\* The table of the thread that copies the tail down.
LEMMA ShiftSeen ==
  ASSUME NEW t \in Threads, Shifting(t), OpenFile(t)' = OpenFile(t),
         \A f \in Files \ {OpenFile(t)} : file'[f] = file[f],
         RemoveAt(Contents(t), SpareSlot(t)) =
           IF Shifting(t)' THEN RemoveAt(file'[OpenFile(t)], SpareSlot(t)')
           ELSE file'[OpenFile(t)]
  PROVE  TableSeen(t)' = TableSeen(t)
<1>1. ASSUME NEW f \in Files
      PROVE  (IF Shifting(t)' /\ OpenFile(t)' = f
              THEN RemoveAt(file'[f], SpareSlot(t)') ELSE file'[f])
             = IF Shifting(t) /\ OpenFile(t) = f
               THEN RemoveAt(file[f], SpareSlot(t)) ELSE file[f]
  <2>1. CASE f = OpenFile(t)
    BY <2>1 DEF Contents
  <2>2. CASE f # OpenFile(t)
    BY <2>2
  <2> QED
    BY <2>1, <2>2
<1> QED
  BY <1>1 DEF TableSeen

\* While the tail is copied down the table stays as the lock of the tail left it.
LEMMA ShiftStutters ==
  ASSUME ApartInv, KeptApart', TypeInv', NEW t \in Threads,
         \/ ShiftRead(t) \/ ShiftWrite(t) \/ ShiftEOF(t) \/ SeekLast(t) \/ Truncate(t)
  PROVE  UNCHANGED Store!svars
<1> DEFINE f == OpenFile(t)
           s == Contents(t)
<1>1. /\ Step(t) /\ TypeInv /\ ThreadsOK /\ FilesOK /\ Control(t) /\ KeptApart
      /\ SpareIsNext(t)
  BY DEF Step, ApartInv, IInv, TypeInv, TypeOK, Standing
<1>2. f \in Files /\ s \in Seq(RecOf(f)) /\ Len(s) \in Nat
  BY <1>1, Located, FileSeq
<1>3. /\ Shifting(t) /\ pc'[t] \in {"shift", "shiftw", "seekend", "trunc", "wunlock"}
      /\ op'[t] = op[t] /\ stage'[t] = stage[t] /\ ret'[t] = ret[t] /\ out'[t] = out[t]
  BY <1>1 DEF ShiftRead, ShiftWrite, ShiftEOF, SeekLast, Truncate, Goto, ThreadsOK,
              Shifting, local
<1>4. OpenFile(t)' = f /\ op[t].fn \in Deletes
  BY <1>1, <1>3 DEF OpenFile, Control
<1>5. \A g \in Files \ {f} : file'[g] = file[g]
  BY <1>1, OtherFiles DEF ShiftRead, ShiftWrite, ShiftEOF, SeekLast, Truncate, disk
<1>6. RemoveAt(s, SpareSlot(t)) = IF Shifting(t)' THEN RemoveAt(file'[f], SpareSlot(t)')
                                  ELSE file'[f]
  <2>1. CASE ShiftRead(t)
    <3>1. /\ pc[t] = "shift" /\ pc'[t] = "shiftw" /\ cur'[t] = cur[t] + 1 /\ file' = file
          /\ cur[t] \in Int
      BY <1>1, <2>1 DEF ShiftRead, Goto, ThreadsOK, disk
    <3>2. SpareSlot(t) = cur[t] /\ SpareSlot(t)' = cur[t] /\ Shifting(t)'
      BY <3>1 DEF SpareSlot, Shifting
    <3> QED
      BY <3>1, <3>2 DEF Contents
  <2>2. CASE ShiftWrite(t)
    <3>1. /\ pc[t] = "shiftw" /\ pc'[t] = "shift" /\ cur'[t] = cur[t]
          /\ file' = [file EXCEPT ![f] = WriteAt(s, cur[t] - 2, iter[t], ZeroRec(f))]
      BY <1>1, <2>2 DEF ShiftWrite, Goto, ThreadsOK, SetFile, ShiftTarget, AfterShift
    <3>2. file'[f] = WriteAt(s, cur[t] - 2, iter[t], ZeroRec(f))
      BY <1>1, <1>2, <3>1 DEF FilesOK
    <3>3. iter[t] = s[cur[t]] /\ cur[t] \in 2 .. Len(s)
      BY <1>1, <1>2, <3>1 DEF SpareIsNext, Spare
    <3>4. SpareSlot(t) = cur[t] - 1 /\ SpareSlot(t)' = cur[t] /\ Shifting(t)'
      BY <3>1 DEF SpareSlot, Shifting
    <3>5. RemoveAt(file'[f], cur[t]) = RemoveAt(s, cur[t] - 1)
      BY <1>2, <3>2, <3>3, CopiedDown
    <3> QED
      BY <3>4, <3>5
  <2>3. CASE ShiftEOF(t)
    <3>1. pc[t] = "shift" /\ pc'[t] = "seekend" /\ cur'[t] = cur[t] /\ file' = file
      BY <1>1, <2>3 DEF ShiftEOF, Goto, ThreadsOK, disk, local
    <3>2. SpareSlot(t) = cur[t] /\ SpareSlot(t)' = cur[t] /\ Shifting(t)'
      BY <3>1 DEF SpareSlot, Shifting
    <3> QED
      BY <3>1, <3>2 DEF Contents
  <2>4. CASE SeekLast(t)
    <3>1. pc[t] = "seekend" /\ pc'[t] = "trunc" /\ cur'[t] = Len(s) - 1 /\ file' = file
      BY <1>1, <2>4 DEF SeekLast, Goto, ThreadsOK, disk
    <3>2. cur[t] = Len(s)
      BY <1>1, <3>1 DEF SpareIsNext
    <3>3. SpareSlot(t) = Len(s) /\ SpareSlot(t)' = Len(s) /\ Shifting(t)'
      BY <1>2, <3>1, <3>2 DEF SpareSlot, Shifting
    <3> QED
      BY <3>1, <3>3 DEF Contents
  <2>5. CASE Truncate(t)
    <3>1. /\ pc[t] = "trunc" /\ pc'[t] = "wunlock"
      BY <1>1, <2>5 DEF Truncate, Goto, ThreadsOK
    <3>2. cur[t] = Len(s) - 1 /\ Len(s) > 0
      BY <1>1, <1>2, <3>1 DEF SpareIsNext, Spare
    <3>3. file' = [file EXCEPT ![f] = Resize(s, Len(s) - 1, ZeroRec(f))]
      BY <1>2, <2>5, <3>2 DEF Truncate, SetFile, Cut
    <3>4. file'[f] = RemoveAt(s, Len(s))
      BY <1>1, <1>2, <3>2, <3>3, CutOff DEF FilesOK
    <3>5. SpareSlot(t) = Len(s) /\ ~Shifting(t)'
      BY <1>2, <3>1, <3>2 DEF SpareSlot, Shifting
    <3> QED
      BY <3>4, <3>5
  <2> QED
    BY <2>1, <2>2, <2>3, <2>4, <2>5
<1>7. TableSeen(t)' = TableSeen(t)
  BY <1>3, <1>4, <1>5, <1>6, ShiftSeen
<1>8. tableBar' = tableBar
  <2>1. Calling(t) /\ Calling(t)'
    BY <1>1, <1>3, StepIsCalling DEF Calling
  <2>2. tableBar = TableSeen(t) /\ tableBar' = TableSeen(t)'
    BY <1>1, <2>1, TableIsSeen, TableIsSeenNext
  <2> QED
    BY <1>7, <2>2
<1>9. Effective(t) /\ Effective(t)'
  BY <1>3 DEF Effective, Shifting
<1>10. Status(t) = ret[t] /\ Status(t)' = ret[t]
  BY <1>3 DEF Status, ScanOver, Shifting
<1>11. Records(t)' = Records(t)
  BY <1>3, <1>4 DEF Records, Deletes, Gets, Creates
<1> QED
  BY <1>1, <1>3, <1>8, <1>9, <1>10, <1>11, LateStep

(***************************************************************************)
(* The steps in which a call takes effect.                                 *)
(***************************************************************************)

LEMMA PlainTable ==
  ASSUME KeptApart, TypeInv, NEW t \in Threads, Calling(t), ~Shifting(t)
  PROVE  \A f \in Files : tableBar[f] = file[f]
<1>1. tableBar = TableSeen(t)
  BY TableIsSeen
<1> QED
  BY <1>1 DEF TableSeen

\* What the store is asked for.
LEMMA Asked ==
  ASSUME KeptApart, TypeInv, NEW t \in Threads, Calling(t), ~Shifting(t)
  PROVE  LET fn == op[t].fn
         IN  /\ Store!Fn(t) = fn /\ fn \in Fns /\ TableOf(fn) \in Files
             /\ Store!Of(t) = file[TableOf(fn)]
             /\ reqBar[t].limit = op[t].limit
             /\ fn \notin Creates => Store!Arg(t).id = op[t].rec.id
             /\ fn \in Creates => Store!Arg(t) = [op[t].rec EXCEPT !.id = 0]
             /\ fn \notin Creates \cup {"update_user"} => Store!Arg(t) = op[t].rec
             /\ fn = "create_user" => /\ Store!Arg(t).uname = op[t].rec.uname
                                      /\ Store!Arg(t).aid = op[t].rec.aid
             /\ \A n : Store!Named(n) <=> \E a \in Range(file["user"]) : a.uname = n
             /\ \A n : Store!Linked(n) <=> \E a \in Range(file["user"]) : a.aid = n
             /\ \A n : Store!Exists(n) <=> n \in Ids(file["account"])
<1>1. /\ CallOK(t) /\ OpOk(op[t]) /\ op[t].fn \in Fns /\ TableOf(op[t].fn) \in Files
      /\ "user" \in Files /\ "account" \in Files
  BY DEF TypeInv, TypeOK, CallOK, OpOk, TableOf, Files
<1>2. Store!Fn(t) = op[t].fn /\ Store!Arg(t) = Request(op[t]).rec
      /\ Store!Of(t) = file[TableOf(op[t].fn)]
  BY <1>1, StoreTerms, PlainTable
<1>3. reqBar[t].limit = op[t].limit
  BY <1>1, RequestIs DEF reqBar
<1>4. op[t].fn \in Creates => Store!Arg(t) = [op[t].rec EXCEPT !.id = 0]
  BY <1>1, <1>2, RequestIs
<1>5. op[t].fn \notin Creates \cup {"update_user"} => Store!Arg(t) = op[t].rec
  BY <1>1, <1>2, RequestIs
<1>6. op[t].fn \notin Creates => Store!Arg(t).id = op[t].rec.id
  <2>1. op[t].fn = "update_user" => Store!Arg(t).id = op[t].rec.id
    <3> SUFFICES ASSUME op[t].fn = "update_user"
                 PROVE  Store!Arg(t).id = op[t].rec.id
      OBVIOUS
    <3>1. Request(op[t]).rec = [id |-> op[t].rec.id, uname |-> NoName, aid |-> 0,
                                info |-> op[t].rec.info]
      BY <1>1, UpdateRequest
    <3>2. Request(op[t]).rec.id = op[t].rec.id
      BY <3>1
    <3> QED
      BY <1>2, <3>2
  <2> QED
    BY <1>5, <2>1
<1>7. op[t].fn = "create_user" => /\ Store!Arg(t).uname = op[t].rec.uname
                                  /\ Store!Arg(t).aid = op[t].rec.aid
  <2> SUFFICES ASSUME op[t].fn = "create_user"
               PROVE  /\ Store!Arg(t).uname = op[t].rec.uname
                      /\ Store!Arg(t).aid = op[t].rec.aid
    OBVIOUS
  <2>1. op[t].rec \in UserRec
    BY <1>1, Tables DEF OpOk
  <2>2. \A r \in UserRec : [r EXCEPT !.id = 0].uname = r.uname /\ [r EXCEPT !.id = 0].aid = r.aid
    BY DEF UserRec
  <2>3. op[t].fn \in Creates
    BY DEF Creates
  <2> QED
    BY <1>4, <2>1, <2>2, <2>3
<1>8. tableBar["user"] = file["user"] /\ tableBar["account"] = file["account"]
  BY <1>1, PlainTable
<1>9. /\ \A n : Store!Named(n) <=> \E a \in Range(file["user"]) : a.uname = n
      /\ \A n : Store!Linked(n) <=> \E a \in Range(file["user"]) : a.aid = n
  BY <1>8 DEF Store!Named, Store!Linked, Range
<1>10. \A n : Store!Exists(n) <=> n \in Ids(file["account"])
  BY <1>8 DEF Store!Exists, Ids
<1> QED
  BY <1>1, <1>2, <1>3, <1>4, <1>5, <1>6, <1>7, <1>9, <1>10

\* The lookup that is about the records of the call itself.
Searching(t) ==
  /\ op[t].fn \in Gets \cup Updates \cup Deletes
  /\ op[t].fn = "delete_account" => stage[t] # 1

LEMMA HitsAre ==
  ASSUME KeptApart, TypeInv, NEW t \in Threads, Calling(t), ~Shifting(t), Searching(t)
  PROVE  /\ OpenFile(t) = TableOf(op[t].fn)
         /\ Store!Of(t) = Contents(t)
         /\ Store!Hits(t) = {i \in 1 .. Len(Contents(t)) :
                               Matches(op[t], stage[t], Contents(t)[i])}
<1>1. OpenFile(t) = TableOf(op[t].fn) /\ op[t].fn \notin Creates
  BY DEF Searching, OpenFile, FileAt, Gets, Updates, Deletes, Creates
<1>2. Store!Of(t) = Contents(t) /\ Store!Fn(t) = op[t].fn
  BY <1>1, Asked DEF Contents
<1>3. DOMAIN Contents(t) = 1 .. Len(Contents(t))
  BY FileSeq, Located DEF Contents
<1>4. ASSUME NEW r
      PROVE  Matches(op[t], stage[t], r) <=>
               IF op[t].fn = "get_user_from_uname" THEN r.uname = Store!Arg(t).uname
               ELSE r.id = Store!Arg(t).id
  <2>1. CASE op[t].fn = "get_user_from_uname"
    <3>1. Store!Arg(t) = op[t].rec
      BY <2>1, Asked DEF Creates
    <3> QED
      BY <2>1, <3>1 DEF Matches
  <2>2. CASE op[t].fn # "get_user_from_uname"
    <3>1. Store!Arg(t).id = op[t].rec.id
      BY <1>1, Asked
    <3> QED
      BY <1>1, <2>2, <3>1 DEF Matches, Searching, Creates
  <2> QED
    BY <2>1, <2>2
<1> QED
  BY <1>1, <1>2, <1>3, <1>4 DEF Store!Hits

\* An answer without records that leaves the table alone.
LEMMA Rejected ==
  ASSUME TypeInv, NEW t \in Threads, TakesEffect(t), tableBar' = tableBar,
         Records(t)' = <<>>
  PROVE  Store!Reject(t, Status(t)')
BY Effects DEF Store!Reject, Store!Answer

\* The read() that finds a record: an answer, a conflict, or the record to be written.
LEMMA ReadHitSteps ==
  ASSUME ApartInv, NEW t \in Threads, Placed(t), ReadHit(t)
  PROVE  Store!SNext \/ UNCHANGED Store!svars
<1> DEFINE r == Contents(t)[cur[t] + 1]
<1>1. /\ Step(t) /\ TypeInv /\ KeptApart /\ ThreadsOK /\ Control(t) /\ CallOK(t)
      /\ op[t].fn \in Fns /\ Calling(t)
  BY StepIsCalling DEF Step, ApartInv, IInv, TypeInv, TypeOK, CallOK, OpOk
<1>2. /\ pc[t] = "scan" /\ pc'[t] = "unlock" /\ op'[t] = op[t] /\ stage'[t] = stage[t]
      /\ out'[t] = out[t] /\ iter'[t] = r /\ file' = file /\ op[t].fn \notin Bulk
      /\ cur[t] + 1 \in 1 .. Len(Contents(t)) /\ Matches(op[t], stage[t], r)
  <2>1. cur[t] \in Nat /\ Len(Contents(t)) \in Nat
    BY <1>1, FileSeq DEF ReadHit, Goto, ThreadsOK, Control
  <2> QED
    BY <1>1, <2>1 DEF ReadHit, Goto, ThreadsOK, disk
<1>3. r # NoRec /\ r \in Range(Contents(t))
  <2>1. OpenFile(t) \in Files /\ Contents(t) \in Seq(RecOf(OpenFile(t)))
    BY <1>1, Located, FileSeq
  <2> QED
    BY <1>2, <2>1, NoRecAssumption DEF Range
<1>4. ~Shifting(t) /\ ~Shifting(t)' /\ tableBar' = tableBar
  <2>1. ~Shifting(t) /\ ~Shifting(t)'
    BY <1>2 DEF Shifting
  <2> QED
    BY <1>1, <1>2, <2>1, QuietTable
<1>5. ~Effective(t)
  BY <1>2 DEF Effective, ScanOver, Shifting
<1>6. /\ Effective(t)' <=> LastLookup(t)'
      /\ Outcome(t)' = ScanStatus(op[t], stage[t], TRUE, Len(out[t]))
      /\ Status(t)' = Outcome(t)'
      /\ LastLookup(t)' <=> IF WritesInPlace(op[t].fn, stage[t]) THEN FALSE
                            ELSE Outcome(t)' # 0 \/ op[t].fn \in Gets \cup Bulk
  BY <1>2, <1>3 DEF Effective, ScanOver, Shifting, Outcome, Status, LastLookup
<1> HIDE DEF r
<1>7. op[t].fn \notin Bulk => out[t] = <<>>
  BY DEF Placed
<1>8. LastLookup(t)' => TakesEffect(t)
  BY <1>1, <1>2, <1>5, <1>6 DEF TakesEffect
<1>9. ~LastLookup(t)' => UNCHANGED Store!svars
  BY <1>1, <1>2, <1>4, <1>5, <1>6, EarlyStep
<1>10. CASE op[t].fn \in Gets
  <2>1. ~WritesInPlace(op[t].fn, stage[t]) /\ Outcome(t)' = 0
    BY <1>6, <1>10 DEF Gets, WritesInPlace, Updates, ScanStatus, Bulk
  <2>2. TakesEffect(t)
    BY <1>6, <1>8, <1>10, <2>1
  <2>3. Status(t)' = 0 /\ Records(t)' = <<r>>
    BY <1>2, <1>6, <1>10, <2>1 DEF Records
  <2>4. Searching(t)
    BY <1>10 DEF Searching, Gets
  <2>5. cur[t] + 1 \in Store!Hits(t) /\ Store!Of(t)[cur[t] + 1] = r
    BY <1>1, <1>2, <1>4, <2>4, HitsAre DEF r
  <2>6. Store!Fn(t) \in Store!Gets
    BY <1>1, <1>4, <1>10, Asked, StoreSets
  <2>7. Store!Answer(t, 0, <<Store!Of(t)[cur[t] + 1]>>)
    BY <1>1, <2>2, <2>3, <2>5, Effects DEF Store!Answer
  <2>8. Store!Get(t)
    BY <1>4, <2>5, <2>6, <2>7 DEF Store!Get
  <2> QED
    BY <1>1, <2>2, <2>8, EffectIsStep
<1>11. CASE op[t].fn = "create_user" /\ stage[t] = 1
  <2>1. Outcome(t)' = ECONFLICT /\ ~WritesInPlace(op[t].fn, stage[t])
    BY <1>6, <1>11 DEF WritesInPlace, Updates, ScanStatus, Bulk
  <2>2. TakesEffect(t)
    <3>1. Outcome(t)' # 0
      BY <2>1 DEF ECONFLICT
    <3> QED
      BY <1>6, <1>8, <2>1, <3>1
  <2>3. Status(t)' = ECONFLICT
    BY <1>6, <2>1
  <2>4. Records(t)' = <<>>
    BY <1>2, <1>7, <1>11, <2>3 DEF Records, Gets, Bulk, ECONFLICT
  <2>5. Store!Named(Store!Arg(t).uname)
    <3>1. r.uname = op[t].rec.uname /\ r \in Range(file["user"])
      BY <1>2, <1>3, <1>11 DEF Matches, Contents, OpenFile, FileAt, TableOf, UserFns
    <3> QED
      BY <1>1, <1>4, <1>11, <3>1, Asked
  <2>6. Store!Reject(t, Store!ECONFLICT)
    BY <1>1, <1>4, <2>2, <2>3, <2>4, Rejected, StoreSets
  <2>7. Store!CreateRefused(t)
    BY <1>1, <1>4, <1>11, <2>5, <2>6, Asked DEF Store!CreateRefused
  <2> QED
    BY <1>1, <2>2, <2>7, EffectIsStep
<1>12. CASE op[t].fn = "delete_account" /\ stage[t] = 1
  <2>1. Outcome(t)' = ECONFLICT /\ ~WritesInPlace(op[t].fn, stage[t])
    BY <1>6, <1>12 DEF WritesInPlace, Updates, ScanStatus, Bulk
  <2>2. TakesEffect(t)
    <3>1. Outcome(t)' # 0
      BY <2>1 DEF ECONFLICT
    <3> QED
      BY <1>6, <1>8, <2>1, <3>1
  <2>3. Status(t)' = ECONFLICT
    BY <1>6, <2>1
  <2>4. Records(t)' = <<>>
    BY <1>2, <1>7, <1>12, <2>3 DEF Records, Gets, Bulk, Creates
  <2>5. Store!Linked(Store!Arg(t).id)
    <3>1. r.aid = op[t].rec.id /\ r \in Range(file["user"])
      BY <1>2, <1>3, <1>12 DEF Matches, Contents, OpenFile, FileAt
    <3> QED
      BY <1>1, <1>4, <1>12, <3>1, Asked DEF Creates
  <2>6. Store!Reject(t, Store!ECONFLICT)
    BY <1>1, <1>4, <2>2, <2>3, <2>4, Rejected, StoreSets
  <2>7. Store!DeleteRefused(t)
    BY <1>1, <1>4, <1>12, <2>5, <2>6, Asked DEF Store!DeleteRefused
  <2> QED
    BY <1>1, <2>2, <2>7, EffectIsStep
<1>13. CASE ~(op[t].fn \in Gets) /\ ~(op[t].fn \in {"create_user", "delete_account"} /\ stage[t] = 1)
  <2>1. WritesInPlace(op[t].fn, stage[t]) \/ (op[t].fn = "create_user" /\ stage[t] = 2)
    BY <1>1, <1>2, <1>13 DEF Placed, Fns, Gets, Counts, Creates, Updates, Deletes,
         WritesInPlace, AppendPCs, ThreadsOK
  <2>2. op[t].fn = "create_user" /\ stage[t] = 2 => Outcome(t)' = 0
    BY <1>6 DEF ScanStatus, Bulk
  <2>3. ~LastLookup(t)'
    BY <1>2, <1>6, <1>13, <2>1, <2>2
  <2> QED
    BY <1>9, <2>3
<1> QED
  BY <1>10, <1>11, <1>12, <1>13

\* A lookup ends: the call takes effect, or goes on unnoticed.
LEMMA LookupEnds ==
  ASSUME TypeInv, NEW t \in Threads, Step(t), file' = file, pc[t] = "scan",
         pc'[t] = "unlock", op'[t] = op[t], stage'[t] = stage[t]
  PROVE  /\ ~Shifting(t) /\ Calling(t) /\ tableBar' = tableBar
         /\ Status(t)' = Outcome(t)'
         /\ LastLookup(t)' => TakesEffect(t)
         /\ ~LastLookup(t)' => UNCHANGED Store!svars
<1>1. ~Shifting(t) /\ ~Shifting(t)' /\ Calling(t) /\ ~ScanOver(t) /\ ScanOver(t)'
  BY DEF Shifting, Calling, ScanOver
<1>2. tableBar' = tableBar
  BY <1>1, QuietTable
<1>3. ~Effective(t) /\ (Effective(t)' <=> LastLookup(t)') /\ Status(t)' = Outcome(t)'
  BY <1>1 DEF Effective, Shifting, Status
<1> QED
  BY <1>1, <1>2, <1>3, EarlyStep DEF TakesEffect

\* What a bulk getter answers.
LEMMA ListIsStep ==
  ASSUME KeptApart, TypeInv, NEW t \in Threads, TakesEffect(t), Calling(t), ~Shifting(t),
         tableBar' = tableBar, op[t].fn \in Bulk,
         Status(t)' = Len(out'[t]), Records(t)' = out'[t],
         LET all == IF TableOf(op[t].fn) = "trans" THEN History(op[t].rec.aid) ELSE Contents(t)
         IN  out'[t] = IF op[t].fn = "get_num_transactions" THEN all
                       ELSE Store!FirstOf(all, op[t].limit)
  PROVE  Store!SNext
<1>1. /\ Store!Fn(t) = op[t].fn /\ Store!Of(t) = file[TableOf(op[t].fn)]
      /\ reqBar[t].limit = op[t].limit /\ Store!Arg(t) = op[t].rec
  <2>1. op[t].fn \notin Creates \cup {"update_user"}
    BY DEF Bulk, Creates
  <2> QED
    BY <2>1, Asked
<1>2. Contents(t) = Store!Of(t)
  BY <1>1 DEF Contents, OpenFile, FileAt, Bulk
<1>3. TableOf(op[t].fn) = "trans" =>
        Store!HistoryIn(Store!Of(t), Store!Arg(t).aid)[Len(Store!Of(t))]
          = History(op[t].rec.aid)
  BY <1>1, StoreOps DEF History
<1>4. Store!Answer(t, Len(out'[t]), out'[t])
  BY Effects DEF Store!Answer
<1>5. Store!List(t)
  BY <1>1, <1>2, <1>3, <1>4, StoreOps, StoreSets DEF Store!List
<1> QED
  BY <1>5, EffectIsStep

\* What fits into the array.
LEMMA FirstIs ==
  ASSUME NEW R, NEW s \in Seq(R), NEW n \in Nat
  PROVE  /\ Len(s) < n => Store!FirstOf(s, n) = s
         /\ n <= Len(s) => Store!FirstOf(s, n) = SubSeq(s, 1, n)
<1>1. Len(s) \in Nat /\ SubSeq(s, 1, Len(s)) = s
  OBVIOUS
<1>2. PICK k \in Nat : k = Len(s)
  BY <1>1
<1>3. /\ n <= k => (IF n < k THEN n ELSE k) = n
      /\ k < n => (IF n < k THEN n ELSE k) = k
  BY <1>2
<1> QED
  BY <1>1, <1>2, <1>3 DEF Store!FirstOf

\* The journal and the histories in it.
LEMMA JournalOf ==
  ASSUME TypeInv, NEW t \in Threads, op[t].fn \in Bulk
  PROVE  /\ TableOf(op[t].fn) = "trans" <=> op[t].fn \in TransFns
         /\ op[t].fn \in TransFns => Contents(t) = file["trans"]
         /\ file["trans"] \in Seq(TransRec) /\ Len(file["trans"]) \in Nat
         /\ \A n \in 0 .. Len(file["trans"]) :
              HistoryIn(file["trans"], op[t].rec.aid)[n] \in Seq(TransRec)
<1>1. file["trans"] \in Seq(TransRec) /\ Len(file["trans"]) \in Nat
  BY FileSeq, Tables DEF Files
<1>2. \A n \in 0 .. Len(file["trans"]) :
        HistoryIn(file["trans"], op[t].rec.aid)[n] \in Seq(TransRec)
  BY <1>1, HistoryType
<1>3. TableOf(op[t].fn) = "trans" <=> op[t].fn \in TransFns
  BY DEF TableOf, Bulk, UserFns, TransFns
<1>4. op[t].fn \in TransFns => Contents(t) = file["trans"]
  BY <1>3 DEF Contents, OpenFile, FileAt, Bulk
<1> QED
  BY <1>1, <1>2, <1>3, <1>4

\* The records of a bulk getter and their number.
LEMMA BulkAnswer ==
  ASSUME NEW t \in Threads, op[t].fn \in Bulk, op'[t] = op[t], pc'[t] = "unlock",
         stage'[t] = stage[t]
  PROVE  /\ LastLookup(t)' /\ Outcome(t)' = Len(out'[t]) /\ Records(t)' = out'[t]
<1>1. op[t].fn \notin Gets \cup Creates /\ ~WritesInPlace(op[t].fn, stage[t])
  BY DEF Bulk, Gets, Creates, WritesInPlace, Updates
<1> QED
  BY <1>1 DEF LastLookup, Outcome, ScanStatus, Records

\* The read() that fills the array: the first records, as many as it holds.
LEMMA FullSteps ==
  ASSUME ApartInv, NEW t \in Threads, Gathered(t), Room(t), Listed(t), ReadInto(t),
         pc'[t] = "unlock"
  PROVE  Store!SNext
<1>1. /\ Step(t) /\ TypeInv /\ KeptApart /\ ThreadsOK /\ CallOK(t)
  BY DEF Step, ApartInv, IInv, TypeInv, TypeOK
<1>2. /\ pc[t] = "scan" /\ op' = op /\ stage' = stage /\ file' = file
      /\ op[t].fn \in Bulk /\ op[t].fn # "get_num_transactions"
      /\ Len(out'[t]) = op[t].limit
  BY <1>1 DEF ReadInto, ThreadsOK, disk
<1>3. /\ LastLookup(t)' /\ Outcome(t)' = Len(out'[t]) /\ Records(t)' = out'[t]
  BY <1>2, BulkAnswer
<1>4. /\ ~Shifting(t) /\ Calling(t) /\ tableBar' = tableBar
      /\ Status(t)' = Outcome(t)' /\ TakesEffect(t)
  BY <1>1, <1>2, <1>3, LookupEnds
<1>5. op[t].limit \in Nat
  BY <1>1 DEF CallOK, OpOk
<1>6. CASE op[t].fn \in TransFns
  <2>1. Gathered(t)'
    BY <1>1, ReadIntoGathers
  <2> DEFINE s == file["trans"]
             h == HistoryIn(s, op[t].rec.aid)
  <2>2. cur'[t] \in 0 .. Len(s) /\ out'[t] = h[cur'[t]]
    BY <1>2, <1>6, <2>1 DEF Gathered
  <2>3. s \in Seq(TransRec) /\ Len(s) \in cur'[t] .. Len(s) /\ Len(s) \in 0 .. Len(s)
    BY <1>1, <1>2, <2>2, JournalOf
  <2>4. Starts(h[cur'[t]], h[Len(s)])
    BY <2>2, <2>3, HistoryStarts
  <2>5. h[Len(s)] \in Seq(TransRec)
    BY <1>1, <1>2, <2>3, JournalOf
  <2>6. op[t].limit <= Len(h[Len(s)]) /\ out'[t] = SubSeq(h[Len(s)], 1, op[t].limit)
    BY <1>2, <2>2, <2>4 DEF Starts
  <2>7. out'[t] = Store!FirstOf(h[Len(s)], op[t].limit)
    BY <1>5, <2>5, <2>6, FirstIs
  <2>8. out'[t] = Store!FirstOf(History(op[t].rec.aid), op[t].limit)
    BY <2>7 DEF History
  <2> QED
    BY <1>1, <1>2, <1>3, <1>4, <1>6, <2>8, JournalOf, ListIsStep
<1>7. CASE op[t].fn \notin TransFns
  <2> DEFINE s == Contents(t)
  <2>1. cur'[t] \in 0 .. Len(s) /\ out'[t] = SubSeq(s, 1, cur'[t])
    BY <1>1, <1>7, ReadIntoListed
  <2>2. s \in Seq(RecOf(OpenFile(t))) /\ Len(s) \in Nat
    BY <1>1, FileSeq
  <2>3. Len(SubSeq(s, 1, cur'[t])) = cur'[t]
    BY <2>1, <2>2
  <2>4. op[t].limit <= Len(s) /\ out'[t] = SubSeq(s, 1, op[t].limit)
    BY <1>2, <2>1, <2>2, <2>3
  <2>5. out'[t] = Store!FirstOf(s, op[t].limit)
    BY <1>5, <2>2, <2>4, FirstIs
  <2> QED
    BY <1>1, <1>2, <1>3, <1>4, <1>7, <2>5, JournalOf, ListIsStep
<1> QED
  BY <1>6, <1>7

\* The read() that finds no more: no such record, a conflict, the way is clear, or a
\* complete list.
LEMMA ReadEOFSteps ==
  ASSUME ApartInv, NEW t \in Threads, Placed(t), Established(t), Gathered(t), Room(t),
         Listed(t), ReadEOF(t)
  PROVE  Store!SNext \/ UNCHANGED Store!svars
<1>1. /\ Step(t) /\ TypeInv /\ KeptApart /\ ThreadsOK /\ Control(t) /\ CallOK(t)
      /\ op[t].fn \in Fns /\ Calling(t) /\ Sees(t)
  BY StepIsCalling DEF Step, ApartInv, IInv, TypeInv, TypeOK, CallOK, OpOk
<1>2. /\ pc[t] = "scan" /\ pc'[t] = "unlock" /\ op'[t] = op[t] /\ stage'[t] = stage[t]
      /\ out'[t] = out[t] /\ iter'[t] = NoRec /\ file' = file
      /\ cur[t] >= Len(Contents(t)) /\ cur[t] \in Int
  BY <1>1 DEF ReadEOF, Goto, ThreadsOK, Control, disk, local
<1>3. cur[t] = Len(Contents(t)) /\ Len(Contents(t)) \in Nat
  <2>1. cur[t] <= Len(Contents(t)) /\ Len(Contents(t)) \in Nat
    BY <1>1, <1>2, FileSeq DEF Sees, Passed
  <2> QED
    BY <1>2, <2>1
<1>4. op[t].fn \notin Bulk =>
        \A i \in 1 .. Len(Contents(t)) : ~Matches(op[t], stage[t], Contents(t)[i])
  BY <1>1, <1>2, <1>3 DEF Sees, Passed
<1>5. /\ ~Shifting(t) /\ tableBar' = tableBar /\ Status(t)' = Outcome(t)'
      /\ LastLookup(t)' => TakesEffect(t)
      /\ ~LastLookup(t)' => UNCHANGED Store!svars
  BY <1>1, <1>2, LookupEnds
<1>6. /\ Outcome(t)' = ScanStatus(op[t], stage[t], FALSE, Len(out[t]))
      /\ LastLookup(t)' <=> \/ WritesInPlace(op[t].fn, stage[t])
                            \/ Outcome(t)' # 0 \/ op[t].fn \in Gets \cup Bulk
  BY <1>2 DEF Outcome, LastLookup
<1>7. op[t].fn \notin Bulk /\ Status(t)' # 0 => Records(t)' = <<>>
  BY <1>2 DEF Placed, Records
\* A record that is not there.
<1>8. CASE Searching(t) /\ op[t].fn \notin Bulk
  <2>1. Outcome(t)' = ENOTFOUND
    BY <1>1, <1>6, <1>8
       DEF ScanStatus, Searching, Gets, Updates, Deletes
  <2>2. ENOTFOUND # 0
    BY DEF ENOTFOUND
  <2>3. TakesEffect(t)
    BY <1>5, <1>6, <2>1, <2>2
  <2>4. Store!Reject(t, Store!ENOTFOUND)
    BY <1>1, <1>5, <1>7, <1>8, <2>1, <2>2, <2>3, Rejected, StoreSets
  <2>5. Store!Hits(t) = {} /\ Store!Fn(t) = op[t].fn
    BY <1>1, <1>4, <1>5, <1>8, HitsAre, Asked
  <2>6. CASE op[t].fn \in Gets
    <3>1. Store!Get(t)
      BY <2>4, <2>5, <2>6, StoreSets DEF Store!Get
    <3> QED
      BY <1>1, <2>3, <3>1, EffectIsStep
  <2>7. CASE op[t].fn \in Updates \cup Deletes
    <3>1. op[t].fn = "delete_account" => ~Store!Linked(Store!Arg(t).id)
      <4> SUFFICES ASSUME op[t].fn = "delete_account" PROVE ~Store!Linked(Store!Arg(t).id)
        OBVIOUS
      <4>1. stage[t] > 1
        BY <1>1, <1>8 DEF Searching, ThreadsOK
      <4>2. \A a \in Range(file["user"]) : a.aid # op[t].rec.id
        BY <1>1, <4>1 DEF Established, Cleared, Users
      <4>3. op[t].fn \notin Creates
        BY DEF Creates
      <4>4. Store!Arg(t).id = op[t].rec.id
            /\ \A n : Store!Linked(n) <=> \E a \in Range(file["user"]) : a.aid = n
        BY <1>1, <1>5, <4>3, Asked
      <4> QED
        BY <4>2, <4>4
    <3>2. Store!NotFound(t)
      BY <2>4, <2>5, <2>7, <3>1, StoreSets DEF Store!NotFound
    <3> QED
      BY <1>1, <2>3, <3>2, EffectIsStep
  <2> QED
    BY <1>8, <2>6, <2>7 DEF Searching
\* The first lookup of create_user or delete_account finds nobody.
<1>9. CASE op[t].fn \in {"create_user", "delete_account"} /\ stage[t] = 1
  <2>1. Outcome(t)' = 0
    BY <1>6, <1>9 DEF ScanStatus, Bulk
  <2>2. ~WritesInPlace(op[t].fn, stage[t]) /\ op[t].fn \notin Gets \cup Bulk
    BY <1>9 DEF WritesInPlace, Updates, Gets, Bulk
  <2> QED
    BY <1>5, <1>6, <2>1, <2>2
\* The account of a new user does not exist.
<1>10. CASE op[t].fn = "create_user" /\ stage[t] = 2
  <2>1. Outcome(t)' = ECONFLICT /\ op[t].fn \notin Bulk
    BY <1>6, <1>10 DEF ScanStatus, Bulk
  <2>2. ECONFLICT # 0
    BY DEF ECONFLICT
  <2>3. TakesEffect(t)
    BY <1>5, <1>6, <2>1, <2>2
  <2>4. Store!Reject(t, Store!ECONFLICT)
    BY <1>1, <1>5, <1>7, <2>1, <2>2, <2>3, Rejected, StoreSets
  <2>5. op[t].rec.aid \notin Ids(file["account"])
    <3>1. Contents(t) = file["account"]
      BY <1>10 DEF Contents, OpenFile, FileAt
    <3>2. \A i \in 1 .. Len(Contents(t)) : Contents(t)[i].id # op[t].rec.aid
      BY <1>4, <1>10, <2>1 DEF Matches
    <3>3. DOMAIN file["account"] = 1 .. Len(file["account"])
      BY <1>1, FileSeq DEF Files
    <3> QED
      BY <3>1, <3>2, <3>3 DEF Ids
  <2>6. ~Store!Exists(Store!Arg(t).aid) /\ Store!Fn(t) = "create_user"
    BY <1>1, <1>5, <1>10, <2>5, Asked
  <2>7. Store!CreateRefused(t)
    BY <2>4, <2>6 DEF Store!CreateRefused
  <2> QED
    BY <1>1, <2>3, <2>7, EffectIsStep
\* A list is complete.
<1>11. CASE op[t].fn \in Bulk
  <2>1. /\ LastLookup(t)' /\ Outcome(t)' = Len(out'[t]) /\ Records(t)' = out'[t]
    BY <1>2, <1>11, BulkAnswer
  <2>2. TakesEffect(t) /\ Status(t)' = Len(out'[t])
    BY <1>5, <2>1
  <2>3. op[t].limit \in Nat
    BY <1>1 DEF CallOK, OpOk
  <2>4. op[t].fn # "get_num_transactions" => Len(out[t]) < op[t].limit
    BY <1>2, <1>11 DEF Room
  <2> DEFINE all == IF TableOf(op[t].fn) = "trans" THEN History(op[t].rec.aid) ELSE Contents(t)
  <2>5. out[t] = all /\ \E R : all \in Seq(R)
    <3>1. CASE op[t].fn \in TransFns
      <4>1. Contents(t) = file["trans"] /\ Len(file["trans"]) \in 0 .. Len(file["trans"])
        BY <1>1, <1>3, <1>11, <3>1, JournalOf
      <4>2. out[t] = HistoryIn(file["trans"], op[t].rec.aid)[Len(file["trans"])]
        BY <1>3, <1>11, <3>1, <4>1 DEF Gathered
      <4> QED
        BY <1>1, <1>11, <3>1, <4>1, <4>2, JournalOf DEF History
    <3>2. CASE op[t].fn \notin TransFns
      <4>1. out[t] = SubSeq(Contents(t), 1, Len(Contents(t)))
        BY <1>2, <1>3, <1>11, <3>2 DEF Listed
      <4>2. Contents(t) \in Seq(RecOf(OpenFile(t)))
        BY <1>1, FileSeq
      <4>3. out[t] = Contents(t)
        BY <4>1, <4>2
      <4> QED
        BY <1>1, <1>11, <3>2, <4>2, <4>3, JournalOf
    <3> QED
      BY <3>1, <3>2
  <2> HIDE DEF all
  <2>6. PICK R : all \in Seq(R)
    BY <2>5
  <2>7. out'[t] = IF op[t].fn = "get_num_transactions" THEN all
                  ELSE Store!FirstOf(all, op[t].limit)
    BY <1>2, <2>3, <2>4, <2>5, <2>6, FirstIs
  <2> QED
    BY <1>1, <1>5, <1>11, <2>1, <2>2, <2>7, ListIsStep DEF all
<1> QED
  <2>1. op[t].fn \notin Bulk =>
          Searching(t) \/ (op[t].fn \in {"create_user", "delete_account"} /\ stage[t] = 1)
          \/ (op[t].fn = "create_user" /\ stage[t] = 2)
    BY <1>1, <1>2 DEF Placed, Fns, Searching, Counts, Creates, Gets, Updates,
         Deletes, AppendPCs, ThreadsOK
  <2> QED
    BY <1>8, <1>9, <1>10, <1>11, <2>1

\* A write by a thread that does not shift is a write to the table.
LEMMA TableWritten ==
  ASSUME KeptApart, TypeInv, KeptApart', TypeInv', NEW t \in Threads, Calling(t),
         Calling(t)', ~Shifting(t), ~Shifting(t)', NEW f \in Files,
         \A g \in Files \ {f} : file'[g] = file[g]
  PROVE  tableBar' = [tableBar EXCEPT ![f] = file'[f]]
<1>1. tableBar = TableSeen(t) /\ tableBar' = TableSeen(t)'
  BY TableIsSeen, TableIsSeenNext
<1>2. TableSeen(t) = [g \in Files |-> file[g]] /\ TableSeen(t)' = [g \in Files |-> file'[g]]
  BY DEF TableSeen
<1> QED
  BY <1>1, <1>2

\* The record an update or a delete has found.
LEMMA Target ==
  ASSUME ApartInv, NEW t \in Threads, Calling(t), ~Shifting(t),
         pc[t] \in {"wlock", "write"}
  PROVE  /\ op[t].fn \in Updates \cup Deletes /\ OpenFile(t) = TableOf(op[t].fn)
         /\ op[t].fn = "delete_account" => stage[t] = 2
         /\ cur[t] \in 1 .. Len(Contents(t)) /\ cur[t] \in Store!Hits(t)
         /\ Store!Fn(t) = op[t].fn /\ Store!Of(t) = Contents(t)
         /\ Contents(t) \in Seq(RecOf(OpenFile(t))) /\ OpenFile(t) \in Files
<1>1. /\ KeptApart /\ TypeInv /\ Control(t) /\ AtTarget(t)
  BY DEF ApartInv, IInv, TypeInv, Standing
<1>2. WritesInPlace(op[t].fn, stage[t]) /\ iter[t] # NoRec
  BY <1>1 DEF Control
<1>3. /\ op[t].fn \in Updates \cup Deletes /\ Searching(t)
      /\ op[t].fn = "delete_account" => stage[t] = 2
  BY <1>2 DEF WritesInPlace, Deletes, Updates, Searching
<1>4. cur[t] \in 1 .. Len(Contents(t)) /\ Contents(t)[cur[t]].id = op[t].rec.id
  BY <1>1, <1>2 DEF AtTarget
<1>5. Matches(op[t], stage[t], Contents(t)[cur[t]])
  BY <1>3, <1>4 DEF Matches, Updates, Deletes
<1>6. /\ OpenFile(t) = TableOf(op[t].fn) /\ Store!Of(t) = Contents(t)
      /\ Store!Hits(t) = {i \in 1 .. Len(Contents(t)) :
                            Matches(op[t], stage[t], Contents(t)[i])}
  BY <1>1, <1>3, HitsAre
<1>7. Store!Fn(t) = op[t].fn
  BY <1>1, Asked
<1> QED
  BY <1>1, <1>3, <1>4, <1>5, <1>6, <1>7, FileSeq, Located

\* A write in place, as a sequence.
LEMMA WrittenAt ==
  ASSUME NEW f \in Files, NEW s \in Seq(RecOf(f)), NEW i \in 1 .. Len(s), NEW r \in RecOf(f)
  PROVE  WriteAt(s, i - 1, r, ZeroRec(f)) = [s EXCEPT ![i] = r]
<1> DEFINE w == WriteAt(s, i - 1, r, ZeroRec(f))
           e == [s EXCEPT ![i] = r]
<1>1. /\ i - 1 \in Int /\ 0 <= i - 1 /\ i - 1 < Len(s) /\ (i - 1) + 1 = i /\ Len(s) \in Nat
      /\ ZeroRec(f) \in RecOf(f)
  BY ZeroRecType
<1>2. w \in Seq(RecOf(f))
  BY <1>1, WriteAtProperties
<1>3. Len(w) = Len(s) /\ \A j \in 1 .. Len(s) : w[j] = IF j = i THEN r ELSE s[j]
  BY <1>1, WriteAtStays
<1>4. e \in Seq(RecOf(f)) /\ Len(e) = Len(s)
      /\ \A j \in 1 .. Len(s) : e[j] = IF j = i THEN r ELSE s[j]
  BY ExceptSeq
<1> HIDE DEF w, e
<1>5. w = e
  BY <1>2, <1>3, <1>4, SeqEqual
<1> QED
  BY <1>5 DEF w, e

\* The write() of an update puts the record where the id is, with the name and the
\* account that are stored there.
LEMMA OverwriteIsUpdate ==
  ASSUME ApartInv, KeptApart', TypeInv', NEW t \in Threads, Placed(t), Clean(t), Overwrite(t)
  PROVE  Store!SNext
<1> DEFINE f == OpenFile(t)
           s == Contents(t)
<1>1. /\ Step(t) /\ TypeInv /\ KeptApart /\ ThreadsOK /\ FilesOK /\ Control(t) /\ CallOK(t)
      /\ Calling(t) /\ Sees(t)
  BY StepIsCalling DEF Step, ApartInv, IInv, TypeInv, TypeOK
<1>2. /\ pc[t] = "write" /\ pc'[t] = "wunlock" /\ op'[t] = op[t] /\ stage'[t] = stage[t]
      /\ out'[t] = out[t] /\ ret'[t] = ret[t] /\ iter'[t] = iter[t] /\ cur'[t] = cur[t]
      /\ file' = [file EXCEPT ![f] = WriteAt(s, cur[t] - 1, op[t].rec, ZeroRec(f))]
  BY <1>1 DEF Overwrite, Goto, ThreadsOK, SetFile, Position, local
<1>3. op[t].fn \in Updates /\ iter[t] # NoRec
  BY <1>1, <1>2 DEF Control
<1>4. ~Shifting(t) /\ ~Shifting(t)' /\ Calling(t)'
  BY <1>2 DEF Shifting, Calling
<1>5. /\ f = TableOf(op[t].fn) /\ f \in Files /\ s \in Seq(RecOf(f))
      /\ cur[t] \in 1 .. Len(s) /\ cur[t] \in Store!Hits(t)
      /\ Store!Fn(t) = op[t].fn /\ Store!Of(t) = s
  BY <1>1, <1>2, <1>4, Target
<1>6. op[t].rec \in RecOf(f) /\ op[t].rec = op'[t].rec
  BY <1>1, <1>2, <1>5 DEF CallOK, OpOk
<1>7. file'[f] = [s EXCEPT ![cur[t]] = op[t].rec]
  <2>1. file'[f] = WriteAt(s, cur[t] - 1, op[t].rec, ZeroRec(f))
    BY <1>1, <1>2, <1>5 DEF FilesOK
  <2> QED
    BY <1>5, <1>6, <2>1, WrittenAt
<1>8. \A g \in Files \ {f} : file'[g] = file[g]
  BY <1>1, OtherFiles DEF Overwrite
<1>9. Store!Store(f, [s EXCEPT ![cur[t]] = op[t].rec])
  <2>1. tableBar' = [tableBar EXCEPT ![f] = file'[f]]
    BY <1>1, <1>4, <1>5, <1>8, TableWritten
  <2> QED
    BY <1>7, <2>1 DEF Store!Store
<1>10. TakesEffect(t) /\ Status(t)' = 0 /\ Records(t)' = <<>>
  <2>1. ~Effective(t) /\ Effective(t)' /\ ~ScanOver(t)'
    BY <1>2 DEF Effective, ScanOver, Shifting
  <2>2. ret[t] = 0 /\ out[t] = <<>>
    BY <1>2, <1>3 DEF Clean, Placed, Updates, Bulk
  <2>3. op[t].fn \notin Gets \cup Creates
    BY <1>3 DEF Updates, Gets, Creates
  <2> QED
    BY <1>1, <1>2, <2>1, <2>2, <2>3 DEF TakesEffect, Status, Records
<1>11. Store!Answer(t, 0, <<>>)
  BY <1>1, <1>10, Effects DEF Store!Answer
<1>12. op[t].rec = IF Store!Fn(t) = "update_user"
                   THEN [Store!Arg(t) EXCEPT !.uname = Store!Of(t)[cur[t]].uname,
                                             !.aid = Store!Of(t)[cur[t]].aid]
                   ELSE Store!Arg(t)
  <2>1. CASE op[t].fn = "update_user"
    <3> DEFINE a == Store!Arg(t)
    <3>1. op[t].rec \in UserRec /\ f = "user" /\ OpOk(op[t])
      BY <1>1, <1>5, <1>6, <2>1, Tables DEF CallOK
    <3>2. a = [id |-> op[t].rec.id, uname |-> NoName, aid |-> 0, info |-> op[t].rec.info]
      BY <2>1, <3>1, StoreTerms, UpdateRequest
    <3>3. a \in UserRec /\ a.id = op[t].rec.id /\ a.info = op[t].rec.info
      BY <3>1, <3>2 DEF UserRec
    <3>4. op[t].rec.uname = s[cur[t]].uname /\ op[t].rec.aid = s[cur[t]].aid
      <4>1. op[t].rec.uname = iter[t].uname /\ op[t].rec.aid = iter[t].aid
        BY <1>1, <1>2, <2>1 DEF Sees, FoundIsKept
      <4>2. SameIdentity("user", iter[t], s[cur[t]])
        BY <1>1, <1>2, <1>3, <3>1 DEF Sees, Found
      <4> QED
        BY <4>1, <4>2 DEF SameIdentity
    <3> HIDE DEF a
    <3>5. [a EXCEPT !.uname = s[cur[t]].uname, !.aid = s[cur[t]].aid] =
            [id |-> a.id, uname |-> s[cur[t]].uname, aid |-> s[cur[t]].aid, info |-> a.info]
      BY <3>3, TwoFields
    <3>6. op[t].rec = [id |-> op[t].rec.id, uname |-> op[t].rec.uname,
                       aid |-> op[t].rec.aid, info |-> op[t].rec.info]
      BY <3>1 DEF UserRec
    <3>7. [a EXCEPT !.uname = s[cur[t]].uname, !.aid = s[cur[t]].aid] = op[t].rec
      BY <3>3, <3>4, <3>5, <3>6
    <3> QED
      BY <1>5, <2>1, <3>7 DEF a
  <2>2. CASE op[t].fn # "update_user"
    <3>1. op[t].fn \notin Creates \cup {"update_user"}
      BY <1>3, <2>2 DEF Updates, Creates
    <3> QED
      BY <1>1, <1>4, <1>5, <2>2, <3>1, Asked
  <2> QED
    BY <2>1, <2>2
<1>13. Store!Update(t)
  <2>1. Store!Store(Store!TableOf(Store!Fn(t)), [Store!Of(t) EXCEPT ![cur[t]] = op[t].rec])
    BY <1>5, <1>9, StoreOps
  <2>2. Store!Fn(t) \in Store!Updates
    BY <1>3, <1>5, StoreSets
  <2> QED
    BY <1>5, <1>11, <1>12, <2>1, <2>2 DEF Store!Update
<1> QED
  BY <1>1, <1>10, <1>13, EffectIsStep

\* The lock of the tail takes the record found out of the table.
LEMMA LockTailIsDelete ==
  ASSUME ApartInv, KeptApart', TypeInv', NEW t \in Threads, Placed(t), Established(t),
         Clean(t), LockTail(t)
  PROVE  Store!SNext
<1> DEFINE f == OpenFile(t)
           s == Contents(t)
<1>1. /\ Step(t) /\ TypeInv /\ KeptApart /\ ThreadsOK /\ Calling(t)
  BY StepIsCalling DEF Step, ApartInv, IInv, TypeInv, TypeOK
<1>2. /\ pc[t] = "wlock" /\ pc'[t] = "shift" /\ op'[t] = op[t] /\ stage'[t] = stage[t]
      /\ out'[t] = out[t] /\ ret'[t] = ret[t] /\ iter'[t] = iter[t] /\ cur'[t] = cur[t]
      /\ file' = file /\ op[t].fn \in Deletes
  BY <1>1 DEF LockTail, Goto, ThreadsOK, disk
<1>3. ~Shifting(t) /\ Shifting(t)' /\ Calling(t)' /\ SpareSlot(t)' = cur[t] /\ OpenFile(t)' = f
  BY <1>2 DEF Shifting, Calling, SpareSlot, OpenFile
<1>4. /\ f = TableOf(op[t].fn) /\ f \in Files /\ cur[t] \in Store!Hits(t)
      /\ Store!Fn(t) = op[t].fn /\ Store!Of(t) = s
      /\ op[t].fn = "delete_account" => stage[t] = 2
  BY <1>1, <1>2, <1>3, Target
<1>5. tableBar' = [tableBar EXCEPT ![f] = RemoveAt(s, cur[t])]
  <2>1. tableBar = TableSeen(t) /\ tableBar' = TableSeen(t)'
    BY <1>1, <1>3, TableIsSeen, TableIsSeenNext
  <2>2. TableSeen(t) = [g \in Files |-> file[g]]
    BY <1>3 DEF TableSeen
  <2>3. TableSeen(t)' = [g \in Files |-> IF g = f THEN RemoveAt(s, cur[t]) ELSE file[g]]
    BY <1>2, <1>3 DEF TableSeen, Contents
  <2> QED
    BY <1>4, <2>1, <2>2, <2>3
<1>6. TakesEffect(t) /\ Status(t)' = 0 /\ Records(t)' = <<>>
  <2>1. ~Effective(t) /\ Effective(t)' /\ ~ScanOver(t)'
    BY <1>2, <1>3 DEF Effective, ScanOver, Shifting
  <2>2. ret[t] = 0 /\ out[t] = <<>>
    BY <1>2 DEF Clean, Placed, Deletes, Bulk
  <2>3. op[t].fn \notin Gets \cup Creates
    BY <1>2 DEF Deletes, Gets, Creates
  <2> QED
    BY <1>1, <1>2, <2>1, <2>2, <2>3 DEF TakesEffect, Status, Records
<1>7. Store!Answer(t, 0, <<>>)
  BY <1>1, <1>6, Effects DEF Store!Answer
<1>8. op[t].fn = "delete_account" => ~Store!Linked(Store!Arg(t).id)
  <2> SUFFICES ASSUME op[t].fn = "delete_account" PROVE ~Store!Linked(Store!Arg(t).id)
    OBVIOUS
  <2>1. Cleared(t, 1)
    BY <1>4 DEF Cleared
  <2>2. \A a \in Range(file["user"]) : a.aid # op[t].rec.id
    BY <1>1, <2>1 DEF Established, Users
  <2>3. op[t].fn \notin Creates
    BY DEF Creates
  <2>4. Store!Arg(t).id = op[t].rec.id
        /\ \A n : Store!Linked(n) <=> \E a \in Range(file["user"]) : a.aid = n
    BY <1>1, <1>3, <2>3, Asked
  <2> QED
    BY <2>2, <2>4
<1>9. Store!Delete(t)
  <2>1. Store!Store(Store!TableOf(Store!Fn(t)), Store!RemoveAt(Store!Of(t), cur[t]))
    BY <1>4, <1>5, StoreOps DEF Store!Store
  <2>2. Store!Fn(t) \in Store!Deletes
    BY <1>2, <1>4, StoreSets
  <2> QED
    BY <1>4, <1>7, <1>8, <2>1, <2>2 DEF Store!Delete
<1> QED
  BY <1>1, <1>6, <1>9, EffectIsStep

\* The write() of a create adds the record under an id that is not stored.
LEMMA AppendIsCreate ==
  ASSUME ApartInv, KeptApart', TypeInv', NEW t \in Threads, Placed(t), Established(t),
         Clean(t), AppendRecord(t)
  PROVE  Store!SNext
<1> DEFINE f == OpenFile(t)
           s == file[f]
           n == op[t].rec.id
<1>1. /\ Step(t) /\ IInv /\ TypeInv /\ KeptApart /\ ThreadsOK /\ FilesOK /\ Control(t)
      /\ CallOK(t) /\ Calling(t) /\ Standing(t) /\ f \in Files
  BY StepIsCalling, Located DEF Step, ApartInv, IInv, TypeInv, TypeOK
<1>2. /\ pc[t] = "append" /\ pc'[t] = "aunlock" /\ op'[t] = op[t] /\ stage'[t] = stage[t]
      /\ out'[t] = out[t] /\ ret'[t] = ret[t] /\ iter'[t] = iter[t]
      /\ file' = [file EXCEPT ![f] = Append(s, op[t].rec)]
  BY <1>1 DEF AppendRecord, Goto, ThreadsOK, SetFile, Appended, Contents, local
<1>3. op[t].fn \in Creates /\ stage[t] = 3
  BY <1>1, <1>2 DEF Control, AppendPCs
<1>4. ~Shifting(t) /\ ~Shifting(t)' /\ Calling(t)'
  BY <1>2 DEF Shifting, Calling
<1>5. f = TableOf(op[t].fn)
  BY <1>3 DEF OpenFile, FileAt, Creates
<1>6. file'[f] = Append(s, op[t].rec)
  BY <1>1, <1>2 DEF FilesOK
<1>7. tableBar' = [tableBar EXCEPT ![f] = file'[f]]
  <2>1. \A g \in Files \ {f} : file'[g] = file[g]
    BY <1>1, OtherFiles
  <2> QED
    BY <1>1, <1>4, <2>1, TableWritten
<1>8. /\ Store!Fn(t) = op[t].fn /\ Store!Of(t) = s
      /\ Store!Arg(t) = [op[t].rec EXCEPT !.id = 0]
  BY <1>1, <1>3, <1>4, <1>5, Asked
<1>9. n \in Ids(tableBar'[f]) \ Ids(tableBar[f]) /\ tableBar[f] = s
  <2>1. tableBar[f] = s
    BY <1>1, <1>4, PlainTable
  <2>2. tableBar'[f] = file'[f]
    <3>1. f \in DOMAIN tableBar
      BY <1>1 DEF tableBar
    <3> QED
      BY <1>7, <3>1
  <2>3. Ids(file'[f]) = Ids(s) \cup {n} /\ n \notin Ids(s)
    BY <1>1, AppendAlone
  <2> QED
    BY <2>1, <2>2, <2>3
<1>10. [Store!Arg(t) EXCEPT !.id = n] = op[t].rec
  <2>1. op[t].rec \in RecOf(f)
    BY <1>1, <1>5 DEF CallOK, OpOk
  <2>2. n \in Nat
    BY <1>1, <2>1, RecIds
  <2>3. /\ [[op[t].rec EXCEPT !.id = 0] EXCEPT !.id = n] = [op[t].rec EXCEPT !.id = n]
        /\ [op[t].rec EXCEPT !.id = n] = op[t].rec
    BY <1>1, <2>1, <2>2, IdAgain
  <2> QED
    BY <1>8, <2>3
<1>11. TakesEffect(t) /\ Status(t)' = 0 /\ Records(t)' = <<op[t].rec>>
  <2>1. ~Effective(t) /\ Effective(t)' /\ ~ScanOver(t)'
    BY <1>2 DEF Effective, ScanOver, Shifting
  <2>2. ret[t] = 0
    BY <1>2 DEF Clean
  <2>3. op[t].fn \notin Gets
    BY <1>3 DEF Gets, Creates
  <2> QED
    BY <1>1, <1>2, <1>3, <2>1, <2>2, <2>3 DEF TakesEffect, Status, Records
<1>12. Store!Answer(t, 0, <<op[t].rec>>)
  BY <1>1, <1>11, Effects DEF Store!Answer
<1>13. Store!Fn(t) = "create_user" =>
         ~Store!Named(Store!Arg(t).uname) /\ Store!Exists(Store!Arg(t).aid)
  <2> SUFFICES ASSUME op[t].fn = "create_user"
               PROVE  ~Store!Named(Store!Arg(t).uname) /\ Store!Exists(Store!Arg(t).aid)
    BY <1>8
  <2>1. Cleared(t, 1) /\ Cleared(t, 2) /\ Unwritten(t)
    BY <1>2, <1>3 DEF Cleared, Unwritten
  <2>2. /\ \A a \in Range(file["user"]) : a.uname # op[t].rec.uname
        /\ op[t].rec.aid \in Ids(file["account"])
    BY <1>1, <2>1 DEF Established, Users
  <2>3. /\ Store!Arg(t).uname = op[t].rec.uname /\ Store!Arg(t).aid = op[t].rec.aid
        /\ \A m : Store!Named(m) <=> \E a \in Range(file["user"]) : a.uname = m
        /\ \A m : Store!Exists(m) <=> m \in Ids(file["account"])
    BY <1>1, <1>4, Asked
  <2> QED
    BY <2>2, <2>3
<1>14. Store!Create(t)
  <2>1. Store!TableOf(Store!Fn(t)) = f /\ Store!Fn(t) \in Store!Creates
    BY <1>3, <1>5, <1>8, StoreOps, StoreSets
  <2>2. n \in Store!Ids(tableBar'[f]) \ Store!Ids(tableBar[f])
    BY <1>9, StoreOps
  <2>3. Store!Store(f, Append(tableBar[f], [Store!Arg(t) EXCEPT !.id = n]))
    BY <1>6, <1>7, <1>9, <1>10 DEF Store!Store
  <2>4. Store!Answer(t, 0, <<[Store!Arg(t) EXCEPT !.id = n]>>)
    BY <1>10, <1>12
  <2> QED
    BY <1>13, <2>1, <2>2, <2>3, <2>4 DEF Store!Create
<1> QED
  BY <1>1, <1>11, <1>14, EffectIsStep

\* The offset of the end is the number of records.
LEMMA SeekSizeIsCount ==
  ASSUME KeptApart, TypeInv, NEW t \in Threads, Placed(t), SeekSize(t)
  PROVE  Store!SNext
<1>1. /\ Step(t) /\ ThreadsOK /\ Control(t) /\ Calling(t)
  BY StepIsCalling DEF Step, TypeInv, TypeOK
<1>2. /\ pc[t] = "size" /\ pc'[t] = "close" /\ op'[t] = op[t] /\ stage'[t] = stage[t]
      /\ out'[t] = out[t] /\ iter'[t] = iter[t] /\ ret'[t] = Len(Contents(t)) /\ file' = file
  BY <1>1 DEF SeekSize, Goto, ThreadsOK, disk
<1>3. op[t].fn \in Counts
  BY <1>1, <1>2 DEF Control
<1>4. /\ OpenFile(t) = TableOf(op[t].fn) /\ ~HasNext(t) /\ out[t] = <<>>
      /\ op[t].fn \notin Gets \cup Creates
  BY <1>3 DEF OpenFile, FileAt, Counts, HasNext, Placed, Bulk, Gets, Creates
<1>5. ~Shifting(t) /\ ~Shifting(t)' /\ ~ScanOver(t)'
  BY <1>2 DEF Shifting, ScanOver
<1>6. tableBar' = tableBar
  BY <1>1, <1>2, <1>5, QuietTable
<1>7. NextStage(t)' = stage'[t]
  BY <1>2, <1>4 DEF NextStage, HasNext
<1>8. TakesEffect(t)
  BY <1>1, <1>2, <1>5, <1>7 DEF TakesEffect, Effective, ScanOver
<1>9. Status(t)' = Len(Contents(t)) /\ Records(t)' = <<>>
  BY <1>2, <1>4, <1>5 DEF Status, Records
<1>10. Store!Fn(t) = op[t].fn /\ Store!Of(t) = Contents(t)
  BY <1>1, <1>4, <1>5, Asked DEF Contents
<1>11. Store!Answer(t, Len(Store!Of(t)), <<>>)
  BY <1>8, <1>9, <1>10, Effects DEF Store!Answer
<1>12. Store!Count(t)
  BY <1>3, <1>6, <1>10, <1>11, StoreSets DEF Store!Count
<1> QED
  BY <1>8, <1>12, EffectIsStep

\* A call that is made is a request to the store.
LEMMA CallIsInvoke ==
  ASSUME TypeInv, NEW t \in Threads, NEW o \in Ops, Invoke(t, o)
  PROVE  Store!SNext
<1>1. /\ pc[t] \in {"idle", "done"} /\ pc'[t] \in {"lock", "newid", "size"} /\ op'[t] = o
      /\ file' = file
      /\ \A u \in Threads \ {t} :
            /\ pc'[u] = pc[u] /\ op'[u] = op[u] /\ stage'[u] = stage[u]
            /\ cur'[u] = cur[u] /\ iter'[u] = iter[u] /\ ret'[u] = ret[u]
            /\ out'[u] = out[u]
  BY Called
<1>2. ~Shifting(t) /\ ~Shifting(t)' /\ Phase(t) # "called"
  BY <1>1 DEF Shifting, Phase, Effective
<1>3. tableBar' = tableBar
  <2>1. \A u \in Threads \ {t} : /\ Shifting(u)' <=> Shifting(u)
                                 /\ OpenFile(u)' = OpenFile(u) /\ SpareSlot(u)' = SpareSlot(u)
    BY <1>1 DEF Shifting, OpenFile, SpareSlot
  <2> QED
    BY <1>1, <1>2, <2>1, SameTable
<1>4. Phase(t)' = "called" /\ Reply(t)' = Store!NoAnswer
  <2>1. ~Effective(t)'
    BY <1>1 DEF Effective, ScanOver, Shifting
  <2> QED
    BY <1>1, <2>1 DEF Phase, Reply, Store!NoAnswer
<1>5. \A u \in Threads \ {t} : /\ Phase(u)' = Phase(u) /\ Reply(u)' = Reply(u)
                               /\ Request(op'[u]) = Request(op[u])
  BY <1>1, SameView
<1>6. /\ reqBar' = [reqBar EXCEPT ![t] = Request(o)]
      /\ phaseBar' = [phaseBar EXCEPT ![t] = "called"]
      /\ answerBar' = [answerBar EXCEPT ![t] = Store!NoAnswer]
      /\ phaseBar[t] # "called"
  BY <1>1, <1>2, <1>4, <1>5 DEF reqBar, phaseBar, answerBar
<1>7. Store!Invoke(t)
  BY <1>3, <1>6 DEF Store!Invoke
<1> QED
  BY <1>7 DEF Store!SNext

\* Every step of the database is a step of the store, or the store stands still.
LEMMA NextImplements ==
  NoFaults /\ AtomicInv /\ AtomicInv' /\ [Next /\ KeptApart']_vars =>
    Store!SNext \/ UNCHANGED Store!svars
<1> SUFFICES ASSUME NoFaults, AtomicInv, AtomicInv', [Next /\ KeptApart']_vars
             PROVE  Store!SNext \/ UNCHANGED Store!svars
  OBVIOUS
<1>1. /\ ApartInv /\ TypeInv /\ KeptApart /\ KeptApart' /\ TypeInv' /\ Faults = {}
      /\ \A t \in Threads : /\ Placed(t) /\ Established(t) /\ Gathered(t)
                            /\ Clean(t) /\ Room(t) /\ Listed(t)
  BY DEF AtomicInv, ApartInv, IInv, NoFaults
<1>2. ASSUME NEW t \in Threads, Step(t) PROVE Store!SNext \/ UNCHANGED Store!svars
  <2>1. CASE ReadHit(t)
    BY <1>1, <2>1, ReadHitSteps
  <2>2. CASE ReadEOF(t)
    BY <1>1, <2>2, ReadEOFSteps
  <2>3. CASE ReadInto(t)
    <3>1. pc'[t] \in {"scan", "unlock"}
      BY <1>1, <2>3 DEF ReadInto, TypeInv, TypeOK, ThreadsOK
    <3> QED
      BY <1>1, <2>3, <3>1, FullSteps, EarlyStutters
  <2>4. CASE BeginScan(t) \/ ReadMiss(t) \/ LockRecord(t) \/ NewId(t) \/ OpenForAppend(t)
             \/ LockEnd(t)
    BY <1>1, <2>4, EarlyStutters
  <2>5. CASE EndScan(t)
    BY <1>1, <2>5, EndScanStutters
  <2>6. CASE Close(t)
    BY <1>1, <2>6, CloseStutters
  <2>7. CASE EndWrite(t) \/ UnlockEnd(t)
    BY <1>1, <2>7, EndStutters
  <2>8. CASE ShiftRead(t) \/ ShiftWrite(t) \/ ShiftEOF(t) \/ SeekLast(t) \/ Truncate(t)
    BY <1>1, <2>8, ShiftStutters
  <2>9. CASE Overwrite(t)
    BY <1>1, <2>9, OverwriteIsUpdate
  <2>10. CASE LockTail(t)
    BY <1>1, <2>10, LockTailIsDelete
  <2>11. CASE AppendRecord(t)
    BY <1>1, <2>11, AppendIsCreate
  <2>12. CASE SeekSize(t)
    BY <1>1, <2>12, SeekSizeIsCount
  <2>13. ~OverwriteFails(t) /\ ~ShiftWriteFails(t) /\ ~AppendFails(t) /\ ~OpenFails(t)
    BY <1>1 DEF OverwriteFails, ShiftWriteFails, AppendFails, OpenFails
  <2> QED
    BY <1>2, <2>1, <2>2, <2>3, <2>4, <2>5, <2>6, <2>7, <2>8, <2>9, <2>10, <2>11, <2>12,
       <2>13 DEF Step
<1>3. ASSUME NEW t \in Threads, NEW o \in Ops, Invoke(t, o) PROVE Store!SNext
  BY <1>1, <1>3, CallIsInvoke
<1>4. ASSUME UNCHANGED <<file, pc, local>> PROVE UNCHANGED Store!svars
  <2>1. tableBar' = tableBar
    <3>1. \A u \in Threads : /\ Shifting(u)' <=> Shifting(u)
                             /\ OpenFile(u)' = OpenFile(u) /\ SpareSlot(u)' = SpareSlot(u)
      BY <1>4 DEF Shifting, OpenFile, SpareSlot, local
    <3> QED
      BY <1>4, <3>1, SameTable
  <2>2. \A u \in Threads : /\ Phase(u)' = Phase(u) /\ Reply(u)' = Reply(u)
                           /\ Request(op'[u]) = Request(op[u])
    BY <1>4, SameView DEF local
  <2> QED
    BY <2>1, <2>2 DEF Store!svars, reqBar, phaseBar, answerBar
<1> QED
  BY <1>1, <1>2, <1>3, <1>4, NextSteps

LEMMA InitImplements == Init => Store!SInit
<1> SUFFICES ASSUME Init PROVE Store!SInit
  OBVIOUS
<1>1. /\ file \in InitFiles /\ pc = [t \in Threads |-> "idle"]
      /\ op = [t \in Threads |-> NoOp]
  BY DEF Init
<1>2. \A t \in Threads : ~Shifting(t) /\ ~Effective(t)
  BY <1>1 DEF Shifting, Effective, ScanOver
<1>3. tableBar = file
  <2>1. \A f \in Files : SpareSlots(f) = {}
    BY <1>2 DEF SpareSlots
  <2>2. tableBar = [f \in Files |-> file[f]]
    BY <2>1 DEF tableBar
  <2>3. file = [f \in Files |-> file[f]]
    BY <1>1, InitFilesAssumption
  <2> QED
    BY <2>2, <2>3
<1>4. reqBar = [t \in Threads |-> Store!NoCall]
  <2>1. Request(NoOp) = NoOp
    BY DEF Request, NoOp, Creates
  <2> QED
    BY <1>1, <2>1, StoreOps DEF reqBar
<1>5. phaseBar = [t \in Threads |-> "idle"] /\ answerBar = [t \in Threads |-> Store!NoAnswer]
  BY <1>1, <1>2 DEF phaseBar, answerBar, Phase, Reply, Store!NoAnswer
<1> QED
  BY <1>1, <1>3, <1>4, <1>5 DEF Store!SInit

\* Every call of lib/database.h behaves as if it were executed in one step between its
\* start and its end: what it answers and what it leaves in the files are those of one
\* operation of the store, as long as no system call fails, nobody asks for a list with
\* an array of length 0, and the calls that are not atomic in company keep apart (which
\* a thread that is alone always does).
THEOREM CallsAreAtomic ==
  SingleProcess /\ NoFaults /\ ArraysHaveRoom /\ ApartSpec => ImplementsAtomicStore
<1>1. SingleProcess /\ Init => AtomicInv
  BY InitAtomic
<1>2. NoFaults /\ ArraysHaveRoom /\ AtomicInv /\ [Next /\ KeptApart']_vars => AtomicInv'
  BY NextAtomic
<1>3. (NoFaults => NoFaults') /\ (ArraysHaveRoom => ArraysHaveRoom')
  BY DEF NoFaults, ArraysHaveRoom
<1>4. Init => Store!SInit
  BY InitImplements
<1>5. NoFaults /\ AtomicInv /\ AtomicInv' /\ [Next /\ KeptApart']_vars =>
        [Store!SNext]_(Store!svars)
  BY NextImplements
<1> HIDE DEF NoFaults, ArraysHaveRoom, AtomicInv, SingleProcess
<1> QED
  BY <1>1, <1>2, <1>3, <1>4, <1>5, PTL DEF ApartSpec, ImplementsAtomicStore, Store!SSpec
=============================================================================
