----------------------- MODULE Database_growing_proofs -----------------------
(***************************************************************************)
(* What holds of lib/database.c as long as nobody deletes: records stay    *)
(* where they are, so what a scan has found is still there when it is      *)
(* written, and a scan passes by nothing.  The journal, of which nothing   *)
(* is ever deleted, can be read while it grows.  When all threads run in   *)
(* one process, what a create reports is what it did to the file.          *)
(***************************************************************************)
EXTENDS Database_proofs, WellFoundedInduction

NoDeletes == \A o \in Ops : o.fn \notin Deletes

\* The record an update has found is at the position it will write to.
Found(t) ==
  op[t].fn \in Updates /\ pc[t] \in {"unlock", "wlock", "write"} /\ iter[t] # NoRec =>
    /\ cur[t] \in 1 .. Len(Contents(t))
    /\ SameIdentity(OpenFile(t), iter[t], Contents(t)[cur[t]])

\* What a scan has read so far it was not looking for.
Passed(t) ==
  pc[t] = "scan" =>
    /\ cur[t] <= Len(Contents(t))
    /\ op[t].fn \notin Bulk =>
         \A i \in 1 .. cur[t] : ~Matches(op[t], stage[t], Contents(t)[i])

Sees(t)    == FoundIsKept(t) /\ Found(t) /\ Passed(t)
Growing(t) == op[t].fn \notin Deletes /\ Sees(t)

GrowInv == TypeInv /\ \A t \in Threads : Growing(t)

\* Every record keeps its place and its identity.
Stays ==
  \A f \in Files : \A i \in 1 .. Len(file[f]) :
    /\ i \in 1 .. Len(file'[f])
    /\ SameIdentity(f, file'[f][i], file[f][i])

\* A record that only changes in what nobody looks it up by.
LEMMA MatchesKept ==
  ASSUME NEW o, o.fn \in Fns \ Deletes, NEW s, NEW a, NEW b,
         SameIdentity(FileAt(o.fn, s), b, a)
  PROVE  Matches(o, s, b) <=> Matches(o, s, a)
<1>1. CASE o.fn = "get_user_from_uname" \/ (o.fn = "create_user" /\ s = 1)
  <2>1. FileAt(o.fn, s) = "user"
    BY <1>1 DEF FileAt, TableOf, UserFns
  <2> QED
    BY <1>1, <2>1 DEF SameIdentity, Matches
<1>2. CASE ~(o.fn = "get_user_from_uname" \/ (o.fn = "create_user" /\ s = 1))
  BY <1>2 DEF SameIdentity, Matches, Deletes
<1> QED
  BY <1>1, <1>2

\* The files of a state with types.
LEMMA FileSeq ==
  ASSUME TypeInv
  PROVE  /\ \A f \in Files : file[f] \in Seq(RecOf(f)) /\ Len(file[f]) \in Nat
                             /\ DOMAIN file[f] = 1 .. Len(file[f])
         /\ \A t \in Threads : Contents(t) \in Seq(RecOf(OpenFile(t)))
                               /\ Len(Contents(t)) \in Nat
BY Located DEF TypeInv, TypeOK, FilesOK, Contents

\* Writing what has the identity of the record at that place, and appending.
LEMMA WriteAtStays ==
  ASSUME NEW f \in Files, NEW s \in Seq(RecOf(f)), NEW p \in Int, 0 <= p, p < Len(s),
         NEW r \in RecOf(f)
  PROVE  /\ Len(WriteAt(s, p, r, ZeroRec(f))) = Len(s)
         /\ \A i \in 1 .. Len(s) :
              WriteAt(s, p, r, ZeroRec(f))[i] = IF i = p + 1 THEN r ELSE s[i]
<1>1. WriteAt(s, p, r, ZeroRec(f)) = [i \in 1 .. Len(s) |-> IF i = p + 1 THEN r ELSE s[i]]
  BY DEF WriteAt
<1>2. WriteAt(s, p, r, ZeroRec(f)) \in Seq(RecOf(f))
  BY <1>1
<1> QED
  BY <1>1, <1>2

LEMMA OverwriteStays ==
  ASSUME TypeInv, NEW t \in Threads, Sees(t), Overwrite(t)
  PROVE  Stays /\ \A f \in Files : Len(file'[f]) = Len(file[f])
<1> DEFINE f == OpenFile(t)
<1>1. /\ TypeInv /\ ThreadsOK /\ FilesOK /\ CallOK(t) /\ Control(t) /\ f \in Files
      /\ FoundIsKept(t) /\ Found(t)
  BY Located DEF Sees, TypeInv, TypeOK
<1>2. pc[t] = "write" /\ op[t].fn \in Updates /\ iter[t] # NoRec
  BY <1>1 DEF Overwrite, Goto, Control
<1>3. f = TableOf(op[t].fn) /\ (f = "user" => op[t].fn = "update_user")
  BY <1>2 DEF OpenFile, FileAt, Updates, TableOf, UserFns, TransFns
<1>4. op[t].rec \in RecOf(f) /\ Contents(t) \in Seq(RecOf(f)) /\ Contents(t) = file[f]
  BY <1>1, <1>3, FileSeq DEF CallOK, OpOk, Contents
<1>5. cur[t] \in 1 .. Len(file[f]) /\ SameIdentity(f, op[t].rec, file[f][cur[t]])
  BY <1>1, <1>2, <1>3, <1>4 DEF Found, FoundIsKept, SameIdentity
<1>6. file' = [file EXCEPT ![f] = WriteAt(file[f], cur[t] - 1, op[t].rec, ZeroRec(f))]
  BY <1>4 DEF Overwrite, SetFile, Position
<1>7. /\ \A g \in Files \ {f} : file'[g] = file[g]
      /\ file'[f] = WriteAt(file[f], cur[t] - 1, op[t].rec, ZeroRec(f))
  BY <1>1, <1>6 DEF FilesOK
<1> HIDE DEF f
<1>8. /\ Len(file'[f]) = Len(file[f])
      /\ \A i \in 1 .. Len(file[f]) :
           file'[f][i] = IF i = cur[t] THEN op[t].rec ELSE file[f][i]
  <2> DEFINE w == WriteAt(file[f], cur[t] - 1, op[t].rec, ZeroRec(f))
  <2>1. ZeroRec(f) \in RecOf(f) /\ file[f] \in Seq(RecOf(f))
    BY <1>1, <1>4, ZeroRecType
  <2>2. /\ Len(w) = Len(file[f])
        /\ \A i \in 1 .. Len(file[f]) : w[i] = IF i = cur[t] THEN op[t].rec ELSE file[f][i]
    <3>1. /\ op[t].rec \in RecOf(f) /\ cur[t] - 1 \in Int
          /\ 0 <= cur[t] - 1 /\ cur[t] - 1 < Len(file[f]) /\ (cur[t] - 1) + 1 = cur[t]
      BY <1>4, <1>5, <2>1
    <3> QED
      BY <1>1, <2>1, <3>1, WriteAtStays
  <2>3. file'[f] = w
    BY <1>7
  <2> HIDE DEF w
  <2> QED
    BY <2>2, <2>3
<1> QED
  BY <1>5, <1>7, <1>8 DEF Stays, SameIdentity

LEMMA AppendStays ==
  ASSUME TypeInv, NEW t \in Threads, AppendRecord(t) PROVE Stays
<1> DEFINE f == OpenFile(t)
<1>1. f \in Files /\ file[f] \in Seq(RecOf(f)) /\ FilesOK
  BY Located, FileSeq DEF TypeInv, TypeOK
<1>2. /\ \A g \in Files \ {f} : file'[g] = file[g]
      /\ file'[f] = Append(file[f], op[t].rec)
  BY <1>1 DEF AppendRecord, Appended, SetFile, FilesOK, Contents
<1> HIDE DEF f
<1>3. Len(file'[f]) = Len(file[f]) + 1 /\ Len(file[f]) \in Nat
      /\ \A i \in 1 .. Len(file[f]) : file'[f][i] = file[f][i]
  BY <1>1, <1>2
<1> QED
  BY <1>2, <1>3 DEF Stays, SameIdentity

\* The steps that do not write.
LEMMA SameFileStays ==
  ASSUME TypeInv, UNCHANGED file PROVE Stays
BY FileSeq DEF Stays, SameIdentity

\* Of the steps of a call only these write a file.
LEMMA OnlyWrites ==
  ASSUME NEW t \in Threads, Step(t),
         ~Overwrite(t), ~ShiftWrite(t), ~Truncate(t), ~AppendRecord(t)
  PROVE  UNCHANGED file
BY DEF Step, BeginScan, ReadHit, ReadMiss, ReadInto, ReadEOF, EndScan, LockRecord,
       OverwriteFails, LockTail, ShiftRead, ShiftWriteFails, ShiftEOF,
       SeekLast, EndWrite, NewId, OpenForAppend, LockEnd, AppendFails, UnlockEnd,
       SeekSize, Close, OpenFails, disk, local

LEMMA StepStays ==
  ASSUME TypeInv, NEW t \in Threads, Growing(t), Step(t) PROVE Stays
<1>1. Control(t) /\ op[t].fn \notin Deletes /\ Sees(t)
  BY DEF Growing, TypeInv
<1>2. ~ShiftWrite(t) /\ ~Truncate(t)
  BY <1>1 DEF ShiftWrite, Truncate, Goto, Control, Shifting
<1> QED
  BY <1>1, <1>2, OverwriteStays, AppendStays, OnlyWrites, SameFileStays

LEMMA NextStays == GrowInv /\ [Next]_vars => Stays
<1> SUFFICES ASSUME GrowInv, [Next]_vars PROVE Stays
  OBVIOUS
<1>1. CASE \E t \in Threads : Step(t)
  BY <1>1, StepStays DEF GrowInv
<1>2. CASE ~\E t \in Threads : Step(t)
  <2>1. UNCHANGED file
    BY <1>2 DEF Next, Call, Invoke, InitCounter, Crash, Finished, vars, disk
  <2> QED
    BY <2>1, SameFileStays DEF GrowInv
<1> QED
  BY <1>1, <1>2

\* A thread that stands still: what it knows of the file remains true of it.
LEMMA StandsStill ==
  ASSUME TypeInv, Stays, TypeInv', NEW u \in Threads, Growing(u),
         pc'[u] = pc[u], op'[u] = op[u], stage'[u] = stage[u],
         cur'[u] = cur[u], iter'[u] = iter[u]
  PROVE  Growing(u)'
<1>1. /\ OpenFile(u)' = OpenFile(u) /\ OpenFile(u) \in Files
      /\ op[u].fn \in Fns \ Deletes /\ cur[u] \in Int
      /\ Len(Contents(u)) \in Nat /\ Len(Contents(u)') \in Nat
  <2>1. OpenFile(u)' = OpenFile(u) /\ OpenFile(u) \in Files
    BY Located DEF OpenFile
  <2>2. op[u].fn \in Fns \ Deletes /\ cur[u] \in Int
    BY DEF Growing, Sees, TypeInv, TypeOK, CallOK, OpOk, ThreadsOK
  <2>3. file[OpenFile(u)] \in Seq(RecOf(OpenFile(u)))
        /\ file'[OpenFile(u)] \in Seq(RecOf(OpenFile(u)))
    BY <2>1 DEF TypeInv, TypeOK, FilesOK
  <2> QED
    BY <2>1, <2>2, <2>3 DEF Contents
<1>2. \A i \in 1 .. Len(Contents(u)) :
         /\ i \in 1 .. Len(Contents(u)')
         /\ SameIdentity(OpenFile(u), Contents(u)'[i], Contents(u)[i])
  BY <1>1 DEF Stays, Contents
<1>3. Found(u)'
  BY <1>1, <1>2 DEF Growing, Sees, Found, SameIdentity
<1>4. Passed(u)'
  <2> SUFFICES ASSUME pc[u] = "scan" PROVE Passed(u)'
    BY DEF Passed
  <2>1. /\ cur[u] <= Len(Contents(u))
        /\ op[u].fn \notin Bulk =>
              \A i \in 1 .. cur[u] : ~Matches(op[u], stage[u], Contents(u)[i])
    BY DEF Growing, Sees, Passed
  <2>2. Len(Contents(u)) <= Len(Contents(u)')
    BY <1>1, <1>2
  <2>3. \A i \in 1 .. cur[u] :
           Matches(op[u], stage[u], Contents(u)'[i])
             <=> Matches(op[u], stage[u], Contents(u)[i])
    <3> TAKE i \in 1 .. cur[u]
    <3>1. SameIdentity(FileAt(op[u].fn, stage[u]), Contents(u)'[i], Contents(u)[i])
      BY <1>1, <1>2, <2>1 DEF OpenFile
    <3> QED
      BY <1>1, <3>1, MatchesKept
  <2>4. cur[u] <= Len(Contents(u)')
    BY <1>1, <2>1, <2>2
  <2> QED
    BY <2>1, <2>3, <2>4 DEF Passed
<1> QED
  BY <1>3, <1>4 DEF Growing, Sees, FoundIsKept

\* The steps of a scan and of an update up to its write().
Scanning(t) ==
  \/ BeginScan(t) \/ ReadHit(t) \/ ReadMiss(t) \/ ReadInto(t) \/ ReadEOF(t)
  \/ EndScan(t) \/ LockRecord(t)

LEMMA ScanSameFile ==
  ASSUME TypeInv, NEW t \in Threads, Scanning(t)
  PROVE  /\ UNCHANGED file /\ op'[t].fn = op[t].fn /\ stage'[t] = stage[t]
         /\ OpenFile(t)' = OpenFile(t) /\ Contents(t)' = Contents(t)
         /\ ~LockRecord(t) => op'[t] = op[t]
<1>1. ThreadsOK
  BY DEF TypeInv, TypeOK
<1>2. UNCHANGED file /\ stage' = stage /\ (~LockRecord(t) => op' = op)
  BY DEF Scanning, BeginScan, ReadHit, ReadMiss, ReadInto, ReadEOF, EndScan,
         LockRecord, disk, local
<1>3. op'[t].fn = op[t].fn
  BY <1>1, <1>2 DEF LockRecord, WithRec, ThreadsOK
<1> QED
  BY <1>2, <1>3 DEF OpenFile, Contents

LEMMA BeginScanGrows ==
  ASSUME TypeInv, NEW t \in Threads, Sees(t), BeginScan(t) PROVE Sees(t)'
<1>1. ThreadsOK /\ Scanning(t)
  BY DEF TypeInv, TypeOK, Scanning
<1>2. pc'[t] = "scan" /\ cur'[t] = 0
  BY <1>1, ScanSameFile DEF Sees, BeginScan, Goto, ThreadsOK
<1>3. Len(Contents(t)') \in Nat
  BY <1>1, ScanSameFile, FileSeq
<1>4. Passed(t)'
  BY <1>2, <1>3 DEF Passed
<1> QED
  BY <1>2, <1>4 DEF Sees, FoundIsKept, Found

LEMMA ReadMissGrows ==
  ASSUME TypeInv, NEW t \in Threads, Sees(t), ReadMiss(t) PROVE Sees(t)'
<1>1. ThreadsOK /\ Scanning(t)
  BY DEF TypeInv, TypeOK, Scanning
<1>2. /\ op'[t] = op[t] /\ stage'[t] = stage[t] /\ pc[t] = "scan" /\ pc'[t] = "scan"
      /\ cur'[t] = cur[t] + 1 /\ cur[t] \in Int /\ cur[t] < Len(Contents(t))
      /\ Contents(t)' = Contents(t) /\ cur[t] >= 0
      /\ ~Matches(op[t], stage[t], Contents(t)[cur[t] + 1])
      /\ Len(Contents(t)) \in Nat
  BY <1>1, ScanSameFile, FileSeq
     DEF ReadMiss, ThreadsOK, LockRecord, Goto, TypeInv, Control
<1>3. Passed(t)'
  <2>1. \A i \in 1 .. cur[t] + 1 : i \in 1 .. cur[t] \/ i = cur[t] + 1
    BY <1>2
  <2> QED
    BY <1>1, <1>2, <2>1 DEF Sees, Passed
<1> QED
  BY <1>1, <1>2, <1>3 DEF Sees, FoundIsKept, Found

LEMMA ReadIntoGrows ==
  ASSUME TypeInv, NEW t \in Threads, Sees(t), ReadInto(t) PROVE Sees(t)'
<1>1. ThreadsOK /\ Scanning(t)
  BY DEF TypeInv, TypeOK, Scanning
<1>2. /\ op'[t] = op[t] /\ pc'[t] \in {"scan", "unlock"} /\ op[t].fn \in Bulk
      /\ cur'[t] = cur[t] + 1 /\ cur[t] \in Int /\ cur[t] < Len(Contents(t))
      /\ Contents(t)' = Contents(t) /\ Len(Contents(t)) \in Nat
  BY <1>1, ScanSameFile, FileSeq DEF ReadInto, ThreadsOK, LockRecord, Goto
<1>3. op[t].fn \notin Updates
  BY <1>2 DEF Bulk, Updates
<1> QED
  BY <1>1, <1>2, <1>3 DEF Sees, FoundIsKept, Found, Passed, Updates

LEMMA ReadHitGrows ==
  ASSUME TypeInv, NEW t \in Threads, Sees(t), ReadHit(t) PROVE Sees(t)'
<1>1. ThreadsOK /\ Scanning(t)
  BY DEF TypeInv, TypeOK, Scanning
<1>2. /\ op'[t] = op[t] /\ pc'[t] = "unlock"
      /\ cur'[t] = cur[t] + 1 /\ cur[t] \in Int /\ cur[t] < Len(Contents(t))
      /\ Contents(t)' = Contents(t) /\ Len(Contents(t)) \in Nat /\ cur[t] >= 0
      /\ iter'[t] = Contents(t)[cur[t] + 1]
      /\ Matches(op[t], stage[t], Contents(t)[cur[t] + 1])
      /\ OpenFile(t)' = OpenFile(t)
  BY <1>1, ScanSameFile, FileSeq
     DEF ReadHit, ThreadsOK, LockRecord, Goto, TypeInv, Control
<1>3. FoundIsKept(t)'
  BY <1>2 DEF FoundIsKept, Matches, Updates
<1>4. Found(t)'
  BY <1>2 DEF Found, SameIdentity
<1> QED
  BY <1>1, <1>2, <1>3, <1>4 DEF Sees, Passed

LEMMA ReadEOFGrows ==
  ASSUME TypeInv, NEW t \in Threads, Sees(t), ReadEOF(t) PROVE Sees(t)'
<1>1. ThreadsOK /\ Scanning(t)
  BY DEF TypeInv, TypeOK, Scanning
<1>2. op'[t] = op[t] /\ pc'[t] = "unlock" /\ iter'[t] = NoRec
  BY <1>1, ScanSameFile DEF ReadEOF, ThreadsOK, LockRecord, Goto, TypeInv, Control, local
<1> QED
  BY <1>1, <1>2 DEF Sees, FoundIsKept, Found, Passed

LEMMA EndScanGrows ==
  ASSUME TypeInv, NEW t \in Threads, Sees(t), EndScan(t) PROVE Sees(t)'
<1>1. ThreadsOK /\ Scanning(t)
  BY DEF TypeInv, TypeOK, Scanning
<1>2. /\ op'[t] = op[t] /\ pc[t] = "unlock" /\ pc'[t] \in {"wlock", "close"}
      /\ iter'[t] = iter[t] /\ cur'[t] = cur[t]
      /\ Contents(t)' = Contents(t) /\ OpenFile(t)' = OpenFile(t)
  BY <1>1, ScanSameFile DEF EndScan, ThreadsOK, LockRecord, Goto
<1> QED
  BY <1>1, <1>2 DEF Sees, FoundIsKept, Found, Passed

LEMMA LockRecordGrows ==
  ASSUME TypeInv, NEW t \in Threads, Sees(t), LockRecord(t) PROVE Sees(t)'
<1>1. ThreadsOK /\ Scanning(t)
  BY DEF TypeInv, TypeOK, Scanning
<1>2. /\ op'[t].fn = op[t].fn /\ pc[t] = "wlock" /\ pc'[t] = "write"
      /\ iter'[t] = iter[t] /\ cur'[t] = cur[t]
      /\ Contents(t)' = Contents(t) /\ OpenFile(t)' = OpenFile(t)
  BY <1>1, ScanSameFile DEF LockRecord, ThreadsOK, Goto
<1>3. op'[t] = IF op[t].fn = "update_user"
               THEN WithRec(op[t], KeepNames(op[t].rec, iter[t])) ELSE op[t]
  BY <1>1 DEF LockRecord, ThreadsOK
<1>4. FoundIsKept(t)'
  BY <1>1, <1>2, <1>3 DEF Sees, FoundIsKept, WithRec, KeepNames
<1>5. Found(t)' /\ Passed(t)'
  BY <1>1, <1>2 DEF Sees, Found, Passed
<1> QED
  BY <1>1, <1>2, <1>4, <1>5 DEF Sees

\* Everything else a call does comes after its scan and its write().
LEMMA LaterSteps ==
  ASSUME TypeInv, NEW t \in Threads, Step(t), ~Scanning(t)
  PROVE  /\ pc'[t] \notin {"scan", "unlock", "wlock", "write"}
         /\ op'[t].fn = op[t].fn
<1>1. ThreadsOK
  BY DEF TypeInv, TypeOK
<1>2. pc'[t] \notin {"scan", "unlock", "wlock", "write"}
  BY <1>1
     DEF ThreadsOK, Goto, Step, Scanning, Overwrite, OverwriteFails, LockTail,
         ShiftRead, ShiftWrite, ShiftWriteFails, ShiftEOF, SeekLast, Truncate,
         EndWrite, NewId, OpenForAppend, LockEnd, AppendRecord, AppendFails,
         UnlockEnd, SeekSize, Close, OpenFails, StageCall
<1>3. op'[t].fn = op[t].fn
  <2>1. CASE NewId(t)
    BY <1>1, <2>1 DEF NewId, WithRec, ThreadsOK
  <2>2. CASE ~NewId(t)
    BY <2>2
       DEF Step, Scanning, Overwrite, OverwriteFails, LockTail, local,
           ShiftRead, ShiftWrite, ShiftWriteFails, ShiftEOF, SeekLast, Truncate,
           EndWrite, OpenForAppend, LockEnd, AppendRecord, AppendFails,
           UnlockEnd, SeekSize, Close, OpenFails
  <2> QED
    BY <2>1, <2>2
<1> QED
  BY <1>2, <1>3

\* A step of one thread leaves the others where they are.
LEMMA OthersStandStill ==
  ASSUME TypeInv, NEW t \in Threads, Step(t), NEW u \in Threads \ {t}
  PROVE  /\ pc'[u] = pc[u] /\ op'[u] = op[u] /\ stage'[u] = stage[u]
         /\ cur'[u] = cur[u] /\ iter'[u] = iter[u] /\ ret'[u] = ret[u]
<1>1. ThreadsOK
  BY DEF TypeInv, TypeOK
<1> USE <1>1 DEF ThreadsOK, local, Goto, ReportFailure
<1>2. pc'[u] = pc[u]
  BY DEF Step, BeginScan, ReadHit, ReadMiss, ReadInto, ReadEOF, EndScan,
         LockRecord, Overwrite, OverwriteFails, LockTail, ShiftRead, ShiftWrite,
         ShiftWriteFails, ShiftEOF, SeekLast, Truncate, EndWrite, NewId,
         OpenForAppend, LockEnd, AppendRecord, AppendFails, UnlockEnd, SeekSize,
         Close, OpenFails
<1>3. op'[u] = op[u]
  BY DEF Step, BeginScan, ReadHit, ReadMiss, ReadInto, ReadEOF, EndScan,
         LockRecord, Overwrite, OverwriteFails, LockTail, ShiftRead, ShiftWrite,
         ShiftWriteFails, ShiftEOF, SeekLast, Truncate, EndWrite, NewId,
         OpenForAppend, LockEnd, AppendRecord, AppendFails, UnlockEnd, SeekSize,
         Close, OpenFails
<1>4. stage'[u] = stage[u]
  BY DEF Step, BeginScan, ReadHit, ReadMiss, ReadInto, ReadEOF, EndScan,
         LockRecord, Overwrite, OverwriteFails, LockTail, ShiftRead, ShiftWrite,
         ShiftWriteFails, ShiftEOF, SeekLast, Truncate, EndWrite, NewId,
         OpenForAppend, LockEnd, AppendRecord, AppendFails, UnlockEnd, SeekSize,
         Close, OpenFails
<1>5. cur'[u] = cur[u]
  BY DEF Step, BeginScan, ReadHit, ReadMiss, ReadInto, ReadEOF, EndScan,
         LockRecord, Overwrite, OverwriteFails, LockTail, ShiftRead, ShiftWrite,
         ShiftWriteFails, ShiftEOF, SeekLast, Truncate, EndWrite, NewId,
         OpenForAppend, LockEnd, AppendRecord, AppendFails, UnlockEnd, SeekSize,
         Close, OpenFails
<1>6. iter'[u] = iter[u]
  BY DEF Step, BeginScan, ReadHit, ReadMiss, ReadInto, ReadEOF, EndScan,
         LockRecord, Overwrite, OverwriteFails, LockTail, ShiftRead, ShiftWrite,
         ShiftWriteFails, ShiftEOF, SeekLast, Truncate, EndWrite, NewId,
         OpenForAppend, LockEnd, AppendRecord, AppendFails, UnlockEnd, SeekSize,
         Close, OpenFails
<1>7. ret'[u] = ret[u]
  BY DEF Step, BeginScan, ReadHit, ReadMiss, ReadInto, ReadEOF, EndScan,
         LockRecord, Overwrite, OverwriteFails, LockTail, ShiftRead, ShiftWrite,
         ShiftWriteFails, ShiftEOF, SeekLast, Truncate, EndWrite, NewId,
         OpenForAppend, LockEnd, AppendRecord, AppendFails, UnlockEnd, SeekSize,
         Close, OpenFails
<1> QED
  BY <1>2, <1>3, <1>4, <1>5, <1>6, <1>7

LEMMA StepSees ==
  ASSUME TypeInv, NEW t \in Threads, Sees(t), Step(t) PROVE Sees(t)'
<1>1. CASE Scanning(t)
  BY <1>1, BeginScanGrows, ReadHitGrows, ReadMissGrows, ReadIntoGrows, ReadEOFGrows,
     EndScanGrows, LockRecordGrows DEF Scanning
<1>2. CASE ~Scanning(t)
  BY <1>2, LaterSteps DEF Sees, FoundIsKept, Found, Passed
<1> QED
  BY <1>1, <1>2

LEMMA StepGrows ==
  ASSUME GrowInv, NEW t \in Threads, Step(t), TypeInv' PROVE GrowInv'
<1>1. TypeInv /\ Stays /\ \A u \in Threads : Growing(u)
  BY StepStays DEF GrowInv
<1>2. Growing(t)'
  <2>1. Sees(t)'
    BY <1>1, StepSees DEF Growing
  <2>2. op'[t].fn = op[t].fn
    BY <1>1, ScanSameFile, LaterSteps
  <2> QED
    BY <1>1, <2>1, <2>2 DEF Growing
<1>3. \A u \in Threads \ {t} : Growing(u)'
  <2> TAKE u \in Threads \ {t}
  <2>1. /\ pc'[u] = pc[u] /\ op'[u] = op[u] /\ stage'[u] = stage[u]
        /\ cur'[u] = cur[u] /\ iter'[u] = iter[u]
    BY <1>1, OthersStandStill
  <2> QED
    BY <1>1, <2>1, StandsStill
<1> QED
  BY <1>1, <1>2, <1>3 DEF GrowInv

LEMMA InvokeGrows ==
  ASSUME GrowInv, NEW t \in Threads, NEW o, o.fn \notin Deletes, Invoke(t, o), TypeInv'
  PROVE  GrowInv'
<1>1. /\ TypeInv /\ ThreadsOK /\ DOMAIN iter = Threads /\ DOMAIN op = Threads
      /\ \A u \in Threads : Growing(u)
  BY DEF GrowInv, TypeInv, TypeOK, ThreadsOK
<1>3. /\ op'[t] = o /\ o.fn \notin Deletes
      /\ pc'[t] \notin {"scan", "unlock", "wlock", "write"}
  BY <1>1 DEF Invoke, Begin, ThreadsOK, FirstCall
<1>4. Growing(t)'
  BY <1>3 DEF Growing, Sees, FoundIsKept, Found, Passed
<1>5. Stays
  BY <1>1, SameFileStays DEF Invoke, disk
<1>6. \A u \in Threads \ {t} : Growing(u)'
  <2> TAKE u \in Threads \ {t}
  <2>1. /\ pc'[u] = pc[u] /\ op'[u] = op[u] /\ stage'[u] = stage[u]
        /\ cur'[u] = cur[u] /\ iter'[u] = iter[u]
    BY <1>1 DEF Invoke, Begin, ThreadsOK
  <2> QED
    BY <1>1, <1>5, <2>1, StandsStill
<1> QED
  BY <1>4, <1>6 DEF GrowInv

LEMMA CallGrows ==
  ASSUME NoDeletes, GrowInv, NEW t \in Threads, Call(t), TypeInv' PROVE GrowInv'
<1>1. PICK o \in Ops : Invoke(t, o)
  BY DEF Call
<1> QED
  BY <1>1, InvokeGrows DEF NoDeletes

LEMMA CrashGrows ==
  ASSUME GrowInv, NEW p \in Procs, Crash(p), TypeInv' PROVE GrowInv'
<1>1. TypeInv /\ Stays /\ \A u \in Threads : Growing(u)
  BY SameFileStays DEF GrowInv, Crash
<1>2. \A u \in Threads : Growing(u)'
  <2> TAKE u \in Threads
  <2>1. CASE Proc(u) = p
    <3>1. op'[u] = NoOp /\ pc'[u] = "idle"
      BY <2>1 DEF Crash
    <3> QED
      BY <3>1 DEF Growing, Sees, FoundIsKept, Found, Passed, NoOp, Deletes, Updates
  <2>2. CASE Proc(u) # p
    <3>1. /\ pc'[u] = pc[u] /\ op'[u] = op[u] /\ stage'[u] = stage[u]
          /\ cur'[u] = cur[u] /\ iter'[u] = iter[u]
      BY <2>2 DEF Crash
    <3> QED
      BY <1>1, <3>1, StandsStill
  <2> QED
    BY <2>1, <2>2
<1> QED
  BY <1>2 DEF GrowInv

LEMMA InitGrows == Init => GrowInv
<1> SUFFICES ASSUME Init PROVE GrowInv
  OBVIOUS
<1>1. \A t \in Threads : Growing(t)
  BY DEF Init, Growing, Sees, FoundIsKept, Found, Passed, NoOp, Deletes
<1> QED
  BY <1>1, InitType DEF GrowInv

LEMMA NextGrows == NoDeletes /\ GrowInv /\ [Next]_vars => NoDeletes' /\ GrowInv'
<1> SUFFICES ASSUME NoDeletes, GrowInv, [Next]_vars PROVE GrowInv'
  BY DEF NoDeletes
<1>1. TypeInv'
  BY NextType DEF GrowInv
<1>2. ASSUME UNCHANGED <<file, pc, local>> PROVE GrowInv'
  <2>1. Stays
    BY <1>2, SameFileStays DEF GrowInv
  <2>2. \A u \in Threads : Growing(u)'
    BY <1>1, <1>2, <2>1, StandsStill DEF local, GrowInv
  <2> QED
    BY <1>1, <2>2 DEF GrowInv
<1>3. ASSUME NEW p \in Procs, InitCounter(p) PROVE GrowInv'
  BY <1>2, <1>3 DEF InitCounter
<1>4. ASSUME UNCHANGED vars PROVE GrowInv'
  BY <1>2, <1>4 DEF vars, disk
<1> QED
  BY <1>1, <1>3, <1>4, StepGrows, CallGrows, CrashGrows DEF Next, Finished

\* As long as nobody deletes, no step moves a record or changes whose it is:
\* the position an update has found keeps the record it was found for.
THEOREM RecordsKeepTheirPlace == NoDeletes /\ Spec => RecordsStay
<1>1. GrowInv /\ [Next]_vars =>
        [\A f \in Files : \A i \in DOMAIN file[f] :
           /\ i \in DOMAIN file'[f]
           /\ file'[f][i].id = file[f][i].id
           /\ f = "user" => /\ file'[f][i].uname = file[f][i].uname
                            /\ file'[f][i].aid = file[f][i].aid]_vars
  <2> SUFFICES ASSUME GrowInv, [Next]_vars, NEW f \in Files, NEW i \in DOMAIN file[f]
               PROVE  /\ i \in DOMAIN file'[f]
                      /\ SameIdentity(f, file'[f][i], file[f][i])
    BY DEF SameIdentity
  <2>1. TypeInv /\ TypeInv' /\ Stays
    BY NextType, NextStays DEF GrowInv
  <2>2. DOMAIN file[f] = 1 .. Len(file[f]) /\ DOMAIN file'[f] = 1 .. Len(file'[f])
    BY <2>1 DEF TypeInv, TypeOK, FilesOK
  <2> QED
    BY <2>1, <2>2 DEF Stays
<1> QED
  BY InitGrows, NextGrows, <1>1, PTL DEF Spec, RecordsStay

\* As long as nobody deletes, none of the records a lookup has read so far has
\* become the one it is looking for, whatever others append and overwrite.
THEOREM ScansPassByNothing == NoDeletes /\ Spec => []ScanMissesNothing
<1>1. GrowInv => ScanMissesNothing
  BY DEF GrowInv, Growing, Sees, Passed, ScanMissesNothing
<1> QED
  BY InitGrows, NextGrows, <1>1, PTL DEF Spec

(***************************************************************************)
(* Reading the journal while it grows.                                     *)
(***************************************************************************)

\* A set of numbers has a least one.
LEMMA BelowIsWellFounded == IsWellFoundedOn({ss \in Nat \X Nat : ss[1] < ss[2]}, Nat)
BY NatLessThanWellFounded, Zenon DEF OpToRel

LEMMA Least ==
  ASSUME NEW T, T \subseteq Nat, T # {} PROVE \E x \in T : \A y \in T : x <= y
<1> DEFINE R == {ss \in Nat \X Nat : ss[1] < ss[2]}
<1>1. IsWellFoundedOn(R, Nat)
  BY BelowIsWellFounded
<1>2. \A x, y \in Nat : <<y, x>> \in R <=> y < x
  OBVIOUS
<1> HIDE DEF R
<1>3. \E x \in T : \A y \in T : ~(<<y, x>> \in R)
  BY <1>1, WFMin, Zenon
<1>4. PICK x \in T : \A y \in T : ~(<<y, x>> \in R)
  BY <1>3
<1>5. x \in Nat /\ \A y \in T : y \in Nat /\ ~(y < x)
  BY <1>2, <1>4
<1> QED
  BY <1>5

\* What is true of 0, and of every number that follows one of which it is true.
LEMMA AllNumbers ==
  ASSUME NEW T, 0 \in T, \A n \in Nat : n \in T => n + 1 \in T
  PROVE  \A n \in Nat : n \in T
<1> SUFFICES ASSUME Nat \ T # {} PROVE FALSE
  OBVIOUS
<1>1. PICK x \in Nat \ T : \A y \in Nat \ T : x <= y
  BY Least
<1>2. x # 0 /\ x - 1 \in Nat
  BY <1>1
<1>3. x - 1 \in T
  BY <1>1, <1>2
<1> QED
  BY <1>1, <1>2, <1>3

\* The recursion is one.
LEMMA HistoryDef ==
  ASSUME NEW s, Len(s) \in Nat, NEW a
  PROVE  HistoryIn(s, a) =
           [n \in 0 .. Len(s) |->
              IF n = 0 THEN <<>>
              ELSE IF s[n].aid = a THEN Append(HistoryIn(s, a)[n - 1], s[n])
              ELSE HistoryIn(s, a)[n - 1]]
<1> DEFINE Of(h, k) == [n \in 0 .. k |->
                         IF n = 0 THEN <<>>
                         ELSE IF s[n].aid = a THEN Append(h[n - 1], s[n]) ELSE h[n - 1]]
           T == {k \in Nat : \E h : h = Of(h, k)}
<1>1. 0 \in T
  <2> DEFINE h == [n \in 0 .. 0 |-> <<>>]
  <2>1. h = Of(h, 0)
    OBVIOUS
  <2> HIDE DEF h
  <2> QED
    BY <2>1
<1>2. ASSUME NEW k \in Nat, k \in T PROVE k + 1 \in T
  <2>1. PICK g : g = Of(g, k)
    BY <1>2
  <2> DEFINE last == IF s[k + 1].aid = a THEN Append(g[k], s[k + 1]) ELSE g[k]
             h    == [n \in 0 .. k + 1 |-> IF n = k + 1 THEN last ELSE g[n]]
  <2>2. h[k + 1] = last /\ \A n \in 0 .. k : h[n] = g[n]
    OBVIOUS
  <2>3. \A n \in 0 .. k : g[n] = Of(g, k)[n]
    BY <2>1
  <2>4. \A n \in 0 .. k + 1 : h[n] = Of(h, k + 1)[n]
    <3> TAKE n \in 0 .. k + 1
    <3>1. CASE n = k + 1
      <4>1. h[n] = last /\ h[n - 1] = g[k] /\ n # 0
        BY <2>2, <3>1
      <4> HIDE DEF h
      <4> QED
        BY <3>1, <4>1
    <3>2. CASE n # k + 1
      <4>1. n \in 0 .. k /\ h[n] = g[n] /\ (n # 0 => h[n - 1] = g[n - 1])
        BY <2>2, <3>2
      <4> HIDE DEF h
      <4> QED
        BY <2>3, <4>1
    <3> QED
      BY <3>1, <3>2
  <2>5. h = [n \in 0 .. k + 1 |-> h[n]]
    OBVIOUS
  <2>6. h = Of(h, k + 1)
    <3> HIDE DEF h
    <3> QED
      BY <2>4, <2>5
  <2> HIDE DEF h
  <2> QED
    BY <2>6
<1> HIDE DEF T
<1>3. \A k \in Nat : k \in T
  BY <1>1, <1>2, AllNumbers
<1>4. \E h : h = [n \in 0 .. Len(s) |->
                    IF n = 0 THEN <<>>
                    ELSE IF s[n].aid = a THEN Append(h[n - 1], s[n]) ELSE h[n - 1]]
  BY <1>3 DEF T
<1> QED
  BY <1>4 DEF HistoryIn

\* The histories of a journal, one entry at a time.
LEMMA HistoryType ==
  ASSUME NEW R, NEW s \in Seq(R), NEW a
  PROVE  /\ HistoryIn(s, a) \in [0 .. Len(s) -> Seq(R)]
         /\ HistoryIn(s, a)[0] = <<>>
         /\ \A n \in 1 .. Len(s) :
              HistoryIn(s, a)[n] = IF s[n].aid = a
                                   THEN Append(HistoryIn(s, a)[n - 1], s[n])
                                   ELSE HistoryIn(s, a)[n - 1]
<1> DEFINE h == HistoryIn(s, a)
<1>1. Len(s) \in Nat
  OBVIOUS
<1>2. h = [n \in 0 .. Len(s) |->
             IF n = 0 THEN <<>>
             ELSE IF s[n].aid = a THEN Append(h[n - 1], s[n]) ELSE h[n - 1]]
  BY <1>1, HistoryDef
<1> HIDE DEF h
<1>3. h[0] = <<>> /\ DOMAIN h = 0 .. Len(s) /\ h = [n \in 0 .. Len(s) |-> h[n]]
  BY <1>1, <1>2
<1>4. ASSUME NEW n \in 1 .. Len(s)
      PROVE  h[n] = IF s[n].aid = a THEN Append(h[n - 1], s[n]) ELSE h[n - 1]
  <2>1. n \in 0 .. Len(s) /\ n # 0
    BY <1>1
  <2> QED
    BY <1>2, <2>1
<1> DEFINE T == {n \in Nat : n \in 0 .. Len(s) => h[n] \in Seq(R)}
<1>5. 0 \in T
  BY <1>3
<1>6. ASSUME NEW n \in Nat, n \in T PROVE n + 1 \in T
  <2> SUFFICES ASSUME n + 1 \in 0 .. Len(s) PROVE h[n + 1] \in Seq(R)
    OBVIOUS
  <2>1. h[n] \in Seq(R) /\ s[n + 1] \in R /\ n + 1 \in 1 .. Len(s) /\ (n + 1) - 1 = n
    BY <1>1, <1>6
  <2>2. h[n + 1] = IF s[n + 1].aid = a THEN Append(h[n], s[n + 1]) ELSE h[n]
    BY <1>4, <2>1
  <2> QED
    BY <2>1, <2>2
<1> HIDE DEF T
<1>7. \A n \in Nat : n \in T
  BY <1>5, <1>6, AllNumbers
<1>8. h \in [0 .. Len(s) -> Seq(R)]
  <2>1. \A n \in 0 .. Len(s) : n \in Nat /\ h[n] \in Seq(R)
    BY <1>7 DEF T
  <2> QED
    BY <1>3, <2>1
<1> QED
  BY <1>3, <1>4, <1>8 DEF h

\* An entry that is added behind the others changes no history before it.
LEMMA HistoryAppend ==
  ASSUME NEW R, NEW s \in Seq(R), NEW r \in R, NEW a
  PROVE  \A n \in 0 .. Len(s) : HistoryIn(Append(s, r), a)[n] = HistoryIn(s, a)[n]
<1> DEFINE q == Append(s, r)
           h == HistoryIn(s, a)
           g == HistoryIn(q, a)
           T == {n \in Nat : n \in 0 .. Len(s) => g[n] = h[n]}
<1>1. /\ q \in Seq(R) /\ Len(s) \in Nat /\ Len(q) = Len(s) + 1
      /\ \A n \in 1 .. Len(s) : q[n] = s[n]
  OBVIOUS
<1> HIDE DEF q
<1>2. /\ h[0] = <<>> /\ g[0] = <<>>
      /\ \A n \in 1 .. Len(s) :
           h[n] = IF s[n].aid = a THEN Append(h[n - 1], s[n]) ELSE h[n - 1]
      /\ \A n \in 1 .. Len(q) :
           g[n] = IF q[n].aid = a THEN Append(g[n - 1], q[n]) ELSE g[n - 1]
  BY <1>1, HistoryType
<1> HIDE DEF h, g
<1>3. 0 \in T
  BY <1>2
<1>4. ASSUME NEW n \in Nat, n \in T PROVE n + 1 \in T
  <2> SUFFICES ASSUME n + 1 \in 0 .. Len(s) PROVE g[n + 1] = h[n + 1]
    OBVIOUS
  <2>1. /\ n + 1 \in 1 .. Len(s) /\ n + 1 \in 1 .. Len(q) /\ (n + 1) - 1 = n
        /\ g[n] = h[n] /\ q[n + 1] = s[n + 1]
    BY <1>1, <1>4
  <2> QED
    BY <1>2, <2>1
<1> HIDE DEF T
<1>5. \A n \in Nat : n \in T
  BY <1>3, <1>4, AllNumbers
<1>6. \A n \in 0 .. Len(s) : g[n] = h[n]
  BY <1>1, <1>5 DEF T
<1> QED
  BY <1>6 DEF g, h, q

\* x is what y starts with.
Starts(x, y) == Len(x) <= Len(y) /\ x = SubSeq(y, 1, Len(x))

LEMMA StartsByPlace ==
  ASSUME NEW R, NEW x \in Seq(R), NEW y \in Seq(R)
  PROVE  Starts(x, y) <=> Len(x) <= Len(y) /\ \A i \in 1 .. Len(x) : x[i] = y[i]
BY DEF Starts

\* A history is what every later one starts with.
LEMMA HistoryStarts ==
  ASSUME NEW R, NEW s \in Seq(R), NEW a, NEW m \in 0 .. Len(s), NEW n \in m .. Len(s)
  PROVE  Starts(HistoryIn(s, a)[m], HistoryIn(s, a)[n])
<1> DEFINE h == HistoryIn(s, a)
           T == {k \in Nat : m + k \in m .. Len(s) => Starts(h[m], h[m + k])}
<1>1. /\ Len(s) \in Nat /\ m \in Nat
      /\ \A i \in 0 .. Len(s) : h[i] \in Seq(R)
      /\ \A i \in 1 .. Len(s) :
           /\ s[i] \in R
           /\ h[i] = IF s[i].aid = a THEN Append(h[i - 1], s[i]) ELSE h[i - 1]
  BY HistoryType
<1> HIDE DEF h
<1>2. 0 \in T
  <2>1. h[m] \in Seq(R)
    BY <1>1
  <2>2. Starts(h[m], h[m])
    BY <2>1, StartsByPlace
  <2>3. m + 0 = m
    BY <1>1
  <2> QED
    BY <2>2, <2>3
<1>3. ASSUME NEW k \in Nat, k \in T PROVE k + 1 \in T
  <2> SUFFICES ASSUME m + (k + 1) \in m .. Len(s) PROVE Starts(h[m], h[m + (k + 1)])
    OBVIOUS
  <2> DEFINE i == m + (k + 1)
  <2>1. i \in 1 .. Len(s) /\ i - 1 = m + k /\ m + k \in m .. Len(s)
        /\ i \in 0 .. Len(s) /\ i - 1 \in 0 .. Len(s)
    BY <1>1
  <2>2. Starts(h[m], h[i - 1])
    BY <1>3, <2>1
  <2>3. h[m] \in Seq(R) /\ h[i - 1] \in Seq(R) /\ s[i] \in R /\ h[i] \in Seq(R)
    BY <1>1, <2>1
  <2>4. h[i] = Append(h[i - 1], s[i]) \/ h[i] = h[i - 1]
    BY <1>1, <2>1
  <2> HIDE DEF i
  <2>5. Len(h[m]) <= Len(h[i - 1]) /\ \A j \in 1 .. Len(h[m]) : h[m][j] = h[i - 1][j]
    BY <2>2, <2>3, StartsByPlace
  <2>6. Len(h[i - 1]) <= Len(h[i]) /\ \A j \in 1 .. Len(h[i - 1]) : h[i][j] = h[i - 1][j]
    BY <2>3, <2>4
  <2>7. Len(h[m]) <= Len(h[i]) /\ \A j \in 1 .. Len(h[m]) : h[m][j] = h[i][j]
    BY <2>3, <2>5, <2>6
  <2>8. Starts(h[m], h[i])
    BY <2>3, <2>7, StartsByPlace
  <2> QED
    BY <2>8 DEF i
<1> HIDE DEF T
<1>4. \A k \in Nat : k \in T
  BY <1>2, <1>3, AllNumbers
<1>5. n - m \in Nat /\ m + (n - m) = n
  BY <1>1
<1>6. Starts(h[m], h[m + (n - m)])
  BY <1>4, <1>5 DEF T
<1>7. Starts(h[m], h[n])
  BY <1>5, <1>6
<1> QED
  BY <1>7 DEF h

\* The kinds of structs, and the functions that take them.
LEMMA Tables ==
  /\ RecOf("user") = UserRec /\ RecOf("account") = AccountRec
  /\ RecOf("trans") = TransRec
  /\ \A fn \in {"get_user_from_uname", "get_user_from_id", "create_user",
                "update_user", "delete_user", "get_num_users", "get_users"} :
        fn \in Fns /\ TableOf(fn) = "user"
  /\ \A fn \in {"create_account", "update_account", "delete_account",
                "get_account_from_id", "get_num_accounts", "get_accounts"} :
        fn \in Fns /\ TableOf(fn) = "account"
  /\ \A fn \in {"append_transaction", "get_num_transactions",
                "get_transactions"} : fn \in Fns /\ TableOf(fn) = "trans"
<1>1. /\ RecOf("user") = UserRec /\ RecOf("account") = AccountRec
      /\ RecOf("trans") = TransRec
  BY DEF RecOf
<1>2. \A fn \in {"get_user_from_uname", "get_user_from_id", "create_user",
                "update_user", "delete_user", "get_num_users", "get_users"} :
        fn \in Fns /\ TableOf(fn) = "user"
  BY DEF Fns, Creates, Updates, Deletes, Gets, Bulk, Counts, TableOf, UserFns
<1>3. \A fn \in {"create_account", "update_account", "delete_account",
                "get_account_from_id", "get_num_accounts", "get_accounts"} :
        fn \in Fns /\ TableOf(fn) = "account"
  BY DEF Fns, Creates, Updates, Deletes, Gets, Bulk, Counts, TableOf, UserFns, TransFns
<1>4. \A fn \in {"append_transaction", "get_num_transactions",
                "get_transactions"} : fn \in Fns /\ TableOf(fn) = "trans"
  BY DEF Fns, Creates, Updates, Deletes, Gets, Bulk, Counts, TableOf, UserFns, TransFns
<1> QED
  BY <1>1, <1>2, <1>3, <1>4

\* The journal changes only by an entry behind the others.
LEMMA JournalGrows ==
  ASSUME TypeInv, NEW t \in Threads, Step(t)
  PROVE  \/ file'["trans"] = file["trans"]
         \/ /\ AppendRecord(t) /\ op[t].fn = "append_transaction"
            /\ file'["trans"] = Append(file["trans"], op[t].rec)
<1> USE DEF Goto
<1>1. /\ ThreadsOK /\ Control(t) /\ FilesOK /\ OpenFile(t) \in Files
  BY Located DEF TypeInv, TypeOK
<1>2. CASE Overwrite(t) \/ ShiftWrite(t) \/ Truncate(t)
  <2>1. op[t].fn \in Updates \cup Deletes
    <3>1. CASE Overwrite(t)
      BY <1>1, <3>1 DEF Overwrite, Control
    <3>2. CASE ShiftWrite(t) \/ Truncate(t)
      BY <1>1, <3>2 DEF ShiftWrite, Truncate, Control, Shifting
    <3> QED
      BY <1>2, <3>1, <3>2
  <2>2. OpenFile(t) # "trans"
    BY <2>1, Tables DEF OpenFile, FileAt, Updates, Deletes
  <2>3. file' = file \/ \E s : file' = [file EXCEPT ![OpenFile(t)] = s]
    BY <1>2 DEF Overwrite, ShiftWrite, Truncate, SetFile
  <2>4. "trans" \in DOMAIN file
    BY <1>1 DEF FilesOK, Files
  <2> QED
    BY <2>2, <2>3, <2>4
<1>3. CASE AppendRecord(t)
  <2>1. op[t].fn \in Creates /\ stage[t] = 3
    BY <1>1, <1>3 DEF AppendRecord, Control, AppendPCs
  <2>2. OpenFile(t) = "trans" => op[t].fn = "append_transaction"
    BY <2>1, Tables DEF OpenFile, FileAt, Creates
  <2> QED
    BY <1>1, <1>3, <2>2 DEF AppendRecord, SetFile, Appended, Contents, FilesOK
<1>4. CASE ~(Overwrite(t) \/ ShiftWrite(t) \/ Truncate(t) \/ AppendRecord(t))
  BY <1>4, OnlyWrites
<1> QED
  BY <1>2, <1>3, <1>4

\* What a bulk getter has put into the caller's array: of the journal the
\* history as far as it has been read, of a table as many records as were read.
Gathered(t) ==
  op[t].fn \in Bulk =>
    /\ pc[t] \in {"lock", "scan", "unlock", "close", "done"}
    /\ cur[t] \in Nat
    /\ pc[t] = "lock" => cur[t] = 0
    /\ pc[t] \in {"close", "done"} => ret[t] \in {EFAIL, Len(out[t])}
    /\ IF op[t].fn \in TransFns
       THEN /\ cur[t] <= Len(file["trans"])
            /\ out[t] = HistoryIn(file["trans"], op[t].rec.aid)[cur[t]]
       ELSE Len(out[t]) = cur[t]

GatherStep(t) == BeginScan(t) \/ ReadInto(t) \/ ReadEOF(t) \/ EndScan(t)
                 \/ Close(t) \/ OpenFails(t)

LEMMA StepsOfBulk ==
  ASSUME TypeInv, NEW t \in Threads, op[t].fn \in Bulk, Gathered(t), Step(t)
  PROVE  GatherStep(t)
<1>1. pc[t] \in {"lock", "scan", "unlock", "close", "done"}
  BY DEF Gathered
<1> QED
  BY <1>1
     DEF Step, GatherStep, Goto, ReadHit, ReadMiss, LockRecord, Overwrite,
         OverwriteFails, LockTail, ShiftRead, ShiftWrite, ShiftWriteFails, ShiftEOF,
         SeekLast, Truncate, EndWrite, NewId, OpenForAppend, LockEnd, AppendRecord,
         AppendFails, UnlockEnd, SeekSize

LEMMA ReadIntoGathers ==
  ASSUME TypeInv, NEW t \in Threads, Gathered(t), ReadInto(t) PROVE Gathered(t)'
<1>1. /\ ThreadsOK /\ out[t] \in Seq(Rec) /\ pc[t] = "scan" /\ op[t].fn \in Bulk
      /\ cur[t] \in Nat /\ cur[t] < Len(Contents(t)) /\ Contents(t) \in Seq(RecOf(OpenFile(t)))
  BY FileSeq DEF TypeInv, TypeOK, CallOK, ReadInto, Gathered
<1>2. /\ cur'[t] = cur[t] + 1 /\ pc'[t] \in {"scan", "unlock"}
      /\ out'[t] = IF Wanted(op[t], Contents(t)[cur[t] + 1])
                   THEN Append(out[t], Contents(t)[cur[t] + 1]) ELSE out[t]
      /\ op' = op /\ file' = file
  BY <1>1 DEF ReadInto, ThreadsOK, disk
<1>3. CASE op[t].fn \in TransFns
  <2>1. OpenFile(t) = "trans" /\ Contents(t) = file["trans"]
    BY <1>1, <1>3 DEF OpenFile, FileAt, TableOf, Bulk, TransFns, UserFns, Contents
  <2>2. /\ out[t] = HistoryIn(file["trans"], op[t].rec.aid)[cur[t]]
        /\ cur[t] + 1 \in 1 .. Len(file["trans"]) /\ (cur[t] + 1) - 1 = cur[t]
    BY <1>1, <1>3, <2>1 DEF Gathered
  <2>3. out'[t] = HistoryIn(file["trans"], op[t].rec.aid)[cur[t] + 1]
    BY <1>1, <1>2, <1>3, <2>1, <2>2, HistoryType DEF Wanted
  <2> QED
    BY <1>1, <1>2, <1>3, <2>2, <2>3 DEF Gathered
<1>4. CASE op[t].fn \notin TransFns
  <2>1. Len(out[t]) = cur[t] /\ Wanted(op[t], Contents(t)[cur[t] + 1])
    BY <1>1, <1>4 DEF Gathered, Wanted
  <2>2. Len(out'[t]) = cur[t] + 1
    BY <1>1, <1>2, <2>1
  <2> QED
    BY <1>1, <1>2, <1>4, <2>2 DEF Gathered
<1> QED
  BY <1>3, <1>4

LEMMA GatheredByStep ==
  ASSUME TypeInv, NEW t \in Threads, Gathered(t), Step(t) PROVE Gathered(t)'
<1>1. ThreadsOK /\ op'[t].fn = op[t].fn
  BY ScanSameFile, LaterSteps DEF TypeInv, TypeOK
<1>2. CASE op[t].fn \notin Bulk
  BY <1>1, <1>2 DEF Gathered
<1>3. CASE op[t].fn \in Bulk /\ ~ReadInto(t)
  <2>1. BeginScan(t) \/ ReadEOF(t) \/ EndScan(t) \/ Close(t) \/ OpenFails(t)
    BY <1>3, StepsOfBulk DEF GatherStep
  <2>2. /\ op' = op /\ file' = file /\ out' = out
        /\ cur'[t] = IF pc[t] = "lock" THEN 0 ELSE cur[t]
    BY <1>1, <1>3, <2>1
       DEF ThreadsOK, BeginScan, ReadEOF, EndScan, Close, OpenFails, Goto, disk,
           local, Gathered
  <2>3. cur'[t] = cur[t] /\ cur[t] \in Nat
    BY <1>3, <2>2 DEF Gathered
  <2>4. ~HasNext(t) /\ ~WritesInPlace(op[t].fn, stage[t])
    BY <1>3 DEF HasNext, WritesInPlace, Bulk, Updates
  <2>5. CASE BeginScan(t) \/ ReadEOF(t)
    <3>1. pc'[t] \in {"scan", "unlock"}
      BY <1>1, <2>5 DEF BeginScan, ReadEOF, Goto, ThreadsOK
    <3> QED
      BY <1>3, <2>2, <2>3, <3>1 DEF Gathered
  <2>6. CASE EndScan(t)
    <3>1. pc'[t] = "close" /\ ret'[t] = Len(out[t])
      BY <1>1, <1>3, <2>4, <2>6 DEF EndScan, Goto, ThreadsOK, ScanStatus
    <3> QED
      BY <1>3, <2>2, <2>3, <3>1 DEF Gathered
  <2>7. CASE Close(t)
    <3>1. pc[t] = "close" /\ pc'[t] = "done" /\ ret' = ret
      BY <1>1, <2>4, <2>7 DEF Close, Goto, ThreadsOK, NextStage
    <3> QED
      BY <1>3, <2>2, <2>3, <3>1 DEF Gathered
  <2>8. CASE OpenFails(t)
    <3>1. pc'[t] = "done" /\ ret'[t] = EFAIL
      BY <1>1, <1>3, <2>8 DEF OpenFails, ThreadsOK, Bulk
    <3> QED
      BY <1>3, <2>2, <2>3, <3>1 DEF Gathered
  <2> QED
    BY <2>1, <2>5, <2>6, <2>7, <2>8
<1> QED
  BY <1>2, <1>3, ReadIntoGathers

\* Those who read the journal are not disturbed by who adds to it.
LEMMA GatheredOthers ==
  ASSUME TypeInv, NEW t \in Threads, Step(t), NEW u \in Threads \ {t}, Gathered(u)
  PROVE  Gathered(u)'
<1>1. /\ pc'[u] = pc[u] /\ op'[u] = op[u] /\ cur'[u] = cur[u] /\ ret'[u] = ret[u]
      /\ ThreadsOK /\ CallOK(t) /\ file["trans"] \in Seq(TransRec)
  BY OthersStandStill, FileSeq, Tables DEF TypeInv, TypeOK, Files
<1>2. out'[u] = out[u]
  BY <1>1 DEF ThreadsOK, Step, BeginScan, ReadHit, ReadMiss, ReadInto, ReadEOF, EndScan,
         LockRecord, Overwrite, OverwriteFails, LockTail, ShiftRead, ShiftWrite,
         ShiftWriteFails, ShiftEOF, SeekLast, Truncate, EndWrite, NewId,
         OpenForAppend, LockEnd, AppendRecord, AppendFails, UnlockEnd, SeekSize,
         Close, OpenFails, local
<1>3. CASE file'["trans"] = file["trans"]
  BY <1>1, <1>2, <1>3 DEF Gathered
<1>4. CASE op[t].fn = "append_transaction"
           /\ file'["trans"] = Append(file["trans"], op[t].rec)
  <2>1. op[t].rec \in TransRec
    BY <1>1, <1>4, Tables DEF CallOK, OpOk
  <2>2. Len(file["trans"]) <= Len(file'["trans"])
    BY <1>1, <1>4, <2>1
  <2>3. \A n \in 0 .. Len(file["trans"]) : \A a :
          HistoryIn(file'["trans"], a)[n] = HistoryIn(file["trans"], a)[n]
    BY <1>1, <1>4, <2>1, HistoryAppend
  <2>4. Len(file["trans"]) \in Nat /\ Len(file'["trans"]) \in Nat
    BY <1>1, <1>4, <2>1
  <2> QED
    BY <1>1, <1>2, <2>2, <2>3, <2>4 DEF Gathered
<1> QED
  BY <1>3, <1>4, JournalGrows

LEMMA GatheredByCall ==
  ASSUME TypeInv, NEW t \in Threads, NEW o, OpOk(o), Invoke(t, o),
         \A u \in Threads : Gathered(u)
  PROVE  \A u \in Threads : Gathered(u)'
<1>1. ThreadsOK /\ file["trans"] \in Seq(TransRec)
  BY FileSeq, Tables DEF TypeInv, TypeOK, Files
<1>2. /\ pc'[t] = FirstCall(o.fn) /\ op'[t] = o /\ cur'[t] = 0 /\ out'[t] = <<>>
      /\ file' = file
  BY <1>1 DEF Invoke, Begin, ThreadsOK, disk
<1>3. \A u \in Threads \ {t} : Gathered(u)'
  <2> TAKE u \in Threads \ {t}
  <2>1. /\ pc'[u] = pc[u] /\ op'[u] = op[u] /\ cur'[u] = cur[u]
        /\ ret'[u] = ret[u] /\ out'[u] = out[u]
    BY <1>1 DEF Invoke, Begin, ThreadsOK, TypeInv, TypeOK
  <2> QED
    BY <1>2, <2>1 DEF Gathered
<1>4. Gathered(t)'
  <2>1. o.fn \in Bulk => FirstCall(o.fn) = "lock"
    BY DEF FirstCall, Bulk, Creates, Counts
  <2>2. HistoryIn(file["trans"], o.rec.aid)[0] = <<>> /\ Len(file["trans"]) \in Nat
    BY <1>1, HistoryType
  <2> QED
    BY <1>2, <2>1, <2>2 DEF Gathered
<1> QED
  BY <1>3, <1>4

LEMMA GatheredByCrash ==
  ASSUME TypeInv, NEW p \in Procs, Crash(p), \A u \in Threads : Gathered(u)
  PROVE  \A u \in Threads : Gathered(u)'
<1> TAKE u \in Threads
<1>1. CASE Proc(u) = p
  <2>1. op'[u].fn = "get_num_users"
    BY <1>1 DEF Crash, NoOp
  <2> QED
    BY <2>1 DEF Gathered, Bulk
<1>2. CASE Proc(u) # p
  BY <1>2 DEF Crash, Gathered
<1> QED
  BY <1>1, <1>2

LEMMA GatheredQuiet ==
  ASSUME UNCHANGED <<file, pc, op, cur, out, ret>>, \A u \in Threads : Gathered(u)
  PROVE  \A u \in Threads : Gathered(u)'
BY DEF Gathered

\* Every history a thread has got is one of the account, however long the
\* journal has grown meanwhile.
LEMMA GatheredIsHistory ==
  ASSUME TypeInv, NEW t \in Threads, Gathered(t), op[t].fn \in Bulk \cap TransFns
  PROVE  Starts(out[t], History(op[t].rec.aid))
<1>1. file["trans"] \in Seq(TransRec) /\ Len(file["trans"]) \in Nat
  BY FileSeq, Tables DEF Files
<1>2. cur[t] \in 0 .. Len(file["trans"]) /\ Len(file["trans"]) \in cur[t] .. Len(file["trans"])
  BY <1>1 DEF Gathered
<1> QED
  BY <1>1, <1>2, HistoryStarts DEF Gathered, History

\* get_transactions never leaves out an entry of the account, nor lists one
\* twice, whatever is appended between its reads and whatever else is going on.
THEOREM HistoriesAreComplete == Spec => []HistoryHasNoGaps
<1> DEFINE Inv == TypeInv /\ \A t \in Threads : Gathered(t)
<1>1. Init => Inv
  <2> SUFFICES ASSUME Init PROVE \A t \in Threads : Gathered(t)
    BY InitType
  <2> QED
    BY DEF Init, NoOp, Gathered, Bulk
<1>2. Inv /\ [Next]_vars => Inv'
  <2> SUFFICES ASSUME Inv, [Next]_vars PROVE \A t \in Threads : Gathered(t)'
    BY NextType
  <2>1. ASSUME NEW t \in Threads, Step(t) PROVE \A u \in Threads : Gathered(u)'
    BY <2>1, GatheredByStep, GatheredOthers
  <2>2. ASSUME NEW t \in Threads, Call(t) PROVE \A u \in Threads : Gathered(u)'
    <3>1. PICK o \in Ops : Invoke(t, o)
      BY <2>2 DEF Call
    <3> QED
      BY <3>1, OpsAssumption, GatheredByCall
  <2>3. ASSUME NEW p \in Procs, InitCounter(p) PROVE \A u \in Threads : Gathered(u)'
    BY <2>3, GatheredQuiet DEF InitCounter, local
  <2>4. ASSUME UNCHANGED vars PROVE \A u \in Threads : Gathered(u)'
    BY <2>4, GatheredQuiet DEF vars, disk, local
  <2> QED
    BY <2>1, <2>2, <2>3, <2>4, GatheredByCrash DEF Next, Finished
<1>3. Inv => HistoryHasNoGaps
  BY GatheredIsHistory DEF HistoryHasNoGaps, Starts, Bulk, TransFns
<1> QED
  BY <1>1, <1>2, <1>3, PTL DEF Spec

(***************************************************************************)
(* What create_user, create_account and append_transaction report.         *)
(***************************************************************************)

\* The caller of a create leaves the id to it, and no file has a hole.
FreshCreates == \A o \in Ops : o.fn \in Creates => o.rec.id = 0
NoHoles      == \A s \in InitFiles : \A f \in Files : 0 \notin Ids(s[f])

\* The create has been given its id.
Issued(t) ==
  /\ op[t].fn \in Creates /\ stage[t] = 3
  /\ pc[t] \in {"aopen", "alock", "append", "aunlock", "close", "done"}

\* The write() of the create is behind it, or is given up.
Decided(t) == Issued(t) /\ pc[t] \in {"aunlock", "close", "done"}

\* Before that: it has no id and, unless it is over, no failure.
Undecided(t) ==
  op[t].fn \in Creates =>
    /\ op[t].fn # "create_user" => stage[t] = 3
    /\ pc[t] # "wunlock"
    /\ pc[t] \in {"lock", "scan", "unlock"} => stage[t] < 3
    /\ stage[t] < 3 \/ pc[t] = "newid" => op[t].rec.id = 0
    /\ pc[t] \in {"lock", "scan", "newid", "aopen", "alock", "append"} => ret[t] = 0
    /\ stage[t] < 3 /\ pc[t] = "done" => ret[t] # 0

Report(t) ==
  /\ Undecided(t)
  /\ Issued(t) => 1 <= op[t].rec.id /\ op[t].rec.id <= ctr[Proc(t)][OpenFile(t)]
  /\ Decided(t) => (ret[t] = 0 <=> op[t].rec.id \in Ids(Contents(t)))

Distinct ==
  \A t, u \in Threads :
    t # u /\ Issued(t) /\ Issued(u) /\ OpenFile(t) = OpenFile(u)
      => op[t].rec.id # op[u].rec.id

RepInv ==
  /\ IInv /\ GrowInv
  /\ \A f \in Files : 0 \notin Ids(file[f])
  /\ \A t \in Threads : Report(t)
  /\ Distinct

\* What a step does to the ids of a file: only an append adds one.
LEMMA IdsOfStep ==
  ASSUME GrowInv, NEW t \in Threads, Step(t), TypeInv', NEW f \in Files
  PROVE  /\ ~(AppendRecord(t) /\ f = OpenFile(t)) => Ids(file'[f]) = Ids(file[f])
         /\ AppendRecord(t) /\ f = OpenFile(t) =>
              Ids(file'[f]) = Ids(file[f]) \cup {op[t].rec.id}
<1>1. /\ TypeInv /\ file[f] \in Seq(RecOf(f)) /\ file'[f] \in Seq(RecOf(f))
      /\ FilesOK /\ OpenFile(t) \in Files
  BY Located DEF GrowInv, TypeInv, TypeOK, FilesOK
<1>2. CASE Overwrite(t)
  <2>1. Stays /\ Len(file'[f]) = Len(file[f])
    BY <1>2, OverwriteStays DEF GrowInv, Growing
  <2>2. DOMAIN file[f] = 1 .. Len(file[f]) /\ DOMAIN file'[f] = 1 .. Len(file[f])
    BY <1>1, <2>1
  <2>3. \A i \in DOMAIN file[f] : file'[f][i].id = file[f][i].id
    BY <2>1, <2>2 DEF Stays, SameIdentity
  <2>4. Ids(file'[f]) = Ids(file[f])
    BY <2>2, <2>3 DEF Ids
  <2>5. ~AppendRecord(t)
    BY <1>2 DEF Overwrite, AppendRecord, Goto
  <2> QED
    BY <2>4, <2>5
<1>3. CASE AppendRecord(t)
  <2>1. CASE f = OpenFile(t)
    <3>1. file'[f] = Append(file[f], op[t].rec)
      BY <1>1, <1>3, <2>1 DEF AppendRecord, Appended, SetFile, Contents, FilesOK
    <3>2. /\ DOMAIN file'[f] = DOMAIN file[f] \cup {Len(file[f]) + 1}
          /\ \A i \in DOMAIN file[f] : file'[f][i] = file[f][i]
          /\ file'[f][Len(file[f]) + 1] = op[t].rec
      BY <1>1, <3>1
    <3> QED
      BY <1>3, <2>1, <3>2 DEF Ids
  <2>2. CASE f # OpenFile(t)
    <3>1. file'[f] = file[f]
      BY <1>1, <1>3, <2>2 DEF AppendRecord, SetFile, FilesOK
    <3> QED
      BY <2>2, <3>1
  <2> QED
    BY <2>1, <2>2
<1>4. CASE ~Overwrite(t) /\ ~AppendRecord(t)
  <2>1. Control(t) /\ op[t].fn \notin Deletes
    BY DEF GrowInv, Growing, Sees, TypeInv
  <2>2. ~ShiftWrite(t) /\ ~Truncate(t)
    BY <2>1 DEF ShiftWrite, Truncate, Goto, Control, Shifting
  <2> QED
    BY <1>4, <2>2, OnlyWrites
<1> QED
  BY <1>2, <1>3, <1>4

\* A step does not change which function a thread is in.
LEMMA SameFn ==
  ASSUME TypeInv, NEW t \in Threads, Step(t) PROVE op'[t].fn = op[t].fn
BY ScanSameFile, LaterSteps

\* The steps of a create.
CreateStep(t) ==
  \/ BeginScan(t) \/ ReadHit(t) \/ ReadMiss(t) \/ ReadEOF(t) \/ EndScan(t)
  \/ NewId(t) \/ OpenForAppend(t) \/ LockEnd(t) \/ AppendRecord(t)
  \/ AppendFails(t) \/ UnlockEnd(t) \/ Close(t) \/ OpenFails(t)

LEMMA StepsOfCreates ==
  ASSUME TypeInv, NEW t \in Threads, Undecided(t), op[t].fn \in Creates, Step(t)
  PROVE  CreateStep(t)
<1>1. /\ Control(t) /\ pc[t] # "wunlock"
      /\ op[t].fn \notin Bulk \cup Updates \cup Deletes \cup Counts
  BY DEF TypeInv, Undecided, Creates, Bulk, Updates, Deletes, Counts
<1> QED
  BY <1>1
     DEF Step, CreateStep, Control, Shifting, Goto, ReadInto, LockRecord, Overwrite,
         OverwriteFails, LockTail, ShiftRead, ShiftWrite, ShiftWriteFails, ShiftEOF,
         SeekLast, Truncate, EndWrite, SeekSize

\* Who the records of a create belong to does not change while it has an id.
LEMMA SameFileStep ==
  ASSUME TypeInv, NEW t \in Threads, Step(t), stage'[t] = stage[t]
  PROVE  OpenFile(t)' = OpenFile(t)
BY SameFn DEF OpenFile

\* The lookups of create_user.
LEMMA LookupReports ==
  ASSUME RepInv, NEW t \in Threads, op[t].fn \in Creates,
         BeginScan(t) \/ ReadHit(t) \/ ReadMiss(t) \/ ReadEOF(t) \/ EndScan(t)
  PROVE  Report(t)' /\ ~Issued(t)'
<1>1. TypeInv /\ ThreadsOK /\ Undecided(t) /\ Control(t)
  BY DEF RepInv, GrowInv, Report, TypeInv, TypeOK
<1>2. /\ op' = op /\ stage' = stage
      /\ pc[t] \in {"lock", "scan", "unlock"} /\ stage[t] < 3
  BY <1>1 DEF BeginScan, ReadHit, ReadMiss, ReadEOF, EndScan, Goto, Undecided, local
<1>3. CASE EndScan(t)
  <2>1. pc'[t] = "close"
    BY <1>1, <1>3
       DEF EndScan, Goto, ThreadsOK, WritesInPlace, Creates, Updates
  <2> QED
    BY <1>1, <1>2, <2>1 DEF Report, Undecided, Issued, Decided
<1>4. CASE ~EndScan(t)
  <2>1. pc'[t] \in {"scan", "unlock"} /\ ret' = ret /\ ret[t] = 0
    BY <1>1, <1>4
       DEF BeginScan, ReadHit, ReadMiss, ReadEOF, Goto, ThreadsOK, Undecided, local
  <2> QED
    BY <1>1, <1>2, <2>1 DEF Report, Undecided, Issued, Decided
<1> QED
  BY <1>3, <1>4

\* The id and what follows up to the write().
LEMMA NewIdReports ==
  ASSUME RepInv, NEW t \in Threads, NewId(t) PROVE Report(t)'
<1>1. /\ TypeInv /\ ThreadsOK /\ KernelOK /\ Undecided(t) /\ Control(t) /\ CallOK(t)
      /\ OpenFile(t) \in Files /\ Proc(t) \in Procs
  BY Located DEF RepInv, GrowInv, Report, TypeInv, TypeOK
<1>2. /\ pc[t] = "newid" /\ pc'[t] = "aopen" /\ op[t].fn \in Creates /\ stage[t] = 3
      /\ stage' = stage /\ ret' = ret /\ ret[t] = 0
  BY <1>1 DEF NewId, Goto, ThreadsOK, Undecided, Control, AppendPCs
<1>3. op'[t].fn = op[t].fn
  BY <1>1, SameFn DEF Step
<1>4. OpenFile(t)' = OpenFile(t)
  BY <1>2, <1>3 DEF OpenFile
<1>5. op[t].rec \in RecOf(OpenFile(t)) /\ ctr[Proc(t)][OpenFile(t)] \in Nat
  BY <1>1, <1>2 DEF CallOK, OpOk, OpenFile, FileAt, Creates, KernelOK
<1>6. /\ op'[t].rec = [op[t].rec EXCEPT !.id = ctr[Proc(t)][OpenFile(t)] + 1]
      /\ ctr'[Proc(t)][OpenFile(t)] = ctr[Proc(t)][OpenFile(t)] + 1
  BY <1>1 DEF NewId, NextId, WithRec, ThreadsOK, KernelOK
<1>7. op'[t].rec.id = ctr'[Proc(t)][OpenFile(t)] /\ 1 <= op'[t].rec.id
  BY <1>1, <1>5, <1>6, WithIdType
<1>8. Undecided(t)'
  BY <1>2 DEF Undecided
<1> QED
  BY <1>2, <1>4, <1>5, <1>6, <1>7, <1>8 DEF Report, Decided, Proc

LEMMA BeforeWriteReports ==
  ASSUME RepInv, NEW t \in Threads, OpenForAppend(t) \/ LockEnd(t) PROVE Report(t)'
<1>1. /\ TypeInv /\ ThreadsOK /\ Report(t) /\ Control(t)
  BY DEF RepInv, GrowInv, TypeInv, TypeOK
<1>2. /\ pc[t] \in {"aopen", "alock"} /\ pc'[t] \in {"alock", "append"}
      /\ op' = op /\ stage' = stage /\ ret' = ret /\ ctr' = ctr
  BY <1>1 DEF OpenForAppend, LockEnd, Goto, ThreadsOK, disk, local
<1>3. OpenFile(t)' = OpenFile(t) /\ op[t].fn \in Creates /\ stage[t] = 3
  BY <1>1, <1>2 DEF OpenFile, Control, AppendPCs
<1> QED
  BY <1>1, <1>2, <1>3 DEF Report, Undecided, Issued, Decided, Proc

\* The write() itself: success has stored the record, failure has not.
LEMMA WriteReports ==
  ASSUME RepInv, NEW t \in Threads, AppendRecord(t) \/ AppendFails(t), TypeInv'
  PROVE  Report(t)'
<1>1. /\ TypeInv /\ ThreadsOK /\ Report(t) /\ Control(t) /\ Unused(t) /\ Step(t)
      /\ GrowInv /\ OpenFile(t) \in Files
  BY Located DEF RepInv, GrowInv, IInv, IdInv, TypeInv, TypeOK, Step
<1>2. /\ pc[t] = "append" /\ pc'[t] = "aunlock"
      /\ op' = op /\ stage' = stage /\ ctr' = ctr
  BY <1>1 DEF AppendRecord, AppendFails, Goto, ThreadsOK, disk, local
<1>3. /\ OpenFile(t)' = OpenFile(t) /\ op[t].fn \in Creates /\ stage[t] = 3
      /\ Issued(t) /\ Appending(t) /\ ret[t] = 0
  BY <1>1, <1>2 DEF OpenFile, Control, AppendPCs, Issued, Appending, Report, Undecided
<1>4. op[t].rec.id \notin Ids(Contents(t))
  BY <1>1, <1>3 DEF Unused, Ids, Range
<1>5. ret'[t] = 0 <=> op[t].rec.id \in Ids(Contents(t)')
  <2>1. CASE AppendRecord(t)
    <3>1. ret'[t] = 0
      BY <1>3, <2>1 DEF AppendRecord, local
    <3>2. Ids(Contents(t)') = Ids(Contents(t)) \cup {op[t].rec.id}
      BY <1>1, <1>3, <2>1, IdsOfStep DEF Contents
    <3> QED
      BY <3>1, <3>2
  <2>2. CASE AppendFails(t)
    <3>1. ret'[t] # 0 /\ file' = file
      BY <1>1, <2>2 DEF AppendFails, ReportFailure, EFAIL, ThreadsOK, disk
    <3> QED
      BY <1>3, <1>4, <3>1 DEF Contents
  <2> QED
    BY <2>1, <2>2
<1> QED
  BY <1>1, <1>2, <1>3, <1>5 DEF Report, Undecided, Issued, Decided, Proc

LEMMA UnlockReports ==
  ASSUME RepInv, NEW t \in Threads, UnlockEnd(t) PROVE Report(t)'
<1>1. /\ TypeInv /\ ThreadsOK /\ Report(t) /\ Control(t)
  BY DEF RepInv, GrowInv, TypeInv, TypeOK
<1>2. /\ pc[t] = "aunlock" /\ pc'[t] = "close" /\ file' = file
      /\ op' = op /\ stage' = stage /\ ret' = ret /\ ctr' = ctr
  BY <1>1 DEF UnlockEnd, Goto, ThreadsOK, disk, local
<1>3. OpenFile(t)' = OpenFile(t) /\ op[t].fn \in Creates /\ stage[t] = 3
      /\ Contents(t)' = Contents(t)
  BY <1>1, <1>2 DEF OpenFile, Control, AppendPCs, Contents
<1> QED
  BY <1>1, <1>2, <1>3 DEF Report, Undecided, Issued, Decided, Proc

LEMMA CloseReports ==
  ASSUME RepInv, NEW t \in Threads, op[t].fn \in Creates, Close(t)
  PROVE  Report(t)' /\ (Issued(t)' => Issued(t) /\ stage'[t] = stage[t])
<1>1. /\ TypeInv /\ ThreadsOK /\ Report(t)
  BY DEF RepInv, GrowInv, TypeInv, TypeOK
<1>2. /\ pc[t] = "close" /\ op' = op /\ ret' = ret /\ ctr' = ctr /\ file' = file
      /\ stage'[t] = NextStage(t) /\ stage[t] \in 1 .. 3
      /\ pc'[t] = IF NextStage(t) = stage[t] THEN "done" ELSE StageCall(NextStage(t))
  BY <1>1 DEF Close, Goto, ThreadsOK, disk
<1>3. CASE stage[t] = 3
  <2>1. NextStage(t) = 3
    BY <1>3 DEF NextStage, HasNext, Creates
  <2>2. pc'[t] = "done" /\ stage'[t] = stage[t]
    BY <1>2, <1>3, <2>1
  <2>3. OpenFile(t)' = OpenFile(t) /\ Contents(t)' = Contents(t)
    BY <1>2, <2>2 DEF OpenFile, Contents
  <2> QED
    BY <1>1, <1>2, <1>3, <2>2, <2>3 DEF Report, Undecided, Issued, Decided, Proc
<1>4. CASE stage[t] < 3 /\ ret[t] = 0
  <2>1. HasNext(t) /\ op[t].rec.id = 0
    BY <1>1, <1>4 DEF HasNext, Report, Undecided
  <2>2. stage'[t] = stage[t] + 1 /\ NextStage(t) # stage[t] /\ NextStage(t) = stage[t] + 1
    BY <1>2, <1>4, <2>1 DEF NextStage
  <2>3. pc'[t] = IF stage'[t] = 3 THEN "newid" ELSE "lock"
    BY <1>2, <2>2 DEF StageCall
  <2>4. Undecided(t)'
    BY <1>1, <1>2, <1>4, <2>1, <2>2, <2>3 DEF Report, Undecided
  <2> QED
    BY <1>2, <2>3, <2>4 DEF Report, Issued, Decided
<1>5. CASE stage[t] < 3 /\ ret[t] # 0
  <2>1. pc'[t] = "done" /\ stage'[t] = stage[t]
    BY <1>2, <1>5 DEF NextStage
  <2>2. Undecided(t)'
    BY <1>1, <1>2, <1>5, <2>1 DEF Report, Undecided
  <2> QED
    BY <1>5, <2>1, <2>2 DEF Report, Issued, Decided
<1> QED
  BY <1>2, <1>3, <1>4, <1>5

LEMMA OpenFailsReports ==
  ASSUME RepInv, NEW t \in Threads, op[t].fn \in Creates, OpenFails(t)
  PROVE  Report(t)' /\ (Issued(t)' => Issued(t) /\ stage'[t] = stage[t])
<1>1. /\ TypeInv /\ ThreadsOK /\ Report(t) /\ Control(t) /\ Unused(t)
      /\ op[t].fn \notin Counts
  BY DEF RepInv, GrowInv, IInv, IdInv, TypeInv, TypeOK, Creates, Counts
<1>2. /\ pc[t] \in {"lock", "aopen"} /\ op' = op /\ ctr' = ctr /\ file' = file
      /\ stage[t] \in 1 .. 3
  BY <1>1 DEF OpenFails, Control, ThreadsOK, disk
<1>3. CASE pc[t] = "lock"
  <2>1. /\ op[t].fn = "create_user" /\ stage[t] < 3 /\ op[t].rec.id = 0 /\ ret[t] = 0
    BY <1>1, <1>2, <1>3 DEF Report, Undecided
  <2>2. \/ pc'[t] = "newid" /\ stage'[t] = 3 /\ ret'[t] = 0
        \/ pc'[t] = "done" /\ stage'[t] = stage[t] /\ ret'[t] # 0
    BY <1>1, <2>1 DEF OpenFails, ThreadsOK, ECONFLICT, EFAIL
  <2>3. Undecided(t)' /\ ~Issued(t)'
    BY <1>2, <2>1, <2>2 DEF Undecided, Issued
  <2> QED
    BY <2>3 DEF Report, Decided
<1>4. CASE pc[t] = "aopen"
  <2>1. stage[t] = 3 /\ Issued(t) /\ Appending(t)
    BY <1>1, <1>4 DEF Control, AppendPCs, Issued, Appending
  <2>2. pc'[t] = "done" /\ stage'[t] = 3 /\ ret'[t] # 0
    BY <1>1, <2>1 DEF OpenFails, ThreadsOK, ECONFLICT, EFAIL
  <2>3. OpenFile(t)' = OpenFile(t) /\ Contents(t)' = Contents(t)
    BY <1>2, <2>1, <2>2 DEF OpenFile, Contents
  <2>4. op[t].rec.id \notin Ids(Contents(t))
    BY <1>1, <2>1 DEF Unused, Ids, Range
  <2>5. Undecided(t)'
    BY <1>1, <1>2, <2>2 DEF Undecided
  <2> QED
    BY <1>1, <1>2, <2>1, <2>2, <2>3, <2>4, <2>5 DEF Report, Proc
<1> QED
  BY <1>2, <1>3, <1>4

LEMMA OwnReport ==
  ASSUME RepInv, NEW t \in Threads, Step(t), TypeInv' PROVE Report(t)'
<1>1. TypeInv /\ op'[t].fn = op[t].fn /\ Undecided(t)
  BY SameFn DEF RepInv, GrowInv, Report
<1>2. CASE op[t].fn \in Creates
  BY <1>1, <1>2, StepsOfCreates, LookupReports, NewIdReports, BeforeWriteReports,
     WriteReports, UnlockReports, CloseReports, OpenFailsReports DEF CreateStep
<1>3. CASE op[t].fn \notin Creates
  BY <1>1, <1>3 DEF Report, Undecided, Issued, Decided
<1> QED
  BY <1>2, <1>3

\* A create has its id from new_uid, new_aid or new_tid and keeps it.
LEMMA IssuedBefore ==
  ASSUME RepInv, NEW t \in Threads, Step(t), Issued(t)', ~NewId(t)
  PROVE  Issued(t) /\ OpenFile(t)' = OpenFile(t) /\ op'[t] = op[t]
<1>1. TypeInv /\ ThreadsOK /\ op'[t].fn = op[t].fn /\ Undecided(t) /\ Control(t)
  BY SameFn DEF RepInv, GrowInv, Report, TypeInv, TypeOK
<1>2. CreateStep(t) /\ op[t].fn \in Creates
  BY <1>1, StepsOfCreates DEF Issued
<1>3. op' = op
  BY <1>2 DEF CreateStep, BeginScan, ReadHit, ReadMiss, ReadEOF, EndScan,
      OpenForAppend, LockEnd, AppendRecord, AppendFails, UnlockEnd, Close, OpenFails,
      local
<1>4. Issued(t) /\ stage'[t] = stage[t]
  <2>1. CASE Close(t) \/ OpenFails(t)
    BY <1>2, <2>1, CloseReports, OpenFailsReports
  <2>2. CASE OpenForAppend(t) \/ LockEnd(t) \/ AppendRecord(t) \/ AppendFails(t)
             \/ UnlockEnd(t)
    BY <1>1, <1>2, <2>2
       DEF OpenForAppend, LockEnd, AppendRecord, AppendFails, UnlockEnd, Goto, local,
           Issued, Control, AppendPCs
  <2> QED
    BY <1>2, <2>1, <2>2, LookupReports DEF CreateStep
<1> QED
  BY <1>1, <1>3, <1>4, SameFileStep

\* What the others have reported, or will report, remains true.
LEMMA OthersReport ==
  ASSUME RepInv, NEW t \in Threads, Step(t), TypeInv', NEW u \in Threads \ {t}
  PROVE  Report(u)' /\ (Issued(u)' <=> Issued(u))
<1>1. /\ TypeInv /\ GrowInv /\ KernelOK /\ Report(u) /\ Control(t)
      /\ OpenFile(t) \in Files /\ Proc(t) \in Procs
      /\ OpenFile(u) \in Files /\ Proc(u) \in Procs
  BY Located DEF RepInv, GrowInv, TypeInv, TypeOK
<1>2. /\ pc'[u] = pc[u] /\ op'[u] = op[u] /\ stage'[u] = stage[u] /\ ret'[u] = ret[u]
  BY <1>1, OthersStandStill
<1>3. OpenFile(u)' = OpenFile(u) /\ (Issued(u)' <=> Issued(u))
      /\ (Decided(u)' <=> Decided(u))
  BY <1>2 DEF OpenFile, Issued, Decided
<1>4. /\ ctr'[Proc(u)][OpenFile(u)] >= ctr[Proc(u)][OpenFile(u)]
      /\ ctr'[Proc(u)][OpenFile(u)] \in Nat /\ ctr[Proc(u)][OpenFile(u)] \in Nat
  <2>1. CASE NewId(t)
    BY <1>1, <2>1 DEF NewId, NextId, KernelOK
  <2>2. CASE ~NewId(t)
    <3>1. ctr' = ctr
      BY <2>2
         DEF Step, BeginScan, ReadHit, ReadMiss, ReadInto, ReadEOF, EndScan,
             LockRecord, Overwrite, OverwriteFails, LockTail, ShiftRead, ShiftWrite,
             ShiftWriteFails, ShiftEOF, SeekLast, Truncate, EndWrite,
             OpenForAppend, LockEnd, AppendRecord, AppendFails, UnlockEnd, SeekSize,
             Close, OpenFails, disk
    <3> QED
      BY <1>1, <3>1 DEF KernelOK
  <2> QED
    BY <2>1, <2>2
<1>5. Issued(u) => (op[u].rec.id \in Ids(Contents(u)') <=> op[u].rec.id \in Ids(Contents(u)))
  <2>1. CASE AppendRecord(t) /\ OpenFile(u) = OpenFile(t)
    <3>1. Issued(t)
      BY <1>1, <2>1 DEF AppendRecord, Goto, Control, AppendPCs, Issued
    <3>2. Issued(u) => op[t].rec.id # op[u].rec.id
      BY <2>1, <3>1 DEF RepInv, Distinct
    <3>3. Ids(Contents(u)') = Ids(Contents(u)) \cup {op[t].rec.id}
      BY <1>1, <1>3, <2>1, IdsOfStep DEF Contents
    <3> QED
      BY <3>2, <3>3
  <2>2. CASE ~(AppendRecord(t) /\ OpenFile(u) = OpenFile(t))
    <3>1. Ids(Contents(u)') = Ids(Contents(u))
      BY <1>1, <1>3, <2>2, IdsOfStep DEF Contents
    <3> QED
      BY <3>1
  <2> QED
    BY <2>1, <2>2
<1>6. Undecided(u)'
  BY <1>1, <1>2 DEF Report, Undecided
<1>7. Issued(u) => op[u].rec.id \in Int
  <2>1. CallOK(u)
    BY <1>1 DEF TypeInv, TypeOK
  <2>2. op[u].rec \in RecOf(TableOf(op[u].fn)) /\ TableOf(op[u].fn) \in Files
    BY <2>1 DEF CallOK, OpOk, TableOf, Files
  <2> QED
    BY <2>2, RecIds
<1>8. Issued(u)' => 1 <= op'[u].rec.id /\ op'[u].rec.id <= ctr'[Proc(u)][OpenFile(u)']
  BY <1>1, <1>2, <1>3, <1>4, <1>7 DEF Report
<1>9. Decided(u)' => (ret'[u] = 0 <=> op'[u].rec.id \in Ids(Contents(u)'))
  <2> SUFFICES ASSUME Decided(u)
               PROVE  ret[u] = 0 <=> op[u].rec.id \in Ids(Contents(u)')
    BY <1>2, <1>3
  <2>1. Issued(u) /\ (ret[u] = 0 <=> op[u].rec.id \in Ids(Contents(u)))
    BY <1>1 DEF Report, Decided
  <2> QED
    BY <1>5, <2>1
<1>10. Report(u)'
  BY <1>6, <1>8, <1>9 DEF Report, Proc
<1> QED
  BY <1>3, <1>10

LEMMA StepReports ==
  ASSUME RepInv, NEW t \in Threads, Step(t), TypeInv' PROVE RepInv'
<1>1. /\ TypeInv /\ GrowInv /\ KernelOK /\ SingleProcess
      /\ \A u \in Threads : OpenFile(u) \in Files /\ Proc(u) \in Procs /\ CallOK(u)
  BY Located DEF RepInv, GrowInv, IInv, TypeInv, TypeOK
<1>2. IInv' /\ GrowInv'
  <2>1. IInv'
    BY <1>1, NextIds DEF RepInv, Next
  <2> QED
    BY <1>1, <2>1, StepGrows
<1>3. \A f \in Files : 0 \notin Ids(file'[f])
  <2> TAKE f \in Files
  <2>1. CASE AppendRecord(t) /\ f = OpenFile(t)
    <3>1. Appending(t) /\ InHandBounded(t)
      BY <1>1, <2>1
         DEF RepInv, IInv, IdInv, TypeInv, Control, AppendPCs, AppendRecord, Goto,
             Appending
    <3>2. op[t].rec.id # 0
      BY <3>1 DEF InHandBounded
    <3> QED
      BY <1>1, <2>1, <3>2, IdsOfStep DEF RepInv
  <2>2. CASE ~(AppendRecord(t) /\ f = OpenFile(t))
    BY <1>1, <2>2, IdsOfStep DEF RepInv
  <2> QED
    BY <2>1, <2>2
<1>4. \A u \in Threads : Report(u)'
  BY OwnReport, OthersReport
<1>5. Distinct'
  <2> SUFFICES ASSUME NEW u \in Threads, NEW v \in Threads, u # v, Issued(u)', Issued(v)',
                      OpenFile(u)' = OpenFile(v)', op'[u].rec.id = op'[v].rec.id
               PROVE  FALSE
    BY DEF Distinct
  <2>1. ASSUME NEW w \in Threads, Issued(w)', ~(NewId(t) /\ w = t)
        PROVE  Issued(w) /\ OpenFile(w)' = OpenFile(w) /\ op'[w] = op[w]
    <3>1. CASE w = t
      BY <2>1, <3>1, IssuedBefore
    <3>2. CASE w # t
      BY <1>1, <2>1, <3>2, OthersReport, OthersStandStill DEF OpenFile
    <3> QED
      BY <3>1, <3>2
  <2>2. ASSUME NewId(t), NEW w \in Threads \ {t}, Issued(w)', OpenFile(w)' = OpenFile(t)'
        PROVE  op'[w].rec.id # op'[t].rec.id
    <3>1. Issued(w) /\ OpenFile(w)' = OpenFile(w) /\ op'[w] = op[w] /\ Report(w)
      BY <2>1, <2>2 DEF RepInv
    <3>2. op'[t].fn = op[t].fn /\ stage' = stage /\ op[t].fn \in Creates
      BY <1>1, <2>2, SameFn DEF NewId, Goto, TypeInv, Control, AppendPCs
    <3>3. OpenFile(t)' = OpenFile(t) /\ Proc(w) = Proc(t)
      BY <1>1, <3>2 DEF OpenFile, SingleProcess
    <3>4. /\ op[w].rec.id <= ctr[Proc(t)][OpenFile(t)]
          /\ ctr[Proc(t)][OpenFile(t)] \in Nat
      BY <1>1, <2>2, <3>1, <3>3 DEF Report, KernelOK
    <3>5. op[t].rec \in RecOf(OpenFile(t))
      <4>1. stage[t] = 3
        BY <1>1, <2>2 DEF NewId, Goto, TypeInv, Control, AppendPCs
      <4>2. OpenFile(t) = TableOf(op[t].fn)
        BY <3>2, <4>1 DEF OpenFile, FileAt, Creates
      <4> QED
        BY <1>1, <4>2 DEF CallOK, OpOk
    <3>6. op'[t].rec = [op[t].rec EXCEPT !.id = ctr[Proc(t)][OpenFile(t)] + 1]
      BY <1>1, <2>2 DEF NewId, NextId, WithRec, TypeInv, TypeOK, ThreadsOK
    <3>7. op'[t].rec.id = ctr[Proc(t)][OpenFile(t)] + 1
      BY <1>1, <3>4, <3>5, <3>6, WithIdType
    <3>8. op[w].rec.id \in Int
      <4>1. op[w].rec \in RecOf(TableOf(op[w].fn)) /\ TableOf(op[w].fn) \in Files
        BY <1>1, <2>2 DEF CallOK, OpOk, TableOf, Files
      <4> QED
        BY <4>1, RecIds
    <3> QED
      BY <3>1, <3>4, <3>7, <3>8
  <2>3. CASE NewId(t) /\ (u = t \/ v = t)
    BY <2>2, <2>3
  <2>4. CASE ~(NewId(t) /\ (u = t \/ v = t))
    BY <2>1, <2>4 DEF RepInv, Distinct
  <2> QED
    BY <2>3, <2>4
<1> QED
  BY <1>1, <1>2, <1>3, <1>4, <1>5 DEF RepInv

\* A thread that stands still while no file and no counter changes.
LEMMA UntouchedReport ==
  ASSUME RepInv, NEW u \in Threads, UNCHANGED file,
         pc'[u] = pc[u], op'[u] = op[u], stage'[u] = stage[u], ret'[u] = ret[u],
         pc[u] # "idle" => ctr'[Proc(u)] = ctr[Proc(u)]
  PROVE  /\ Report(u)' /\ (Issued(u)' <=> Issued(u))
         /\ OpenFile(u)' = OpenFile(u)
<1>1. /\ Report(u) /\ OpenFile(u)' = OpenFile(u) /\ Contents(u)' = Contents(u)
      /\ (Issued(u)' <=> Issued(u)) /\ (Decided(u)' <=> Decided(u))
      /\ (Undecided(u)' <=> Undecided(u))
  BY DEF RepInv, OpenFile, Contents, Issued, Decided, Undecided
<1>2. Issued(u) => ctr'[Proc(u)] = ctr[Proc(u)]
  BY DEF Issued
<1> QED
  BY <1>1, <1>2 DEF Report, Proc

LEMMA InvokeReports ==
  ASSUME RepInv, NEW t \in Threads, NEW o, o.fn \in Creates => o.rec.id = 0,
         Invoke(t, o), IInv', GrowInv'
  PROVE  RepInv'
<1>1. TypeInv /\ ThreadsOK
  BY DEF RepInv, GrowInv, TypeInv, TypeOK
<1>3. /\ file' = file /\ ctr' = ctr
      /\ \A u \in Threads \ {t} : pc'[u] = pc[u] /\ op'[u] = op[u]
                                  /\ stage'[u] = stage[u] /\ ret'[u] = ret[u]
  BY <1>1 DEF Invoke, Begin, ThreadsOK, disk
<1>4. Report(t)' /\ ~Issued(t)'
  <2>1. /\ op'[t] = o /\ pc'[t] = FirstCall(o.fn) /\ stage'[t] = FirstStage(o.fn)
        /\ ret'[t] = 0 /\ (o.fn \in Creates => o.rec.id = 0)
    BY <1>1 DEF Invoke, Begin, ThreadsOK
  <2>2. Undecided(t)' /\ ~Issued(t)'
    BY <2>1 DEF Undecided, Issued, FirstCall, FirstStage, Creates, Counts
  <2> QED
    BY <2>2 DEF Report, Decided
<1>5. \A u \in Threads \ {t} :
         Report(u)' /\ (Issued(u)' <=> Issued(u)) /\ OpenFile(u)' = OpenFile(u)
  BY <1>3, UntouchedReport
<1>6. Distinct'
  BY <1>3, <1>4, <1>5 DEF RepInv, Distinct
<1> QED
  BY <1>3, <1>4, <1>5, <1>6 DEF RepInv

LEMMA CallReports ==
  ASSUME FreshCreates, RepInv, NEW t \in Threads, Call(t), IInv', GrowInv'
  PROVE  RepInv'
<1>1. PICK o \in Ops : Invoke(t, o)
  BY DEF Call
<1> QED
  BY <1>1, InvokeReports DEF FreshCreates

LEMMA QuietReports ==
  ASSUME RepInv, IInv', GrowInv', UNCHANGED <<file, pc, op, stage, ret>>,
         \A u \in Threads : pc[u] # "idle" => ctr'[Proc(u)] = ctr[Proc(u)]
  PROVE  RepInv'
<1>1. \A u \in Threads :
         Report(u)' /\ (Issued(u)' <=> Issued(u)) /\ OpenFile(u)' = OpenFile(u)
  BY UntouchedReport
<1>2. Distinct'
  BY <1>1 DEF RepInv, Distinct
<1> QED
  BY <1>1, <1>2 DEF RepInv

LEMMA InitCounterReports ==
  ASSUME RepInv, NEW p \in Procs, InitCounter(p), IInv', GrowInv' PROVE RepInv'
<1>1. TypeInv /\ KernelOK /\ \A u \in Threads : InHandBounded(u) /\ Proc(u) \in Procs
  BY Located DEF RepInv, GrowInv, IInv, IdInv, TypeInv, TypeOK
<1>2. boot[p] # "up" /\ \A q \in Procs \ {p} : ctr'[q] = ctr[q]
  BY <1>1 DEF InitCounter, KernelOK
<1>3. \A u \in Threads : pc[u] # "idle" => ctr'[Proc(u)] = ctr[Proc(u)]
  BY <1>1, <1>2 DEF InHandBounded
<1> QED
  BY <1>3, QuietReports DEF InitCounter, local

LEMMA CrashReports ==
  ASSUME RepInv, NEW p \in Procs, Crash(p), IInv', GrowInv' PROVE RepInv'
<1>1. TypeInv /\ KernelOK /\ \A u \in Threads : Proc(u) \in Procs
  BY Located DEF RepInv, GrowInv, TypeInv, TypeOK
<1>2. file' = file
  BY DEF Crash
<1>3. ASSUME NEW u \in Threads, Proc(u) = p PROVE Report(u)' /\ ~Issued(u)'
  <2>1. op'[u].fn \notin Creates
    BY <1>3 DEF Crash, NoOp, Creates
  <2> QED
    BY <2>1 DEF Report, Undecided, Issued, Decided
<1>4. ASSUME NEW u \in Threads, Proc(u) # p
      PROVE  Report(u)' /\ (Issued(u)' <=> Issued(u)) /\ OpenFile(u)' = OpenFile(u)
  <2>1. /\ pc'[u] = pc[u] /\ op'[u] = op[u] /\ stage'[u] = stage[u]
        /\ ret'[u] = ret[u] /\ ctr'[Proc(u)] = ctr[Proc(u)]
    BY <1>1, <1>4 DEF Crash, KernelOK
  <2> QED
    BY <1>2, <2>1, UntouchedReport
<1>5. Distinct'
  <2> SUFFICES ASSUME NEW u \in Threads, NEW v \in Threads, u # v, Issued(u)', Issued(v)',
                      OpenFile(u)' = OpenFile(v)'
               PROVE  op'[u].rec.id # op'[v].rec.id
    BY DEF Distinct
  <2>1. Proc(u) # p /\ Proc(v) # p
    BY <1>3
  <2>2. op'[u] = op[u] /\ op'[v] = op[v]
    BY <2>1 DEF Crash
  <2> QED
    BY <1>4, <2>1, <2>2 DEF RepInv, Distinct
<1> QED
  BY <1>2, <1>3, <1>4, <1>5 DEF RepInv

LEMMA InitReports == SingleProcess /\ NoHoles /\ Init => RepInv
<1> SUFFICES ASSUME SingleProcess, NoHoles, Init PROVE RepInv
  OBVIOUS
<1>1. \A t \in Threads : Report(t) /\ ~Issued(t)
  BY DEF Init, Report, Undecided, Issued, Decided, NoOp, Creates
<1>2. \A f \in Files : 0 \notin Ids(file[f])
  BY DEF Init, NoHoles
<1>3. IInv /\ GrowInv
  BY InitIds, InitGrows
<1> QED
  BY <1>1, <1>2, <1>3 DEF RepInv, Distinct

LEMMA NextReports ==
  /\ NoDeletes /\ FreshCreates /\ RepInv /\ [Next]_vars
  => NoDeletes' /\ FreshCreates' /\ RepInv'
<1> SUFFICES ASSUME NoDeletes, FreshCreates, RepInv, [Next]_vars PROVE RepInv'
  BY DEF NoDeletes, FreshCreates
<1>1. IInv' /\ GrowInv' /\ TypeInv'
  BY NextIds, NextGrows DEF RepInv, GrowInv
<1>2. ASSUME UNCHANGED vars PROVE RepInv'
  BY <1>1, <1>2, QuietReports DEF vars, disk, local
<1> QED
  BY <1>1, <1>2, StepReports, CallReports, InitCounterReports, CrashReports
     DEF Next, Finished

LEMMA RepInvReports == RepInv => StoredIffReported
<1> SUFFICES ASSUME RepInv, NEW t \in Threads, pc[t] = "done", op[t].fn \in Creates
             PROVE  ret[t] = 0 <=> op[t].rec.id \in Ids(Contents(t))
  BY DEF StoredIffReported
<1>1. Report(t) /\ stage[t] \in 1 .. 3 /\ OpenFile(t) \in Files
  BY Located DEF RepInv, GrowInv, TypeInv, TypeOK, ThreadsOK
<1>2. CASE stage[t] = 3
  BY <1>1, <1>2 DEF Report, Decided, Issued
<1>3. CASE stage[t] < 3
  <2>1. ret[t] # 0 /\ op[t].rec.id = 0
    BY <1>1, <1>3 DEF Report, Undecided
  <2>2. 0 \notin Ids(Contents(t))
    BY <1>1 DEF RepInv, Contents
  <2> QED
    BY <2>1, <2>2
<1> QED
  BY <1>1, <1>2, <1>3

\* When all threads run in one process and nobody deletes, a create that says
\* it succeeded has its record on file and one that says it failed has not,
\* whichever of its open() and write() calls failed and whoever else creates.
THEOREM ReportsAreTrue ==
  SingleProcess /\ NoDeletes /\ FreshCreates /\ NoHoles /\ Spec => []StoredIffReported
BY InitReports, NextReports, RepInvReports, PTL DEF Spec
=============================================================================
