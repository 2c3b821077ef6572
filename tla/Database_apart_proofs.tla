------------------------ MODULE Database_apart_proofs ------------------------
(***************************************************************************)
(* What the functions of lib/database.c do as long as those that are not   *)
(* atomic in company keep apart, whichever write() fails and wherever the  *)
(* process is killed: every record a delete writes over is the one to be   *)
(* deleted or one whose copy is already in place.                          *)
(***************************************************************************)
EXTENDS Database_growing_proofs, FiniteSetTheorems

Alone == \A t, u \in Threads : t = u

\* No id is in a file twice at the start.
NoDoubles == \A s \in InitFiles : \A f \in Files : Len(s[f]) = Cardinality(Ids(s[f]))

\* The scan of an update or a delete stands behind the record it is about.
AtTarget(t) ==
  LET found == /\ pc[t] \in {"unlock", "wlock", "write"} /\ iter[t] # NoRec
               /\ WritesInPlace(op[t].fn, stage[t])
  IN found => /\ cur[t] \in 1 .. Len(Contents(t))
              /\ Contents(t)[cur[t]].id = op[t].rec.id

\* Record i may go: it is the one to be deleted, or it is in front of itself too.
Spare(t, i) ==
  /\ i \in 1 .. Len(Contents(t))
  /\ IF i = from[t] THEN Contents(t)[i].id = op[t].rec.id
     ELSE /\ from[t] < i
          /\ i - 1 \in 1 .. Len(Contents(t)) /\ Contents(t)[i - 1].id = Contents(t)[i].id

SpareIsNext(t) ==
  /\ pc[t] = "shift" => Spare(t, cur[t])
  /\ pc[t] = "shiftw" => /\ cur[t] \in 1 .. Len(Contents(t))
                         /\ iter[t] = Contents(t)[cur[t]]
                         /\ Spare(t, cur[t] - 1)
  /\ pc[t] = "seekend" => cur[t] = Len(Contents(t)) /\ Spare(t, cur[t])
  /\ pc[t] = "trunc" => /\ cur[t] = Len(Contents(t)) - 1
                        /\ Spare(t, Len(Contents(t)))

Standing(t) == AtTarget(t) /\ SpareIsNext(t)

ApartInv == KeptApart /\ IInv /\ \A t \in Threads : Sees(t) /\ Standing(t)

\* At least one record has been copied down, and the last one is not cut off yet.
Copied(t) ==
  \/ pc[t] = "shift" /\ cur[t] # from[t]
  \/ pc[t] = "shiftw" /\ cur[t] - 1 # from[t]
  \/ pc[t] \in {"seekend", "trunc"} /\ Len(Contents(t)) # from[t]

DoubleInv ==
  /\ ApartInv
  /\ Doubles("user") + Doubles("account")
       <= crashes + (IF \E t \in Threads : Copied(t) THEN 1 ELSE 0)

(***************************************************************************)
(* Where a delete stands.                                                  *)
(***************************************************************************)

\* What an update or a delete looks for is an id.
LEMMA LooksForId ==
  ASSUME NEW o, NEW s, NEW r, WritesInPlace(o.fn, s), Matches(o, s, r)
  PROVE  r.id = o.rec.id /\ o.fn \notin Bulk
BY DEF WritesInPlace, Matches, Updates, Bulk

LEMMA NotBulk ==
  ASSUME NEW fn, NEW s, WritesInPlace(fn, s) PROVE fn \notin Bulk
BY DEF WritesInPlace, Updates, Bulk

LEMMA ScanAlone ==
  ASSUME IInv, NEW t \in Threads, Standing(t), Scanning(t)
  PROVE  AtTarget(t)' /\ SpareIsNext(t)' /\ ~Shifting(t)' /\ ~Shifting(t)
<1>1. TypeInv /\ ThreadsOK /\ Control(t) /\ AtTarget(t)
  BY DEF Standing, IInv, TypeInv, TypeOK
<1>2. /\ op'[t].fn = op[t].fn /\ stage'[t] = stage[t]
      /\ Contents(t)' = Contents(t) /\ Len(Contents(t)) \in Nat
      /\ ~LockRecord(t) => op'[t] = op[t]
  BY <1>1, ScanSameFile, FileSeq
<1>3. /\ pc'[t] \in {"scan", "unlock", "wlock", "write", "close"}
      /\ pc[t] \in {"lock", "scan", "unlock", "wlock"}
  BY <1>1 DEF Scanning, BeginScan, ReadHit, ReadMiss, ReadInto, ReadEOF, EndScan,
              LockRecord, Goto, ThreadsOK
<1>4. SpareIsNext(t)' /\ ~Shifting(t)' /\ ~Shifting(t)
  BY <1>3 DEF SpareIsNext, Shifting
<1>5. CASE ReadHit(t)
  <2>1. /\ cur'[t] = cur[t] + 1 /\ cur[t] \in Int /\ cur[t] < Len(Contents(t))
        /\ cur[t] >= 0 /\ op'[t] = op[t]
        /\ Matches(op[t], stage[t], Contents(t)[cur[t] + 1])
    BY <1>1, <1>2, <1>5 DEF ReadHit, LockRecord, Goto, ThreadsOK, Control
  <2>2. cur'[t] \in 1 .. Len(Contents(t))
    BY <1>2, <2>1
  <2> QED
    BY <1>2, <1>4, <2>1, <2>2, LooksForId DEF AtTarget
<1>6. CASE ReadInto(t)
  <2>1. op[t].fn \in Bulk
    BY <1>6 DEF ReadInto
  <2> QED
    BY <1>2, <1>4, <2>1, NotBulk DEF AtTarget
<1>7. CASE LockRecord(t)
  <2>1. /\ op'[t].rec.id = op[t].rec.id /\ cur'[t] = cur[t] /\ iter'[t] = iter[t]
        /\ pc[t] = "wlock"
    BY <1>1, <1>7 DEF LockRecord, WithRec, KeepNames, ThreadsOK, Goto
  <2> QED
    BY <1>1, <1>2, <1>4, <2>1 DEF AtTarget
<1>8. CASE EndScan(t)
  <2>1. op'[t] = op[t] /\ cur'[t] = cur[t] /\ iter'[t] = iter[t] /\ pc[t] = "unlock"
    BY <1>1, <1>2, <1>8 DEF EndScan, LockRecord, ThreadsOK, Goto
  <2> QED
    BY <1>1, <1>2, <1>4, <2>1 DEF AtTarget
<1>9. CASE BeginScan(t) \/ ReadMiss(t) \/ ReadEOF(t)
  <2>1. pc'[t] = "scan" \/ iter'[t] = NoRec
    BY <1>1, <1>9 DEF BeginScan, ReadMiss, ReadEOF, Goto, ThreadsOK, Control, local
  <2> QED
    BY <1>4, <2>1 DEF AtTarget
<1> QED
  BY <1>4, <1>5, <1>6, <1>7, <1>8, <1>9 DEF Scanning

\* The steps of a delete that write nothing.
ShiftStep(t) ==
  \/ LockTail(t) \/ ShiftRead(t) \/ ShiftWriteFails(t) \/ ShiftEOF(t) \/ SeekLast(t)

LEMMA ShiftAlone ==
  ASSUME IInv, NEW t \in Threads, Standing(t), ShiftStep(t)
  PROVE  AtTarget(t)' /\ SpareIsNext(t)' /\ (Copied(t)' <=> Copied(t))
<1>1. TypeInv /\ ThreadsOK /\ AtTarget(t) /\ SpareIsNext(t) /\ Control(t)
  BY DEF Standing, IInv, TypeInv, TypeOK
<1>2. /\ op' = op /\ stage' = stage /\ file' = file
      /\ Contents(t)' = Contents(t) /\ Len(Contents(t)) \in Nat
      /\ cur[t] \in Int /\ from[t] \in Nat
      /\ ~LockTail(t) => from' = from
  BY <1>1, FileSeq
     DEF ShiftStep, LockTail, ShiftRead, ShiftWriteFails, ShiftEOF, SeekLast, disk,
         local, Contents, OpenFile, ThreadsOK
<1>3. \A i \in Int : from'[t] = from[t] => (Spare(t, i)' <=> Spare(t, i))
  BY <1>2 DEF Spare
<1>4. CASE LockTail(t)
  <2>1. /\ pc[t] = "wlock" /\ pc'[t] = "shift" /\ from'[t] = cur[t] /\ cur'[t] = cur[t]
        /\ iter[t] # NoRec /\ WritesInPlace(op[t].fn, stage[t])
    BY <1>1, <1>4 DEF LockTail, Goto, ThreadsOK, Control
  <2>2. cur[t] \in 1 .. Len(Contents(t)) /\ Contents(t)[cur[t]].id = op[t].rec.id
    BY <1>1, <2>1 DEF AtTarget
  <2>3. Spare(t, cur[t])'
    BY <1>2, <2>1, <2>2 DEF Spare
  <2>4. AtTarget(t)' /\ SpareIsNext(t)'
    BY <2>1, <2>3 DEF AtTarget, SpareIsNext, Spare
  <2>5. ~Copied(t)' /\ ~Copied(t)
    BY <2>1 DEF Copied
  <2> QED
    BY <2>4, <2>5
<1>5. CASE ShiftRead(t)
  <2>1. /\ pc[t] = "shift" /\ pc'[t] = "shiftw" /\ from' = from
        /\ cur'[t] = cur[t] + 1 /\ cur[t] < Len(Contents(t))
        /\ iter'[t] = Contents(t)[cur[t] + 1]
    BY <1>1, <1>5 DEF ShiftRead, Goto, ThreadsOK
  <2>2. Spare(t, cur[t]) /\ cur'[t] - 1 = cur[t]
    BY <1>1, <1>2, <2>1 DEF SpareIsNext
  <2>3. cur'[t] \in 1 .. Len(Contents(t))
    BY <1>2, <2>1, <2>2 DEF Spare
  <2>4. AtTarget(t)' /\ SpareIsNext(t)'
    BY <1>2, <2>1, <2>2, <2>3 DEF AtTarget, SpareIsNext, Spare
  <2>5. Copied(t)' <=> Copied(t)
    BY <2>1, <2>2 DEF Copied
  <2> QED
    BY <2>4, <2>5
<1>6. CASE ShiftWriteFails(t)
  <2>1. /\ pc[t] = "shiftw" /\ pc'[t] = "shift" /\ from' = from
        /\ cur'[t] = cur[t] - 1
    BY <1>1, <1>6 DEF ShiftWriteFails, Goto, ThreadsOK
  <2>2. Spare(t, cur[t] - 1)
    BY <1>1, <2>1 DEF SpareIsNext
  <2>3. AtTarget(t)' /\ SpareIsNext(t)'
    BY <1>2, <2>1, <2>2 DEF AtTarget, SpareIsNext, Spare
  <2>4. Copied(t)' <=> Copied(t)
    BY <2>1 DEF Copied
  <2> QED
    BY <2>3, <2>4
<1>7. CASE ShiftEOF(t)
  <2>1. /\ pc[t] = "shift" /\ pc'[t] = "seekend" /\ from' = from
        /\ cur'[t] = cur[t] /\ cur[t] >= Len(Contents(t))
    BY <1>1, <1>7 DEF ShiftEOF, Goto, ThreadsOK, local
  <2>2. Spare(t, cur[t]) /\ cur[t] = Len(Contents(t))
    BY <1>1, <1>2, <2>1 DEF SpareIsNext, Spare
  <2>3. AtTarget(t)' /\ SpareIsNext(t)'
    BY <1>2, <2>1, <2>2 DEF AtTarget, SpareIsNext, Spare
  <2>4. Copied(t)' <=> Copied(t)
    BY <1>2, <2>1, <2>2 DEF Copied
  <2> QED
    BY <2>3, <2>4
<1>8. CASE SeekLast(t)
  <2>1. /\ pc[t] = "seekend" /\ pc'[t] = "trunc" /\ from' = from
        /\ cur'[t] = Len(Contents(t)) - 1
    BY <1>1, <1>8 DEF SeekLast, Goto, ThreadsOK
  <2>2. Spare(t, Len(Contents(t)))
    BY <1>1, <2>1 DEF SpareIsNext
  <2>3. AtTarget(t)' /\ SpareIsNext(t)'
    BY <1>2, <2>1, <2>2 DEF AtTarget, SpareIsNext, Spare
  <2>4. Copied(t)' <=> Copied(t)
    BY <1>2, <2>1 DEF Copied
  <2> QED
    BY <2>3, <2>4
<1> QED
  BY <1>4, <1>5, <1>6, <1>7, <1>8 DEF ShiftStep

(***************************************************************************)
(* The three writes, record by record.                                     *)
(***************************************************************************)

\* A sequence of records that holds the ids of another.
LEMMA IdsKept ==
  ASSUME NEW a, NEW b, \A i \in DOMAIN a : \E j \in DOMAIN b : b[j].id = a[i].id
  PROVE  Ids(a) \subseteq Ids(b)
BY DEF Ids

\* The positions of what a write() within a file leaves.
LEMMA WriteAtDomain ==
  ASSUME NEW f \in Files, NEW s \in Seq(RecOf(f)), NEW p \in Int, 0 <= p, p < Len(s),
         NEW r \in RecOf(f)
  PROVE  DOMAIN WriteAt(s, p, r, ZeroRec(f)) = 1 .. Len(s)
BY DEF WriteAt

LEMMA OverwriteAlone ==
  ASSUME IInv, NEW t \in Threads, Standing(t), Overwrite(t), NEW f \in Files
  PROVE  Ids(file'[f]) = Ids(file[f]) /\ Len(file'[f]) = Len(file[f])
<1>1. /\ TypeInv /\ FilesOK /\ ThreadsOK /\ CallOK(t) /\ Control(t) /\ AtTarget(t)
      /\ OpenFile(t) \in Files /\ file[f] \in Seq(RecOf(f)) /\ Len(file[f]) \in Nat
  BY Located DEF Standing, IInv, TypeInv, TypeOK, FilesOK
<1>2. CASE f # OpenFile(t)
  BY <1>1, <1>2 DEF Overwrite, SetFile, FilesOK
<1>3. CASE f = OpenFile(t)
  <2>1. /\ pc[t] = "write" /\ op[t].fn \in Updates /\ iter[t] # NoRec
        /\ WritesInPlace(op[t].fn, stage[t])
    BY <1>1 DEF Overwrite, Goto, Control
  <2>2. cur[t] \in 1 .. Len(file[f]) /\ file[f][cur[t]].id = op[t].rec.id
    BY <1>1, <1>3, <2>1 DEF AtTarget, Contents
  <2>3. op[t].rec \in RecOf(f) /\ cur[t] - 1 \in Int /\ cur[t] - 1 < Len(file[f])
        /\ 0 <= cur[t] - 1 /\ (cur[t] - 1) + 1 = cur[t]
    <3>1. f = TableOf(op[t].fn)
      BY <1>3, <2>1 DEF OpenFile, FileAt, Updates
    <3>2. op[t].rec \in RecOf(f)
      BY <1>1, <3>1 DEF CallOK, OpOk
    <3> QED
      BY <1>1, <2>2, <3>2
  <2>4. file'[f] = WriteAt(file[f], cur[t] - 1, op[t].rec, ZeroRec(f))
    BY <1>1, <1>3 DEF Overwrite, SetFile, Position, Contents, FilesOK
  <2>5. /\ Len(file'[f]) = Len(file[f])
        /\ \A i \in 1 .. Len(file[f]) :
             file'[f][i] = IF i = cur[t] THEN op[t].rec ELSE file[f][i]
    BY <1>1, <2>3, <2>4, WriteAtStays
  <2>6. DOMAIN file'[f] = 1 .. Len(file[f])
    BY <1>1, <2>3, <2>4, WriteAtDomain
  <2>7. DOMAIN file'[f] = DOMAIN file[f] /\ DOMAIN file[f] = 1 .. Len(file[f])
    BY <1>1, <2>6
  <2>8. \A i \in DOMAIN file[f] : file'[f][i].id = file[f][i].id
    BY <2>2, <2>5, <2>7
  <2>9. Ids(file'[f]) = Ids(file[f])
    BY <2>7, <2>8 DEF Ids
  <2> QED
    BY <2>5, <2>9
<1> QED
  BY <1>2, <1>3

\* A record is copied over a spare one, and is spare itself from then on.
LEMMA ShiftWriteAlone ==
  ASSUME IInv, NEW t \in Threads, Standing(t), ShiftWrite(t)
  PROVE  LET f == OpenFile(t)
         IN  /\ Len(file'[f]) = Len(file[f])
             /\ Ids(file[f]) \ {op[t].rec.id} \subseteq Ids(file'[f])
             /\ Copied(t) => Ids(file[f]) \subseteq Ids(file'[f])
             /\ SpareIsNext(t)' /\ AtTarget(t)'
<1> DEFINE f == OpenFile(t)
           s == file[f]
           c == cur[t]
<1>1. /\ TypeInv /\ FilesOK /\ ThreadsOK /\ SpareIsNext(t)
      /\ f \in Files /\ s \in Seq(RecOf(f)) /\ Len(s) \in Nat
      /\ Contents(t) = s /\ c \in Int /\ from[t] \in Nat
  BY Located DEF Standing, IInv, TypeInv, TypeOK, FilesOK, Contents, ThreadsOK
<1>2. /\ pc[t] = "shiftw" /\ pc'[t] = "shift" /\ cur'[t] = c
      /\ op' = op /\ stage' = stage /\ from' = from
  BY <1>1 DEF ShiftWrite, AfterShift, Goto, ThreadsOK
<1>3. /\ c \in 1 .. Len(s) /\ iter[t] = s[c] /\ Spare(t, c - 1) /\ c - 1 \in 1 .. Len(s)
  BY <1>1, <1>2 DEF SpareIsNext, Spare
<1>4. file'[f] = WriteAt(s, c - 2, s[c], ZeroRec(f))
  BY <1>1, <1>3 DEF ShiftWrite, SetFile, ShiftTarget, Contents, FilesOK
<1>5. OpenFile(t)' = f /\ Contents(t)' = file'[f]
  BY <1>2 DEF OpenFile, Contents
<1> HIDE DEF f, s, c
<1>7. /\ Len(file'[f]) = Len(s)
      /\ \A i \in 1 .. Len(s) : file'[f][i] = IF i = c - 1 THEN s[c] ELSE s[i]
  <2>1. /\ s[c] \in RecOf(f) /\ c - 2 \in Int /\ 0 <= c - 2 /\ c - 2 < Len(s)
        /\ (c - 2) + 1 = c - 1
    BY <1>1, <1>3
  <2> QED
    BY <1>1, <1>4, <2>1, WriteAtStays
<1>9. DOMAIN s = 1 .. Len(s) /\ DOMAIN file'[f] = 1 .. Len(s)
  <2>1. s[c] \in RecOf(f) /\ c - 2 \in Int /\ 0 <= c - 2 /\ c - 2 < Len(s)
    BY <1>1, <1>3
  <2> QED
    BY <1>1, <1>4, <2>1, WriteAtDomain
<1>10. \A i \in 1 .. Len(s) : i # c - 1 => s[i].id \in Ids(file'[f])
  BY <1>7, <1>9 DEF Ids
<1>11. s[c - 1].id = op[t].rec.id \/ s[c - 1].id \in Ids(file'[f])
  <2>1. CASE c - 1 = from[t]
    BY <1>1, <1>3, <2>1 DEF Spare
  <2>2. CASE c - 1 # from[t]
    <3>1. (c - 1) - 1 \in 1 .. Len(s) /\ s[(c - 1) - 1].id = s[c - 1].id
      BY <1>1, <1>3, <2>2 DEF Spare
    <3>2. (c - 1) - 1 # c - 1
      BY <1>1
    <3> QED
      BY <1>10, <3>1, <3>2
  <2> QED
    BY <2>1, <2>2
<1>12. Ids(s) \ {op[t].rec.id} \subseteq Ids(file'[f])
  BY <1>9, <1>10, <1>11 DEF Ids
<1>13. ASSUME Copied(t) PROVE Ids(s) \subseteq Ids(file'[f])
  <2>1. c - 1 # from[t]
    BY <1>2, <1>13 DEF Copied, c
  <2>2. (c - 1) - 1 \in 1 .. Len(s) /\ s[(c - 1) - 1].id = s[c - 1].id
    BY <1>1, <1>3, <2>1 DEF Spare
  <2>3. (c - 1) - 1 # c - 1
    BY <1>1
  <2>4. s[c - 1].id \in Ids(file'[f])
    BY <1>10, <2>2, <2>3
  <2> QED
    BY <1>9, <1>10, <2>4 DEF Ids
<1>14. SpareIsNext(t)' /\ AtTarget(t)'
  <2>1. /\ c \in 1 .. Len(file'[f]) /\ c - 1 \in 1 .. Len(file'[f]) /\ c # c - 1
    BY <1>1, <1>3, <1>7
  <2>2. file'[f][c - 1].id = file'[f][c].id
    BY <1>3, <1>7, <2>1
  <2>3. from[t] < c
    BY <1>1, <1>3 DEF Spare
  <2> QED
    BY <1>2, <1>5, <2>1, <2>2, <2>3 DEF SpareIsNext, AtTarget, Spare
<1> QED
  BY <1>7, <1>12, <1>13, <1>14 DEF f, s

\* The last record is cut off, and it is spare.
LEMMA TruncateAlone ==
  ASSUME IInv, NEW t \in Threads, Standing(t), Truncate(t)
  PROVE  LET f == OpenFile(t)
         IN  /\ Len(file'[f]) = Len(file[f]) - 1
             /\ Ids(file[f]) \ {op[t].rec.id} \subseteq Ids(file'[f])
             /\ Copied(t) => Ids(file[f]) \subseteq Ids(file'[f])
<1> DEFINE f == OpenFile(t)
           s == file[f]
           n == Len(s)
<1>1. /\ TypeInv /\ FilesOK /\ SpareIsNext(t)
      /\ f \in Files /\ s \in Seq(RecOf(f)) /\ n \in Nat /\ Contents(t) = s
  BY Located DEF Standing, IInv, TypeInv, TypeOK, FilesOK, Contents
<1>2. pc[t] = "trunc" /\ cur[t] = n - 1 /\ Spare(t, n) /\ n \in 1 .. n
  BY <1>1 DEF Truncate, Goto, SpareIsNext, Spare
<1>3. file'[f] = [i \in 1 .. n - 1 |-> IF i <= n THEN s[i] ELSE ZeroRec(f)]
  <2>1. cur[t] >= 0
    BY <1>2
  <2> QED
    BY <1>1, <1>2, <2>1 DEF Truncate, SetFile, Cut, Resize, Contents, FilesOK
<1>4. Copied(t) <=> n # from[t]
  BY <1>1, <1>2 DEF Copied
<1>5. n = from[t] => s[n].id = op[t].rec.id
  BY <1>1, <1>2 DEF Spare
<1>6. n # from[t] => n - 1 \in 1 .. n - 1 /\ s[n - 1].id = s[n].id
  BY <1>1, <1>2 DEF Spare
<1>7. DOMAIN s = 1 .. n
  BY <1>1
<1> HIDE DEF f, s, n
<1>8. Len(file'[f]) = n - 1 /\ DOMAIN file'[f] = 1 .. n - 1
  BY <1>1, <1>2, <1>3
<1>9. \A i \in 1 .. n - 1 : file'[f][i] = s[i]
  BY <1>1, <1>3
<1>10. \A i \in 1 .. n : i # n => s[i].id \in Ids(file'[f])
  <2> SUFFICES ASSUME NEW i \in 1 .. n, i # n PROVE s[i].id \in Ids(file'[f])
    OBVIOUS
  <2>1. i \in 1 .. n - 1
    BY <1>1
  <2> QED
    BY <1>8, <1>9, <2>1 DEF Ids
<1>11. n # from[t] => s[n].id \in Ids(file'[f])
  BY <1>6, <1>8, <1>9 DEF Ids
<1>12. Copied(t) => Ids(s) \subseteq Ids(file'[f])
  BY <1>4, <1>7, <1>10, <1>11 DEF Ids
<1>13. Ids(s) \ {op[t].rec.id} \subseteq Ids(file'[f])
  BY <1>5, <1>7, <1>10, <1>11 DEF Ids
<1> QED
  BY <1>8, <1>12, <1>13 DEF f, s, n

LEMMA AppendAlone ==
  ASSUME IInv, NEW t \in Threads, Standing(t), AppendRecord(t)
  PROVE  LET f == OpenFile(t)
         IN  /\ Len(file'[f]) = Len(file[f]) + 1
             /\ Ids(file'[f]) = Ids(file[f]) \cup {op[t].rec.id}
             /\ op[t].rec.id \notin Ids(file[f])
<1> DEFINE f == OpenFile(t)
<1>1. /\ TypeInv /\ FilesOK /\ Control(t) /\ Unused(t)
      /\ f \in Files /\ file[f] \in Seq(RecOf(f)) /\ Contents(t) = file[f]
  BY Located DEF Standing, IInv, IdInv, TypeInv, TypeOK, FilesOK, Contents
<1>2. file'[f] = Append(file[f], op[t].rec)
  BY <1>1 DEF AppendRecord, Appended, SetFile, FilesOK
<1>3. Appending(t)
  BY <1>1 DEF AppendRecord, Goto, Control, AppendPCs, Appending
<1>4. op[t].rec.id \notin Ids(file[f])
  BY <1>1, <1>3 DEF Unused, Ids, Range
<1> HIDE DEF f
<1>5. /\ DOMAIN file'[f] = DOMAIN file[f] \cup {Len(file[f]) + 1}
      /\ \A i \in DOMAIN file[f] : file'[f][i] = file[f][i]
      /\ file'[f][Len(file[f]) + 1] = op[t].rec
      /\ Len(file'[f]) = Len(file[f]) + 1
  BY <1>1, <1>2
<1>6. Ids(file'[f]) = Ids(file[f]) \cup {op[t].rec.id}
  BY <1>5 DEF Ids
<1> QED
  BY <1>4, <1>5, <1>6 DEF f

\* A write changes the file that is open, no other.
LEMMA OtherFiles ==
  ASSUME TypeInv, NEW t \in Threads, NEW f \in Files \ {OpenFile(t)},
         Overwrite(t) \/ ShiftWrite(t) \/ Truncate(t) \/ AppendRecord(t)
  PROVE  file'[f] = file[f]
<1>1. DOMAIN file = Files
  BY DEF TypeInv, TypeOK, FilesOK
<1> QED
  BY <1>1 DEF Overwrite, ShiftWrite, Truncate, AppendRecord, SetFile

\* What a delete shifts is the file of its own records.
LEMMA DeletesOpen ==
  ASSUME TypeInv, NEW t \in Threads, Shifting(t)
  PROVE  op[t].fn \in Deletes /\ OpenFile(t) = TableOf(op[t].fn)
BY DEF TypeInv, Control, WritesInPlace, Deletes, Updates, OpenFile, FileAt, TableOf, UserFns

(***************************************************************************)
(* The invariant is inductive.                                             *)
(***************************************************************************)

\* The steps that are none of a scan, an update or a delete.
LEMMA ElsewhereAlone ==
  ASSUME IInv, NEW t \in Threads, Standing(t), Step(t),
         ~Scanning(t), ~ShiftStep(t), ~ShiftWrite(t)
  PROVE  /\ pc'[t] \notin {"scan", "unlock", "wlock", "write"} /\ ~Shifting(t)'
         /\ ~Truncate(t) => ~Shifting(t)
<1>1. TypeInv /\ ThreadsOK
  BY DEF Standing, IInv, TypeInv, TypeOK
<1>2. ~Shifting(t)'
  BY <1>1
     DEF ThreadsOK, Goto, Step, Scanning, ShiftStep, Overwrite, OverwriteFails,
         Truncate, EndWrite, NewId, OpenForAppend, LockEnd, AppendRecord,
         AppendFails, UnlockEnd, SeekSize, Close, OpenFails, StageCall, Shifting
<1>3. ~Truncate(t) => ~Shifting(t)
  BY <1>1
     DEF ThreadsOK, Goto, Step, Scanning, ShiftStep, Overwrite, OverwriteFails,
         EndWrite, NewId, OpenForAppend, LockEnd, AppendRecord,
         AppendFails, UnlockEnd, SeekSize, Close, OpenFails, Shifting
<1> QED
  BY <1>1, <1>2, <1>3, LaterSteps

LEMMA AtRest ==
  ASSUME NEW t \in Threads,
         pc[t] \notin {"scan", "unlock", "wlock", "write"}, ~Shifting(t)
  PROVE  AtTarget(t) /\ SpareIsNext(t) /\ ~Copied(t)
BY DEF AtTarget, SpareIsNext, Copied, Shifting

LEMMA StepAlone ==
  ASSUME IInv, NEW t \in Threads, Standing(t), Step(t) PROVE AtTarget(t)' /\ SpareIsNext(t)'
<1>1. CASE ~Scanning(t) /\ ~ShiftStep(t) /\ ~ShiftWrite(t)
  <2>1. pc'[t] \notin {"scan", "unlock", "wlock", "write"} /\ ~Shifting(t)'
    BY <1>1, ElsewhereAlone
  <2> QED
    BY <2>1 DEF AtTarget, SpareIsNext, Shifting
<1> QED
  BY <1>1, ScanAlone, ShiftAlone, ShiftWriteAlone

(***************************************************************************)
(* Threads that keep apart.                                                *)
(***************************************************************************)

LEMMA StepIsCalling ==
  ASSUME NEW t \in Threads, Step(t) PROVE Calling(t)
BY DEF Calling, Step, BeginScan, ReadHit, ReadMiss, ReadInto, ReadEOF, EndScan,
       LockRecord, Overwrite, OverwriteFails, LockTail, ShiftRead, ShiftWrite,
       ShiftWriteFails, ShiftEOF, SeekLast, Truncate, EndWrite, NewId,
       OpenForAppend, LockEnd, AppendRecord, AppendFails, UnlockEnd, SeekSize,
       Close, OpenFails, Goto

\* While a call is under way no other thread shifts a file, and those that are
\* under way too call what is atomic in company, as this one does.
LEMMA Company ==
  ASSUME KeptApart, TypeInv, NEW t \in Threads, Calling(t), NEW u \in Threads \ {t}
  PROVE  /\ ~Shifting(u)
         /\ Calling(u) => op[t].fn \in AtomicFns /\ op[u].fn \in AtomicFns
<1>1. Calling(u) => op[t].fn \in AtomicFns /\ op[u].fn \in AtomicFns
  BY DEF KeptApart
<1>2. Shifting(u) => Calling(u) /\ op[u].fn \in Deletes
  BY DEF TypeInv, Control, Shifting, Calling
<1>3. AtomicFns \cap Deletes = {}
  BY DEF AtomicFns, TransFns, Updates, Gets, Counts, Deletes
<1> QED
  BY <1>1, <1>2, <1>3

LEMMA AtomicKeeps ==
  ASSUME NEW fn \in AtomicFns PROVE fn \notin Deletes
BY DEF AtomicFns, TransFns, Updates, Gets, Counts, Deletes

\* What a thread that stands still knows of a file that is not written.
LEMMA SameKnowledge ==
  ASSUME NEW u \in Threads, Sees(u), Standing(u), file' = file,
         pc'[u] = pc[u], op'[u] = op[u], stage'[u] = stage[u],
         cur'[u] = cur[u], iter'[u] = iter[u], from'[u] = from[u]
  PROVE  Sees(u)' /\ Standing(u)'
BY DEF Sees, FoundIsKept, Found, Passed, Standing, AtTarget, SpareIsNext, Spare,
       Contents, OpenFile

\* A thread between two calls knows nothing it could be wrong about.
LEMMA NothingKnown ==
  ASSUME NEW u \in Threads, pc[u] \in {"idle", "done", "lock", "newid", "size"}
  PROVE  Sees(u) /\ Standing(u)
BY DEF Sees, FoundIsKept, Found, Passed, Standing, AtTarget, SpareIsNext

\* A step leaves what the others know true: either they are between two calls,
\* or it moves no record and changes none of those they look for.
LEMMA OthersKnow ==
  ASSUME ApartInv, TypeInv', NEW t \in Threads, Step(t), NEW u \in Threads \ {t}
  PROVE  Sees(u)' /\ Standing(u)'
<1>1. /\ TypeInv /\ KeptApart /\ Calling(t) /\ Sees(t) /\ Sees(u) /\ Standing(u)
      /\ pc'[u] = pc[u] /\ op'[u] = op[u] /\ stage'[u] = stage[u]
      /\ cur'[u] = cur[u] /\ iter'[u] = iter[u]
  BY StepIsCalling, OthersStandStill DEF ApartInv, IInv
<1>2. CASE ~Calling(u)
  <2>1. pc'[u] \in {"idle", "done"}
    BY <1>1, <1>2 DEF Calling
  <2> QED
    BY <2>1 DEF Sees, FoundIsKept, Found, Passed, Standing, AtTarget, SpareIsNext
<1>3. CASE Calling(u)
  <2>1. op[t].fn \notin Deletes /\ op[u].fn \notin Deletes /\ ~Shifting(u)
    BY <1>1, <1>3, Company, AtomicKeeps
  <2>2. Stays /\ Growing(u)
    BY <1>1, <2>1, StepStays DEF Growing
  <2>3. Sees(u)'
    BY <1>1, <2>2, StandsStill DEF Growing
  <2>4. SpareIsNext(u)'
    BY <1>1, <2>1 DEF SpareIsNext, Shifting
  <2>5. AtTarget(u)'
    <3> SUFFICES ASSUME pc[u] \in {"unlock", "wlock", "write"}, iter[u] # NoRec,
                        WritesInPlace(op[u].fn, stage[u])
                 PROVE  /\ cur[u] \in 1 .. Len(Contents(u)')
                        /\ Contents(u)'[cur[u]].id = op[u].rec.id
      BY <1>1 DEF AtTarget
    <3>1. cur[u] \in 1 .. Len(Contents(u)) /\ Contents(u)[cur[u]].id = op[u].rec.id
      BY <1>1 DEF Standing, AtTarget
    <3>2. OpenFile(u)' = OpenFile(u) /\ OpenFile(u) \in Files
      BY <1>1, Located DEF OpenFile
    <3> QED
      BY <2>2, <3>1, <3>2 DEF Stays, SameIdentity, Contents
  <2> QED
    BY <2>3, <2>4, <2>5 DEF Standing
<1> QED
  BY <1>2, <1>3

LEMMA NextApart == ApartInv /\ [Next /\ KeptApart']_vars => ApartInv'
<1> SUFFICES ASSUME ApartInv, [Next /\ KeptApart']_vars PROVE ApartInv'
  OBVIOUS
<1>1. IInv' /\ KeptApart' /\ TypeInv' /\ TypeInv /\ ThreadsOK
  <2>1. [Next]_vars /\ IInv /\ TypeInv /\ ThreadsOK
    BY DEF ApartInv, IInv, TypeInv, TypeOK
  <2>2. KeptApart'
    <3>1. CASE KeptApart'
      BY <3>1
    <3>2. CASE UNCHANGED vars
      BY <3>2 DEF ApartInv, KeptApart, Calling, vars, local
    <3> QED
      BY <3>1, <3>2
  <2> QED
    BY <2>1, <2>2, NextIds DEF IInv
<1>2. ASSUME NEW t \in Threads, Step(t) PROVE \A u \in Threads : Sees(u)' /\ Standing(u)'
  <2>1. Sees(t)' /\ Standing(t)'
    BY <1>1, <1>2, StepSees, StepAlone DEF ApartInv, Standing
  <2> QED
    BY <1>1, <1>2, <2>1, OthersKnow
<1>3. ASSUME NEW t \in Threads, Call(t) PROVE \A u \in Threads : Sees(u)' /\ Standing(u)'
  <2>1. PICK o \in Ops : Invoke(t, o)
    BY <1>3 DEF Call
  <2>2. pc'[t] \in {"newid", "size", "lock"} /\ file' = file
    BY <1>1, <2>1 DEF Invoke, Begin, FirstCall, ThreadsOK, disk
  <2>3. Sees(t)' /\ Standing(t)'
    BY <2>2 DEF Sees, FoundIsKept, Found, Passed, Standing, AtTarget, SpareIsNext
  <2>4. \A u \in Threads \ {t} :
           /\ pc'[u] = pc[u] /\ op'[u] = op[u] /\ stage'[u] = stage[u]
           /\ cur'[u] = cur[u] /\ iter'[u] = iter[u] /\ from'[u] = from[u]
    BY <1>1, <2>1 DEF Invoke, Begin, ThreadsOK
  <2> QED
    BY <2>2, <2>3, <2>4, SameKnowledge DEF ApartInv
<1>4. ASSUME NEW p \in Procs, Crash(p) PROVE \A u \in Threads : Sees(u)' /\ Standing(u)'
  <2> TAKE u \in Threads
  <2>1. CASE Proc(u) = p
    <3>1. pc'[u] = "idle"
      BY <1>4, <2>1 DEF Crash
    <3> QED
      BY <3>1 DEF Sees, FoundIsKept, Found, Passed, Standing, AtTarget, SpareIsNext
  <2>2. CASE Proc(u) # p
    <3>1. /\ pc'[u] = pc[u] /\ op'[u] = op[u] /\ stage'[u] = stage[u]
          /\ cur'[u] = cur[u] /\ iter'[u] = iter[u] /\ from'[u] = from[u]
          /\ file' = file
      BY <1>4, <2>2 DEF Crash
    <3> QED
      BY <3>1, SameKnowledge DEF ApartInv
  <2> QED
    BY <2>1, <2>2
<1>5. ASSUME UNCHANGED <<file, pc, local>> PROVE \A u \in Threads : Sees(u)' /\ Standing(u)'
  BY <1>5, SameKnowledge DEF ApartInv, local
<1>6. ASSUME NEW p \in Procs, InitCounter(p) PROVE \A u \in Threads : Sees(u)' /\ Standing(u)'
  BY <1>5, <1>6 DEF InitCounter
<1>7. ASSUME UNCHANGED vars PROVE \A u \in Threads : Sees(u)' /\ Standing(u)'
  BY <1>5, <1>7 DEF vars, disk
<1> QED
  BY <1>1, <1>2, <1>3, <1>4, <1>6, <1>7 DEF ApartInv, Next, Finished

LEMMA InitApart == SingleProcess /\ Init => ApartInv
<1> SUFFICES ASSUME SingleProcess, Init PROVE ApartInv
  OBVIOUS
<1>1. IInv
  BY InitIds
<1>2. \A t \in Threads : pc[t] = "idle"
  BY DEF Init
<1>3. KeptApart
  BY <1>2 DEF KeptApart, Calling
<1> QED
  BY <1>1, <1>2, <1>3, NothingKnown DEF ApartInv

\* A thread that is alone keeps apart from the others.
LEMMA AloneIsApart == Alone /\ Spec => SingleProcess /\ ApartSpec
<1>1. Alone => SingleProcess
  BY DEF Alone, SingleProcess
<1>2. Alone => KeptApart'
  BY DEF Alone, KeptApart
<1>3. Alone /\ [Next]_vars => [Next /\ KeptApart']_vars
  BY <1>2
<1>4. Alone => Alone'
  BY DEF Alone
<1> QED
  BY <1>1, <1>3, <1>4, PTL DEF Spec, ApartSpec

(***************************************************************************)
(* Only the target of a delete vanishes.                                   *)
(***************************************************************************)

VanishStep ==
  \A f \in Files : \A i \in Ids(file[f]) \ Ids(file'[f]) :
    \E t \in Threads : op[t].fn \in Deletes /\ TableOf(op[t].fn) = f
                       /\ op[t].rec.id = i

LEMMA StepVanish ==
  ASSUME IInv, NEW t \in Threads, Standing(t), Step(t) PROVE VanishStep
<1>1. TypeInv
  BY DEF IInv
<1>2. CASE ShiftWrite(t) \/ Truncate(t)
  <2>1. Shifting(t)
    BY <1>2 DEF ShiftWrite, Truncate, Goto, Shifting
  <2>2. op[t].fn \in Deletes /\ OpenFile(t) = TableOf(op[t].fn)
    BY <1>1, <2>1, DeletesOpen
  <2>3. Ids(file[OpenFile(t)]) \ {op[t].rec.id} \subseteq Ids(file'[OpenFile(t)])
    BY <1>2, ShiftWriteAlone, TruncateAlone
  <2>4. \A f \in Files : f # OpenFile(t) => file'[f] = file[f]
    BY <1>1, <1>2, OtherFiles
  <2> QED
    BY <2>2, <2>3, <2>4 DEF VanishStep
<1>3. CASE AppendRecord(t)
  <2>1. \A f \in Files : f # OpenFile(t) => file'[f] = file[f]
    BY <1>1, <1>3, OtherFiles
  <2> QED
    BY <1>3, <2>1, AppendAlone DEF VanishStep
<1>4. CASE Overwrite(t)
  BY <1>4, OverwriteAlone DEF VanishStep
<1>5. CASE ~(ShiftWrite(t) \/ Truncate(t) \/ AppendRecord(t) \/ Overwrite(t))
  BY <1>5, OnlyWrites DEF VanishStep
<1> QED
  BY <1>2, <1>3, <1>4, <1>5

\* Whatever fails and wherever the process is killed, copying the tail of a file
\* down drops no record but the one to be deleted, as long as the calls that are
\* not atomic in company keep apart.
THEOREM BystandersSurvive == SingleProcess /\ ApartSpec => OnlyTargetsVanish
<1>1. ApartInv /\ [Next /\ KeptApart']_vars => [VanishStep]_vars
  <2> SUFFICES ASSUME ApartInv, [Next]_vars PROVE VanishStep
    OBVIOUS
  <2>1. CASE \E t \in Threads : Step(t)
    BY <2>1, StepVanish DEF ApartInv
  <2>2. CASE ~\E t \in Threads : Step(t)
    <3>1. UNCHANGED file
      BY <2>2 DEF Next, Call, Invoke, InitCounter, Crash, Finished, vars, disk
    <3> QED
      BY <3>1 DEF VanishStep
  <2> QED
    BY <2>1, <2>2
<1> QED
  BY InitApart, NextApart, <1>1, PTL DEF ApartSpec, OnlyTargetsVanish, VanishStep

(***************************************************************************)
(* A file has a record twice only while it is shifted, or after a crash.   *)
(***************************************************************************)

\* The ids of a file can be counted.
LEMMA IdsFinite ==
  ASSUME NEW f \in Files, NEW s \in Seq(RecOf(f))
  PROVE  IsFiniteSet(Ids(s)) /\ Cardinality(Ids(s)) \in Nat
<1> DEFINE id == [i \in 1 .. Len(s) |-> s[i].id]
<1>1. id \in Surjection(1 .. Len(s), Ids(s))
  <2>1. Ids(s) = {s[i].id : i \in 1 .. Len(s)}
    BY DEF Ids
  <2>2. id \in [1 .. Len(s) -> Ids(s)]
    BY <2>1
  <2>3. \A x \in Ids(s) : \E i \in 1 .. Len(s) : id[i] = x
    BY <2>1
  <2> HIDE DEF id
  <2> QED
    BY <2>2, <2>3, Zenon DEF Surjection
<1>2. IsFiniteSet(1 .. Len(s))
  BY FS_Interval
<1>3. IsFiniteSet(Ids(s))
  BY <1>1, <1>2, FS_Surjection
<1> QED
  BY <1>3, FS_CardinalityType

LEMMA CountIds ==
  ASSUME NEW f \in Files, NEW a \in Seq(RecOf(f)), NEW b \in Seq(RecOf(f)), NEW x
  PROVE  /\ Ids(a) \subseteq Ids(b) => Cardinality(Ids(a)) <= Cardinality(Ids(b))
         /\ Ids(a) \ {x} \subseteq Ids(b) =>
              Cardinality(Ids(a)) <= Cardinality(Ids(b)) + 1
         /\ Ids(b) = Ids(a) \cup {x} /\ x \notin Ids(a) =>
              Cardinality(Ids(b)) = Cardinality(Ids(a)) + 1
<1>1. /\ IsFiniteSet(Ids(a)) /\ IsFiniteSet(Ids(b))
      /\ Cardinality(Ids(a)) \in Nat /\ Cardinality(Ids(b)) \in Nat
  BY IdsFinite
<1>2. /\ IsFiniteSet(Ids(a) \ {x}) /\ Cardinality(Ids(a) \ {x}) \in Nat
      /\ Cardinality(Ids(a)) <= Cardinality(Ids(a) \ {x}) + 1
  <2>1. /\ IsFiniteSet(Ids(a) \ {x})
        /\ Cardinality(Ids(a) \ {x}) =
             IF x \in Ids(a) THEN Cardinality(Ids(a)) - 1 ELSE Cardinality(Ids(a))
    BY <1>1, FS_RemoveElement
  <2>2. Cardinality(Ids(a) \ {x}) \in Nat
    BY <2>1, FS_CardinalityType
  <2> QED
    BY <1>1, <2>1, <2>2
<1>3. Ids(a) \ {x} \subseteq Ids(b) =>
        Cardinality(Ids(a) \ {x}) <= Cardinality(Ids(b))
  BY <1>1, FS_Subset
<1>4. Ids(a) \subseteq Ids(b) => Cardinality(Ids(a)) <= Cardinality(Ids(b))
  BY <1>1, FS_Subset
<1>5. x \notin Ids(a) => Cardinality(Ids(a) \cup {x}) = Cardinality(Ids(a)) + 1
  BY <1>1, FS_AddElement
<1>6. Ids(a) \ {x} \subseteq Ids(b) =>
        Cardinality(Ids(a)) <= Cardinality(Ids(b)) + 1
  BY <1>1, <1>2, <1>3
<1>7. Ids(b) = Ids(a) \cup {x} /\ x \notin Ids(a) =>
        Cardinality(Ids(b)) = Cardinality(Ids(a)) + 1
  BY <1>5
<1> QED
  BY <1>4, <1>6, <1>7

\* The number of spare copies in the two files that have deletes.
AllDoubles == Doubles("user") + Doubles("account")

\* What one file contributes to a step.
LEMMA DoublesOfFile ==
  ASSUME TypeInv, TypeInv', NEW f \in Files, NEW x
  PROVE  /\ Doubles(f) \in Int /\ Doubles(f)' \in Int /\ Len(file[f]) \in Nat
         /\ Len(file'[f]) = Len(file[f]) =>
              /\ Ids(file[f]) \subseteq Ids(file'[f]) => Doubles(f)' <= Doubles(f)
              /\ Ids(file[f]) \ {x} \subseteq Ids(file'[f]) =>
                   Doubles(f)' <= Doubles(f) + 1
         /\ Len(file'[f]) = Len(file[f]) - 1 =>
              /\ Ids(file[f]) \subseteq Ids(file'[f]) => Doubles(f)' <= Doubles(f) - 1
              /\ Ids(file[f]) \ {x} \subseteq Ids(file'[f]) => Doubles(f)' <= Doubles(f)
         /\ Len(file'[f]) = Len(file[f]) + 1 =>
              (Ids(file'[f]) = Ids(file[f]) \cup {x} /\ x \notin Ids(file[f]) =>
                 Doubles(f)' = Doubles(f))
<1>1. file[f] \in Seq(RecOf(f)) /\ file'[f] \in Seq(RecOf(f))
  BY DEF TypeInv, TypeOK, FilesOK
<1>2. PICK a \in Seq(RecOf(f)) : a = file[f]
  BY <1>1
<1>3. PICK b \in Seq(RecOf(f)) : b = file'[f]
  BY <1>1
<1>4. PICK m \in Nat, n \in Nat, j \in Nat, k \in Nat :
        m = Len(a) /\ n = Len(b) /\ j = Cardinality(Ids(a)) /\ k = Cardinality(Ids(b))
  BY IdsFinite
<1>5. Doubles(f) = m - j /\ Doubles(f)' = n - k
  BY <1>2, <1>3, <1>4 DEF Doubles
<1>6. /\ Ids(a) \subseteq Ids(b) => j <= k
      /\ Ids(a) \ {x} \subseteq Ids(b) => j <= k + 1
      /\ Ids(b) = Ids(a) \cup {x} /\ x \notin Ids(a) => k = j + 1
  BY <1>4, CountIds
<1>7. /\ Ids(file[f]) \subseteq Ids(file'[f]) => j <= k
      /\ Ids(file[f]) \ {x} \subseteq Ids(file'[f]) => j <= k + 1
      /\ Ids(file'[f]) = Ids(file[f]) \cup {x} /\ x \notin Ids(file[f]) => k = j + 1
  BY <1>2, <1>3, <1>6
<1>8. Len(file[f]) = m /\ Len(file'[f]) = n
  BY <1>2, <1>3, <1>4
<1> QED
  BY <1>5, <1>7, <1>8

\* A step that writes the file of a delete.
LEMMA OneFileCounts ==
  ASSUME TypeInv, TypeInv', NEW f \in {"user", "account"},
         \A g \in Files : g # f => file'[g] = file[g]
  PROVE  AllDoubles' - AllDoubles = Doubles(f)' - Doubles(f)
<1>1. "user" \in Files /\ "account" \in Files
  BY DEF Files
<1>2. /\ Doubles("user") \in Int /\ Doubles("user")' \in Int
      /\ Doubles("account") \in Int /\ Doubles("account")' \in Int
  BY <1>1, DoublesOfFile
<1>3. CASE f = "user"
  <2>1. Doubles("account")' = Doubles("account")
    BY <1>1, <1>3 DEF Doubles
  <2> QED
    BY <1>2, <1>3, <2>1 DEF AllDoubles
<1>4. CASE f = "account"
  <2>1. Doubles("user")' = Doubles("user")
    BY <1>1, <1>4 DEF Doubles
  <2> QED
    BY <1>2, <1>4, <2>1 DEF AllDoubles
<1> QED
  BY <1>3, <1>4

LEMMA AllDoublesInt ==
  ASSUME TypeInv, TypeInv' PROVE AllDoubles \in Int /\ AllDoubles' \in Int
<1>1. "user" \in Files /\ "account" \in Files
  BY DEF Files
<1>2. \A f \in Files : Doubles(f) \in Int /\ Doubles(f)' \in Int
  BY DoublesOfFile
<1> QED
  BY <1>1, <1>2 DEF AllDoubles

LEMMA ShiftWriteDoubles ==
  ASSUME DoubleInv, TypeInv', NEW t \in Threads, ShiftWrite(t)
  PROVE  /\ Copied(t)'
         /\ AllDoubles' <= AllDoubles + 1
         /\ Copied(t) => AllDoubles' <= AllDoubles
<1>1. IInv /\ Standing(t) /\ TypeInv /\ ThreadsOK /\ OpenFile(t) \in Files
  BY Located DEF DoubleInv, ApartInv, IInv, TypeInv, TypeOK
<1>2. Copied(t)'
  <2>1. /\ pc[t] = "shiftw" /\ pc'[t] = "shift" /\ cur'[t] = cur[t] /\ from' = from
        /\ cur[t] \in Int /\ from[t] \in Nat
    BY <1>1 DEF ShiftWrite, AfterShift, Goto, ThreadsOK
  <2>2. SpareIsNext(t)
    BY <1>1 DEF Standing
  <2>3. cur[t] - 1 = from[t] \/ from[t] < cur[t] - 1
    BY <2>1, <2>2 DEF SpareIsNext, Spare
  <2>4. cur[t] # from[t]
    BY <2>1, <2>3
  <2> QED
    BY <2>1, <2>4 DEF Copied
<1>3. PICK f \in Files : f = OpenFile(t)
  BY <1>1
<1>4. f \in {"user", "account"} /\ \A g \in Files : g # f => file'[g] = file[g]
  <2>1. Shifting(t)
    BY DEF ShiftWrite, Goto, Shifting
  <2>2. f \in {"user", "account"}
    BY <1>1, <1>3, <2>1, DeletesOpen DEF Deletes, TableOf, UserFns, TransFns
  <2> QED
    BY <1>1, <1>3, <2>2, OtherFiles
<1>5. /\ Len(file'[f]) = Len(file[f])
      /\ Ids(file[f]) \ {op[t].rec.id} \subseteq Ids(file'[f])
      /\ Copied(t) => Ids(file[f]) \subseteq Ids(file'[f])
  BY <1>1, <1>3, ShiftWriteAlone
<1>6. PICK x : x = op[t].rec.id
  OBVIOUS
<1>7. /\ Doubles(f) \in Int /\ Doubles(f)' \in Int
      /\ Doubles(f)' <= Doubles(f) + 1
      /\ Copied(t) => Doubles(f)' <= Doubles(f)
  BY <1>1, <1>5, <1>6, DoublesOfFile
<1>8. AllDoubles' - AllDoubles = Doubles(f)' - Doubles(f)
  BY <1>1, <1>4, OneFileCounts
<1>9. AllDoubles \in Int /\ AllDoubles' \in Int
  BY <1>1, AllDoublesInt
<1> QED
  BY <1>2, <1>7, <1>8, <1>9

LEMMA TruncateDoubles ==
  ASSUME DoubleInv, TypeInv', NEW t \in Threads, Truncate(t)
  PROVE  /\ AllDoubles' <= AllDoubles
         /\ Copied(t) => AllDoubles' <= AllDoubles - 1
<1>1. IInv /\ Standing(t) /\ TypeInv /\ OpenFile(t) \in Files
  BY Located DEF DoubleInv, ApartInv, IInv
<1>2. PICK f \in Files : f = OpenFile(t)
  BY <1>1
<1>3. f \in {"user", "account"} /\ \A g \in Files : g # f => file'[g] = file[g]
  <2>1. Shifting(t)
    BY DEF Truncate, Goto, Shifting
  <2>2. f \in {"user", "account"}
    BY <1>1, <1>2, <2>1, DeletesOpen DEF Deletes, TableOf, UserFns, TransFns
  <2> QED
    BY <1>1, <1>2, <2>2, OtherFiles
<1>4. /\ Len(file'[f]) = Len(file[f]) - 1
      /\ Ids(file[f]) \ {op[t].rec.id} \subseteq Ids(file'[f])
      /\ Copied(t) => Ids(file[f]) \subseteq Ids(file'[f])
  BY <1>1, <1>2, TruncateAlone
<1>5. PICK x : x = op[t].rec.id
  OBVIOUS
<1>6. /\ Doubles(f) \in Int /\ Doubles(f)' \in Int
      /\ Doubles(f)' <= Doubles(f)
      /\ Copied(t) => Doubles(f)' <= Doubles(f) - 1
  BY <1>1, <1>4, <1>5, DoublesOfFile
<1>7. AllDoubles' - AllDoubles = Doubles(f)' - Doubles(f)
  BY <1>1, <1>3, OneFileCounts
<1>8. AllDoubles \in Int /\ AllDoubles' \in Int
  BY <1>1, AllDoublesInt
<1> QED
  BY <1>6, <1>7, <1>8

\* The other steps keep what is on file or add what is not.
LEMMA OtherDoubles ==
  ASSUME DoubleInv, TypeInv', NEW t \in Threads, Step(t), ~ShiftWrite(t), ~Truncate(t)
  PROVE  AllDoubles' = AllDoubles /\ (Copied(t) => Copied(t)')
<1>1. IInv /\ Standing(t) /\ TypeInv /\ OpenFile(t) \in Files
  BY Located DEF DoubleInv, ApartInv, IInv
<1>2. ASSUME NEW f \in Files PROVE Doubles(f)' = Doubles(f)
  <2>1. CASE Overwrite(t)
    BY <1>1, <2>1, OverwriteAlone DEF Doubles
  <2>2. CASE AppendRecord(t) /\ f # OpenFile(t)
    BY <1>1, <2>2, OtherFiles DEF Doubles
  <2>3. CASE AppendRecord(t) /\ f = OpenFile(t)
    <3>1. /\ Len(file'[f]) = Len(file[f]) + 1
          /\ Ids(file'[f]) = Ids(file[f]) \cup {op[t].rec.id}
          /\ op[t].rec.id \notin Ids(file[f])
      BY <1>1, <2>3, AppendAlone
    <3>2. PICK x : x = op[t].rec.id
      OBVIOUS
    <3> QED
      BY <1>1, <3>1, <3>2, DoublesOfFile
  <2>4. CASE ~Overwrite(t) /\ ~AppendRecord(t)
    BY <2>4, OnlyWrites DEF Doubles
  <2> QED
    BY <2>1, <2>2, <2>3, <2>4
<1>3. AllDoubles' = AllDoubles
  BY <1>2 DEF AllDoubles, Files
<1>4. Copied(t) => Copied(t)'
  <2>1. CASE ShiftStep(t)
    BY <1>1, <2>1, ShiftAlone
  <2>2. CASE ~ShiftStep(t)
    <3>1. ~Shifting(t)
      BY <1>1, <2>2, ScanAlone, ElsewhereAlone
    <3> QED
      BY <3>1 DEF Copied, Shifting
  <2> QED
    BY <2>1, <2>2
<1> QED
  BY <1>3, <1>4

\* While a call is under way, the others have copied nothing.
LEMMA OneCopies ==
  ASSUME ApartInv, NEW t \in Threads, Calling(t)
  PROVE  \A u \in Threads : Copied(u) => u = t
BY Company DEF ApartInv, IInv, Copied, Shifting

LEMMA StepDoubles ==
  ASSUME DoubleInv, TypeInv', NEW t \in Threads, Step(t)
  PROVE  AllDoubles' <= crashes + (IF Copied(t)' THEN 1 ELSE 0)
<1>1. AllDoubles <= crashes + (IF Copied(t) THEN 1 ELSE 0)
  <2>1. (\E u \in Threads : Copied(u)) <=> Copied(t)
    BY StepIsCalling, OneCopies DEF DoubleInv
  <2> QED
    BY <2>1 DEF DoubleInv, AllDoubles
<1>2. /\ crashes \in Nat /\ AllDoubles \in Int /\ AllDoubles' \in Int
  <2>1. TypeInv /\ crashes \in Nat
    BY DEF DoubleInv, ApartInv, IInv, TypeInv, TypeOK
  <2> QED
    BY <2>1, AllDoublesInt
<1>3. CASE ShiftWrite(t)
  BY <1>1, <1>2, <1>3, ShiftWriteDoubles
<1>4. CASE Truncate(t)
  <2>1. AllDoubles' <= crashes
    BY <1>1, <1>2, <1>4, TruncateDoubles
  <2> QED
    BY <1>2, <2>1
<1>5. CASE ~ShiftWrite(t) /\ ~Truncate(t)
  BY <1>1, <1>2, <1>5, OtherDoubles
<1> QED
  BY <1>3, <1>4, <1>5

LEMMA NextDoubles == DoubleInv /\ [Next /\ KeptApart']_vars => DoubleInv'
<1> SUFFICES ASSUME DoubleInv, [Next /\ KeptApart']_vars PROVE DoubleInv'
  OBVIOUS
<1>1. ApartInv' /\ TypeInv' /\ TypeInv /\ crashes \in Nat /\ ThreadsOK /\ ApartInv
  BY NextApart DEF DoubleInv, ApartInv, IInv, TypeInv, TypeOK
<1>2. ASSUME NEW t \in Threads, Step(t) PROVE DoubleInv'
  <2>1. AllDoubles' <= crashes + (IF Copied(t)' THEN 1 ELSE 0)
    BY <1>1, <1>2, StepDoubles
  <2>2. crashes' = crashes
    BY <1>2
       DEF Step, BeginScan, ReadHit, ReadMiss, ReadInto, ReadEOF, EndScan,
           LockRecord, Overwrite, OverwriteFails, LockTail, ShiftRead, ShiftWrite,
           ShiftWriteFails, ShiftEOF, SeekLast, Truncate, EndWrite, NewId,
           OpenForAppend, LockEnd, AppendRecord, AppendFails, UnlockEnd, SeekSize,
           Close, OpenFails, bounds
  <2>3. (\E u \in Threads : Copied(u)') <=> Copied(t)'
    <3>1. ASSUME NEW u \in Threads, Copied(u)', u # t PROVE FALSE
      <4>1. pc'[u] = pc[u]
        BY <1>1, <1>2, <3>1, OthersStandStill
      <4>2. ~Shifting(u)
        BY <1>1, <1>2, <3>1, StepIsCalling, Company DEF ApartInv
      <4> QED
        BY <3>1, <4>1, <4>2 DEF Copied, Shifting
    <3> QED
      BY <3>1
  <2> QED
    BY <1>1, <2>1, <2>2, <2>3 DEF DoubleInv, AllDoubles
<1>3. ASSUME file' = file, crashes' = crashes,
             \A u \in Threads : Copied(u) => Copied(u)'
      PROVE  DoubleInv'
  <2>1. AllDoubles' = AllDoubles
    BY <1>3 DEF AllDoubles, Doubles
  <2>2. AllDoubles \in Int
    BY <1>1, AllDoublesInt
  <2>3. AllDoubles <= crashes + (IF \E t \in Threads : Copied(t) THEN 1 ELSE 0)
    BY DEF DoubleInv, AllDoubles
  <2>4. AllDoubles' <= crashes' + (IF \E t \in Threads : Copied(t)' THEN 1 ELSE 0)
    BY <1>1, <1>3, <2>1, <2>2, <2>3
  <2> QED
    BY <1>1, <2>4 DEF DoubleInv, AllDoubles
<1>4. ASSUME NEW t \in Threads, Call(t) PROVE DoubleInv'
  <2>1. PICK o \in Ops : Invoke(t, o)
    BY <1>4 DEF Call
  <2>2. pc[t] \in {"idle", "done"} /\ file' = file /\ crashes' = crashes
    BY <2>1 DEF Invoke, disk
  <2>3. ~Copied(t)
    BY <2>2 DEF Copied
  <2>4. ASSUME NEW u \in Threads, u # t PROVE Copied(u)' <=> Copied(u)
    <3>1. /\ pc'[u] = pc[u] /\ op'[u] = op[u] /\ stage'[u] = stage[u]
          /\ cur'[u] = cur[u] /\ from'[u] = from[u]
      BY <1>1, <2>1, <2>4 DEF Invoke, Begin, ThreadsOK
    <3> QED
      BY <2>2, <3>1 DEF Copied, Contents, OpenFile
  <2> QED
    BY <1>3, <2>2, <2>3, <2>4
<1>5. ASSUME UNCHANGED <<file, pc, local, crashes>> PROVE DoubleInv'
  <2>1. \A u \in Threads : Copied(u)' <=> Copied(u)
    BY <1>5 DEF Copied, Contents, OpenFile, local
  <2> QED
    BY <1>3, <1>5, <2>1
<1>6. ASSUME NEW p \in Procs, Crash(p) PROVE DoubleInv'
  <2>1. file' = file /\ crashes' = crashes + 1
    BY <1>6 DEF Crash
  <2>2. AllDoubles' = AllDoubles
    BY <2>1 DEF AllDoubles, Doubles
  <2>3. AllDoubles \in Int
    BY <1>1, AllDoublesInt
  <2>4. AllDoubles <= crashes + (IF \E t \in Threads : Copied(t) THEN 1 ELSE 0)
    BY DEF DoubleInv, AllDoubles
  <2>5. AllDoubles <= crashes + 1
    BY <1>1, <2>3, <2>4
  <2>6. AllDoubles' <= crashes' + (IF \E t \in Threads : Copied(t)' THEN 1 ELSE 0)
    BY <1>1, <2>1, <2>2, <2>3, <2>5
  <2> QED
    BY <1>1, <2>6 DEF DoubleInv, AllDoubles
<1>7. ASSUME NEW p \in Procs, InitCounter(p) PROVE DoubleInv'
  BY <1>5, <1>7 DEF InitCounter, bounds
<1>8. ASSUME UNCHANGED vars PROVE DoubleInv'
  BY <1>5, <1>8 DEF vars, disk, bounds
<1> QED
  BY <1>2, <1>4, <1>6, <1>7, <1>8 DEF Next, Finished

LEMMA InitDoubles == SingleProcess /\ NoDoubles /\ Init => DoubleInv
<1> SUFFICES ASSUME SingleProcess, NoDoubles, Init PROVE DoubleInv
  OBVIOUS
<1>1. ApartInv /\ TypeInv
  BY InitApart, InitType
<1>2. \A f \in Files : Len(file[f]) \in Nat /\ Len(file[f]) = Cardinality(Ids(file[f]))
  BY <1>1, FileSeq DEF Init, NoDoubles
<1>3. Doubles("user") = 0 /\ Doubles("account") = 0
  BY <1>2 DEF Doubles, Files
<1>4. crashes = 0
  BY DEF Init
<1> QED
  BY <1>1, <1>3, <1>4 DEF DoubleInv

\* The only spare copies of records there ever are: one while a delete copies the
\* tail down, and one for each time that was cut short by the end of the process.
THEOREM DoublesAreFromCrashes ==
  SingleProcess /\ NoDoubles /\ ApartSpec => []DoublesOnlyByCrash
<1>1. DoubleInv => DoublesOnlyByCrash
  <2> SUFFICES ASSUME DoubleInv PROVE DoublesOnlyByCrash
    OBVIOUS
  <2> DEFINE S == {t \in Threads : Shifting(t)}
  <2>1. /\ TypeInv /\ crashes \in Nat /\ "user" \in Files /\ "account" \in Files
        /\ ApartInv
    BY DEF DoubleInv, ApartInv, IInv, TypeInv, TypeOK, Files
  <2>2. S = {} \/ \E t \in Threads : S = {t}
    <3>1. \A t, u \in S : t = u
      BY <2>1, Company DEF ApartInv, Shifting, Calling
    <3> QED
      BY <3>1
  <2>3. Cardinality(S) = 0 \/ Cardinality(S) = 1
    BY <2>2, FS_EmptySet, FS_Singleton
  <2>4. (\E t \in Threads : Copied(t)) => Cardinality(S) = 1
    <3>1. (\E t \in Threads : Copied(t)) => \E t \in Threads : S = {t}
      BY <2>2 DEF Copied, Shifting
    <3> QED
      BY <3>1, FS_Singleton
  <2>5. Doubles("user") \in Int /\ Doubles("account") \in Int
    <3>1. file["user"] \in Seq(RecOf("user")) /\ file["account"] \in Seq(RecOf("account"))
      BY <2>1 DEF TypeInv, TypeOK, FilesOK
    <3>2. /\ Cardinality(Ids(file["user"])) \in Nat
          /\ Cardinality(Ids(file["account"])) \in Nat
      BY <2>1, <3>1, IdsFinite
    <3> QED
      BY <3>1, <3>2 DEF Doubles
  <2>6. Doubles("user") + Doubles("account")
          <= crashes + (IF \E t \in Threads : Copied(t) THEN 1 ELSE 0)
    BY DEF DoubleInv
  <2> HIDE DEF S
  <2>7. Doubles("user") + Doubles("account") <= crashes + Cardinality(S)
    BY <2>1, <2>3, <2>4, <2>5, <2>6
  <2> QED
    BY <2>7 DEF S, DoublesOnlyByCrash
<1> QED
  BY InitDoubles, NextDoubles, <1>1, PTL DEF ApartSpec
=============================================================================
