------------------------------ MODULE Database ------------------------------
(***************************************************************************)
(* lib/database.c: the three record files, the id counters and every       *)
(* function of lib/database.h, one action per system call that other       *)
(* threads or processes can observe.  Threads share the files and their    *)
(* process's counters; the only synchronisation is the counter mutexes     *)
(* (NewId is one step) and the fcntl locks of RecordLocks.                 *)
(*                                                                         *)
(* read() and write() of one record are atomic with respect to each other, *)
(* as POSIX has it for regular files.                                      *)
(***************************************************************************)
EXTENDS DatabaseApi, RecordLocks, FiniteSets

CONSTANTS
  Threads,     \* threads that call the database
  ProcOf,      \* the process each thread runs in
  Ops,         \* the calls a thread may make
  InitFiles,   \* the contents the files may have at the start
  NoRec,       \* "no record read": len = 0 after a scan
  Faults,      \* which system calls may fail: a subset of {"open", "write"}
  MaxCalls,    \* bound: calls per thread
  MaxCrashes   \* bound: times a process is killed

\* Users, or zero-filled records, that agree on who an id is.
Consistent(users) ==
  \A a, b \in users : a.id = b.id => a.uname = b.uname /\ a.aid = b.aid

ASSUME ProcOfAssumption == ProcOf \in [Threads -> Procs]
ASSUME OpsAssumption    == \A o \in Ops : OpOk(o)
ASSUME NoRecAssumption  == \A f \in Files : NoRec \notin RecOf(f)
ASSUME BoundsAssumption == MaxCalls \in Nat /\ MaxCrashes \in Nat
ASSUME InitFilesAssumption ==
  \A s \in InitFiles :
     /\ s = [f \in Files |-> s[f]]
     /\ \A f \in Files : s[f] \in Seq(RecOf(f))
     /\ Consistent(Range(s["user"]) \cup {ZeroRec("user")})

VARIABLES
  file,     \* contents of each file
  ctr,      \* _c_uid, _c_aid and _c_tid of each process
  boot,     \* the file whose counter db_init sets up next, or "up"
  lock,     \* lock table of the kernel
  pc,       \* the next system call of each thread
  op,       \* the call in progress, or the last one
  stage,    \* which of the nested lookups of the call is running
  cur,      \* file offset, in records
  from,     \* first slot of the write lock held
  iter,     \* the record last read by a lookup or a shift
  out,      \* the caller's array of a bulk getter
  ret,      \* status to be returned
  calls,    \* calls made by each thread
  crashes   \* times a process was killed

disk   == <<file, ctr, boot>>
local  == <<op, stage, cur, from, iter, out, ret>>
bounds == <<calls, crashes>>
vars   == <<disk, lock, pc, local, bounds>>
-----------------------------------------------------------------------------
(* The lookups nested in each function.                                    *)

\* create_user looks up the user name (1) and the account (2) before it appends
\* (3); delete_account looks for a linked user (1) before the account (2).
FileAt(fn, s) ==
  IF fn = "create_user" /\ s = 2 THEN "account"
  ELSE IF fn = "delete_account" /\ s = 1 THEN "user" ELSE TableOf(fn)

FirstStage(fn) == IF fn \in Creates \ {"create_user"} THEN 3 ELSE 1

FirstCall(fn) == IF fn \in Creates \ {"create_user"} THEN "newid"
                 ELSE IF fn \in Counts THEN "size" ELSE "lock"

\* The condition on which a scan loop breaks.
Matches(o, s, r) ==
  IF \/ o.fn = "get_user_from_uname"
     \/ o.fn = "create_user" /\ s = 1 THEN r.uname = o.rec.uname
  ELSE IF o.fn = "create_user" THEN r.id = o.rec.aid
  ELSE IF o.fn = "delete_account" /\ s = 1 THEN r.aid = o.rec.id
  ELSE r.id = o.rec.id

\* Mutant of Wanted: the transactions of all accounts.
Wanted_Any(o, r) == TRUE

\* The records a bulk getter puts into the caller's array.
Wanted(o, r) == o.fn \in TransFns => r.aid = o.rec.aid

\* What a finished lookup makes of `len # 0`, and a bulk getter of its count.
ScanStatus(o, s, found, n) ==
  IF o.fn \in Bulk THEN n
  ELSE IF o.fn \in {"create_user", "delete_account"} /\ s = 1
       THEN IF found THEN ECONFLICT ELSE 0
  ELSE IF found THEN 0
  ELSE IF o.fn = "create_user" THEN ECONFLICT ELSE ENOTFOUND

\* The lookups that leave the file open to write the record they found.
WritesInPlace(fn, s) ==
  \/ fn \in Updates \cup {"delete_user"}
  \/ fn = "delete_account" /\ s = 2

Proc(t)     == ProcOf[t]
OpenFile(t) == FileAt(op[t].fn, stage[t])
Contents(t) == file[OpenFile(t)]
Goto(t, a, b) == pc[t] = a /\ pc' = [pc EXCEPT ![t] = b]
\* Mutant of ReportFailure: `status = EFAIL` is missing.
ReportFailure_Lost(t) == UNCHANGED ret

ReportFailure(t) == ret' = [ret EXCEPT ![t] = EFAIL]
Relock(t, type, range) ==
  lock' = SetLock(lock, Proc(t), OpenFile(t), type, range)
SetFile(t, s) == file' = [file EXCEPT ![OpenFile(t)] = s]
-----------------------------------------------------------------------------
(* Calling a function.                                                     *)

Begin(t, o) ==
  /\ pc'    = [pc EXCEPT ![t] = FirstCall(o.fn)]
  /\ op'    = [op EXCEPT ![t] = o]
  /\ stage' = [stage EXCEPT ![t] = FirstStage(o.fn)]
  /\ cur'   = [cur EXCEPT ![t] = 0]
  /\ from'  = [from EXCEPT ![t] = 0]
  /\ iter'  = [iter EXCEPT ![t] = NoRec]
  /\ out'   = [out EXCEPT ![t] = <<>>]
  /\ ret'   = [ret EXCEPT ![t] = 0]

Invoke(t, o) ==
  /\ pc[t] \in {"idle", "done"}
  /\ boot[Proc(t)] = "up"
  /\ calls[t] < MaxCalls
  /\ Begin(t, o)
  /\ calls' = [calls EXCEPT ![t] = @ + 1]
  /\ UNCHANGED <<disk, lock, crashes>>

Call(t) == \E o \in Ops : Invoke(t, o)
-----------------------------------------------------------------------------
(* The scan loop: read lock on the whole file, one record per read().      *)

BeginScan(t) ==
  /\ Goto(t, "lock", "scan")
  /\ Grantable(lock, Proc(t), OpenFile(t), "rd", WholeFile)
  /\ Relock(t, "rd", WholeFile)
  /\ cur' = [cur EXCEPT ![t] = 0]
  /\ UNCHANGED <<disk, op, stage, from, iter, out, ret, bounds>>

ReadHit(t) ==
  /\ Goto(t, "scan", "unlock")
  /\ op[t].fn \notin Bulk
  /\ cur[t] < Len(Contents(t))
  /\ Matches(op[t], stage[t], Contents(t)[cur[t] + 1])
  /\ iter' = [iter EXCEPT ![t] = Contents(t)[cur[t] + 1]]
  /\ cur'  = [cur EXCEPT ![t] = @ + 1]
  /\ UNCHANGED <<disk, lock, op, stage, from, out, ret, bounds>>

ReadMiss(t) ==
  /\ pc[t] = "scan"
  /\ op[t].fn \notin Bulk
  /\ cur[t] < Len(Contents(t))
  /\ ~Matches(op[t], stage[t], Contents(t)[cur[t] + 1])
  /\ cur' = [cur EXCEPT ![t] = @ + 1]
  /\ UNCHANGED <<disk, lock, pc, op, stage, from, iter, out, ret, bounds>>

\* A bulk getter stores the record if it is wanted and stops when the array is
\* full; get_num_transactions has no array and never stops early.
ReadInto(t) ==
  /\ pc[t] = "scan"
  /\ op[t].fn \in Bulk
  /\ cur[t] < Len(Contents(t))
  /\ LET r == Contents(t)[cur[t] + 1]
     IN out' = [out EXCEPT ![t] =
                  IF Wanted(op[t], r) THEN Append(@, r) ELSE @]
  /\ cur' = [cur EXCEPT ![t] = @ + 1]
  /\ pc'  = [pc EXCEPT ![t] =
               IF /\ op[t].fn # "get_num_transactions"
                  /\ Len(out'[t]) = op[t].limit
               THEN "unlock" ELSE "scan"]
  /\ UNCHANGED <<disk, lock, op, stage, from, iter, ret, bounds>>

ReadEOF(t) ==
  /\ Goto(t, "scan", "unlock")
  /\ cur[t] >= Len(Contents(t))
  /\ UNCHANGED <<disk, lock, local, bounds>>

EndScan(t) ==
  LET found == iter[t] # NoRec
  IN /\ Goto(t, "unlock",
             IF WritesInPlace(op[t].fn, stage[t]) /\ found
             THEN "wlock" ELSE "close")
     /\ ret' = [ret EXCEPT ![t] =
                  ScanStatus(op[t], stage[t], found, Len(out[t]))]
     /\ Relock(t, "none", WholeFile)
     /\ UNCHANGED <<disk, op, stage, cur, from, iter, out, bounds>>
-----------------------------------------------------------------------------
(* update_user and update_account: one record is written where the scan    *)
(* found it, under a lock on that record.                                  *)

\* Mutant of Position: one record too far back.
Position_OffByOne(t) == cur[t] - 2

Position(t) == cur[t] - 1

WithRec(o, r) == [fn |-> o.fn, rec |-> r, limit |-> o.limit]

\* Mutant of KeepNames: the caller's uname and aid are written.
KeepNames_Skipped(user, stored) == user

KeepNames(user, stored) ==
  [id |-> user.id, uname |-> stored.uname, aid |-> stored.aid,
   info |-> user.info]

\* update_user puts the stored uname and aid back into the caller's struct.
LockRecord(t) ==
  /\ Goto(t, "wlock", "write")
  /\ op[t].fn \in Updates
  /\ Grantable(lock, Proc(t), OpenFile(t), "wr", SlotAt(Position(t)))
  /\ Relock(t, "wr", SlotAt(Position(t)))
  /\ op' = [op EXCEPT ![t] =
              IF op[t].fn = "update_user"
              THEN WithRec(@, KeepNames(@.rec, iter[t])) ELSE @]
  /\ from' = [from EXCEPT ![t] = Position(t)]
  /\ UNCHANGED <<disk, stage, cur, iter, out, ret, bounds>>

Overwrite(t) ==
  /\ Goto(t, "write", "wunlock")
  /\ SetFile(t, WriteAt(Contents(t), Position(t), op[t].rec,
                        ZeroRec(OpenFile(t))))
  /\ UNCHANGED <<ctr, boot, lock, local, bounds>>

OverwriteFails(t) ==
  /\ "write" \in Faults
  /\ Goto(t, "write", "wunlock")
  /\ ReportFailure(t)
  /\ UNCHANGED <<disk, lock, op, stage, cur, from, iter, out, bounds>>
-----------------------------------------------------------------------------
(* delete_user and delete_account: the lock starts BEHIND the record found,*)
(* every later record is copied one place down, the last one is cut off.   *)

LockTail(t) ==
  /\ Goto(t, "wlock", "shift")
  /\ op[t].fn \in Deletes
  /\ Grantable(lock, Proc(t), OpenFile(t), "wr", SlotsFrom(cur[t]))
  /\ Relock(t, "wr", SlotsFrom(cur[t]))
  /\ from' = [from EXCEPT ![t] = cur[t]]
  /\ UNCHANGED <<disk, op, stage, cur, iter, out, ret, bounds>>

ShiftRead(t) ==
  /\ Goto(t, "shift", "shiftw")
  /\ cur[t] < Len(Contents(t))
  /\ iter' = [iter EXCEPT ![t] = Contents(t)[cur[t] + 1]]
  /\ cur'  = [cur EXCEPT ![t] = @ + 1]
  /\ UNCHANGED <<disk, lock, op, stage, from, out, ret, bounds>>

\* Mutant of AfterShift: no lseek() forward after the write.
AfterShift_NoSeek(t) == cur[t] - 1

\* lseek(-2 records), write, lseek(+1 record): the offset is back where it was.
ShiftTarget(t) == cur[t] - 2
AfterShift(t)  == cur[t]

ShiftWrite(t) ==
  /\ Goto(t, "shiftw", "shift")
  /\ SetFile(t, WriteAt(Contents(t), ShiftTarget(t), iter[t],
                        ZeroRec(OpenFile(t))))
  /\ cur' = [cur EXCEPT ![t] = AfterShift(t)]
  /\ UNCHANGED <<ctr, boot, lock, op, stage, from, iter, out, ret, bounds>>

\* The failed write does not move the offset: the same record is read again.
ShiftWriteFails(t) ==
  /\ "write" \in Faults
  /\ Goto(t, "shiftw", "shift")
  /\ cur' = [cur EXCEPT ![t] = @ - 1]
  /\ UNCHANGED <<disk, lock, op, stage, from, iter, out, ret, bounds>>

ShiftEOF(t) ==
  /\ Goto(t, "shift", "seekend")
  /\ cur[t] >= Len(Contents(t))
  /\ UNCHANGED <<disk, lock, local, bounds>>

\* lseek(-1 record, SEEK_END) fails on an empty file and yields -1.
SeekLast(t) ==
  /\ Goto(t, "seekend", "trunc")
  /\ cur' = [cur EXCEPT ![t] = Len(Contents(t)) - 1]
  /\ UNCHANGED <<disk, lock, op, stage, from, iter, out, ret, bounds>>

\* Mutants of Cut: ftruncate() is left out; one record too many is cut off.
Cut_Skipped(t)  == Contents(t)
Cut_TooShort(t) == SubSeq(Contents(t), 1, cur[t] - 1)

Cut(t) == Resize(Contents(t), cur[t], ZeroRec(OpenFile(t)))

Truncate(t) ==
  /\ Goto(t, "trunc", "wunlock")
  /\ IF cur[t] >= 0
     THEN SetFile(t, Cut(t))
     ELSE UNCHANGED file
  /\ UNCHANGED <<ctr, boot, lock, local, bounds>>

Shifting(t) == pc[t] \in {"shift", "shiftw", "seekend", "trunc"}

EndWrite(t) ==
  /\ Goto(t, "wunlock", "close")
  /\ Relock(t, "none", IF op[t].fn \in Deletes
                       THEN SlotsFrom(from[t]) ELSE SlotAt(from[t]))
  /\ UNCHANGED <<disk, local, bounds>>
-----------------------------------------------------------------------------
(* create_user, create_account, append_transaction: a new id, then one     *)
(* write() with O_APPEND under a lock on the record behind the end.        *)

\* Mutant of NextId: the counter as it was before the increment.
NextId_Stale(p, f) == ctr[p][f]

NextId(p, f) == ctr[p][f] + 1

\* new_uid, new_aid, new_tid: atomic under the counter's mutex.
NewId(t) ==
  LET f == OpenFile(t)
      n == NextId(Proc(t), f)
  IN /\ Goto(t, "newid", "aopen")
     /\ ctr' = [ctr EXCEPT ![Proc(t)][f] = n]
     /\ op'  = [op EXCEPT ![t] = WithRec(@, [@.rec EXCEPT !.id = n])]
     /\ UNCHANGED <<file, boot, lock, stage, cur, from, iter, out, ret, bounds>>

\* fcntl resolves SEEK_END when it is called, before it may have to wait.
OpenForAppend(t) ==
  /\ Goto(t, "aopen", "alock")
  /\ from' = [from EXCEPT ![t] = Len(Contents(t))]
  /\ UNCHANGED <<disk, lock, op, stage, cur, iter, out, ret, bounds>>

LockEnd(t) ==
  /\ Goto(t, "alock", "append")
  /\ Grantable(lock, Proc(t), OpenFile(t), "wr", SlotAt(from[t]))
  /\ Relock(t, "wr", SlotAt(from[t]))
  /\ UNCHANGED <<disk, local, bounds>>

\* Mutant of Appended: without O_APPEND the record goes where the end was.
Appended_NotAtEnd(t) ==
  WriteAt(Contents(t), from[t], op[t].rec, ZeroRec(OpenFile(t)))

Appended(t) == Append(Contents(t), op[t].rec)

AppendRecord(t) ==
  /\ Goto(t, "append", "aunlock")
  /\ SetFile(t, Appended(t))
  /\ UNCHANGED <<ctr, boot, lock, local, bounds>>

AppendFails(t) ==
  /\ "write" \in Faults
  /\ Goto(t, "append", "aunlock")
  /\ ReportFailure(t)
  /\ UNCHANGED <<disk, lock, op, stage, cur, from, iter, out, bounds>>

\* The unlocked range is the last record as of now, whoever appended it.
UnlockEnd(t) ==
  /\ Goto(t, "aunlock", "close")
  /\ IF Len(Contents(t)) > 0
     THEN Relock(t, "none", SlotAt(Len(Contents(t)) - 1))
     ELSE UNCHANGED lock
  /\ UNCHANGED <<disk, local, bounds>>
-----------------------------------------------------------------------------
(* get_num_users, get_num_accounts, and the end of every function.         *)

SeekSize(t) ==
  /\ Goto(t, "size", "close")
  /\ ret' = [ret EXCEPT ![t] = Len(Contents(t))]
  /\ UNCHANGED <<disk, lock, op, stage, cur, from, iter, out, bounds>>

HasNext(t) == \/ op[t].fn = "create_user" /\ stage[t] < 3
              \/ op[t].fn = "delete_account" /\ stage[t] = 1

\* Mutants of NextStage: a conflict is ignored; create_user does not look the
\* account up.
NextStage_Unchecked(t)  == IF HasNext(t) THEN stage[t] + 1 ELSE stage[t]
NextStage_SkipsTwo(t) ==
  IF ret[t] # 0 \/ ~HasNext(t) THEN stage[t]
  ELSE IF op[t].fn = "create_user" THEN 3 ELSE 2

\* A lookup that is not the last one of its function goes on to the next.
NextStage(t) == IF ret[t] = 0 /\ HasNext(t) THEN stage[t] + 1 ELSE stage[t]

StageCall(s) == IF s = 3 THEN "newid" ELSE "lock"

Close(t) ==
  /\ Goto(t, "close", IF NextStage(t) = stage[t] THEN "done"
                      ELSE StageCall(NextStage(t)))
  /\ lock'  = DropLocks(lock, Proc(t), OpenFile(t))
  /\ stage' = [stage EXCEPT ![t] = NextStage(t)]
  /\ iter'  = [iter EXCEPT ![t] = IF NextStage(t) = stage[t] THEN @ ELSE NoRec]
  /\ UNCHANGED <<disk, op, cur, from, out, ret, bounds>>

\* open() fails.  create_user takes the EFAIL of its first lookup for a
\* conflict, and that of its second for an account that exists.
OpenFails(t) ==
  /\ "open" \in Faults
  /\ pc[t] \in {"lock", "size", "aopen"}
  /\ IF op[t].fn = "create_user" /\ stage[t] = 2
     THEN /\ pc'    = [pc EXCEPT ![t] = "newid"]
          /\ stage' = [stage EXCEPT ![t] = 3]
          /\ ret'   = ret
     ELSE /\ pc'    = [pc EXCEPT ![t] = "done"]
          /\ stage' = stage
          /\ ret'   = [ret EXCEPT ![t] =
               IF op[t].fn = "create_user" /\ stage[t] = 1
               THEN ECONFLICT ELSE EFAIL]
  /\ UNCHANGED <<disk, lock, op, cur, from, iter, out, bounds>>
-----------------------------------------------------------------------------
(* The process: db_init at its start, and its sudden end (kill_server      *)
(* calls exit(0) in a signal handler whatever the threads are doing).      *)

NoOp == [fn |-> "get_num_users", rec |-> ZeroRec("user"), limit |-> 0]

BootAfter(f) == [user |-> "account", account |-> "trans", trans |-> "up"][f]

\* Mutant of IsLargest: the id of the last record is taken for the largest.
IsLargest_Last(m, s) == m = IF s = <<>> THEN 0 ELSE s[Len(s)].id

IsLargest(m, s) == \A i \in Ids(s) : i <= m

\* init_uid, init_aid, init_tid: the counter restarts at the largest id stored.
InitCounter(p) ==
  /\ boot[p] # "up"
  /\ Grantable(lock, p, boot[p], "rd", WholeFile)
  /\ \E m \in Ids(file[boot[p]]) \cup {0} :
        /\ IsLargest(m, file[boot[p]])
        /\ ctr' = [ctr EXCEPT ![p][boot[p]] = m]
  /\ boot' = [boot EXCEPT ![p] = BootAfter(@)]
  /\ UNCHANGED <<file, lock, pc, local, bounds>>

Crash(p) ==
  LET killed(x, y) == [t \in Threads |-> IF Proc(t) = p THEN y ELSE x[t]]
  IN /\ crashes < MaxCrashes
     /\ crashes' = crashes + 1
     /\ boot'  = [boot EXCEPT ![p] = "user"]
     /\ ctr'   = [ctr EXCEPT ![p] = [f \in Files |-> 0]]
     /\ lock'  = [lock EXCEPT ![p] = NoLocks(Files)[p]]
     /\ pc'    = killed(pc, "idle")
     /\ op'    = killed(op, NoOp)
     /\ stage' = killed(stage, 1)
     /\ cur'   = killed(cur, 0)
     /\ from'  = killed(from, 0)
     /\ iter'  = killed(iter, NoRec)
     /\ out'   = killed(out, <<>>)
     /\ ret'   = killed(ret, 0)
     /\ UNCHANGED <<file, calls>>
-----------------------------------------------------------------------------

Init ==
  /\ file \in InitFiles
  /\ ctr     = [p \in Procs |-> [f \in Files |-> 0]]
  /\ boot    = [p \in Procs |-> "user"]
  /\ lock    = NoLocks(Files)
  /\ pc      = [t \in Threads |-> "idle"]
  /\ op      = [t \in Threads |-> NoOp]
  /\ stage   = [t \in Threads |-> 1]
  /\ cur     = [t \in Threads |-> 0]
  /\ from    = [t \in Threads |-> 0]
  /\ iter    = [t \in Threads |-> NoRec]
  /\ out     = [t \in Threads |-> <<>>]
  /\ ret     = [t \in Threads |-> 0]
  /\ calls   = [t \in Threads |-> 0]
  /\ crashes = 0

\* A call under way: everything a thread does between Call and "done".
Step(t) ==
  \/ BeginScan(t) \/ ReadHit(t) \/ ReadMiss(t) \/ ReadInto(t) \/ ReadEOF(t)
  \/ EndScan(t)
  \/ LockRecord(t) \/ Overwrite(t) \/ OverwriteFails(t)
  \/ LockTail(t) \/ ShiftRead(t) \/ ShiftWrite(t) \/ ShiftWriteFails(t)
  \/ ShiftEOF(t) \/ SeekLast(t) \/ Truncate(t) \/ EndWrite(t)
  \/ NewId(t) \/ OpenForAppend(t) \/ LockEnd(t) \/ AppendRecord(t)
  \/ AppendFails(t) \/ UnlockEnd(t)
  \/ SeekSize(t) \/ Close(t) \/ OpenFails(t)

\* Every thread has used up its calls: the only legitimate end of a run.
Finished ==
  /\ \A p \in Procs : boot[p] = "up"
  /\ \A t \in Threads : pc[t] \in {"idle", "done"} /\ calls[t] = MaxCalls
  /\ UNCHANGED vars

Next ==
  \/ \E t \in Threads : Call(t) \/ Step(t)
  \/ \E p \in Procs : InitCounter(p) \/ Crash(p)
  \/ Finished

Spec == Init /\ [][Next]_vars

\* The kernel schedules every thread and hands a free lock to a waiter.
Fairness ==
  /\ \A t \in Threads : WF_vars(Step(t))
  /\ \A p \in Procs : WF_vars(InitCounter(p))

FairSpec == Spec /\ Fairness
-----------------------------------------------------------------------------
(* Types.                                                                  *)

PCs == {"idle", "lock", "scan", "unlock", "wlock", "write", "shift", "shiftw",
        "seekend", "trunc", "wunlock", "newid", "aopen", "alock", "append",
        "aunlock", "size", "close", "done"}

Rec == UserRec \cup AccountRec \cup TransRec

FilesOK ==
  /\ DOMAIN file = Files
  /\ \A f \in Files : file[f] \in Seq(RecOf(f))

KernelOK ==
  /\ ctr \in [Procs -> [Files -> Nat]]
  /\ boot \in [Procs -> Files \cup {"up"}]
  /\ lock \in [Procs -> [Files -> [Slots -> LockTypes]]]

ThreadsOK ==
  /\ pc \in [Threads -> PCs]
  /\ stage \in [Threads -> 1 .. 3]
  /\ cur \in [Threads -> Int]
  /\ from \in [Threads -> Nat]
  /\ ret \in [Threads -> Int]
  /\ calls \in [Threads -> Nat]
  /\ DOMAIN op = Threads /\ DOMAIN iter = Threads /\ DOMAIN out = Threads

\* A call is one of database.h, the record in hand is one of the file open.
CallOK(t) ==
  /\ OpOk(op[t])
  /\ iter[t] \in RecOf(OpenFile(t)) \cup {NoRec}
  /\ out[t] \in Seq(Rec)

\* Every variable has its type.
TypeOK ==
  /\ FilesOK
  /\ KernelOK
  /\ ThreadsOK
  /\ crashes \in Nat
  /\ \A t \in Threads : CallOK(t)
-----------------------------------------------------------------------------
(* What holds whatever the threads of one server process do.               *)

\* Every user record there is: on disk, or in a thread's hands to be used.
UserCopies ==
  Range(file["user"]) \cup
  {iter[t] : t \in {u \in Threads : OpenFile(u) = "user" /\ iter[u] # NoRec}}

\* However scans, updates and deletes interleave, and whatever a crash leaves
\* half done, no record ever mixes two users: all copies that carry one id
\* agree on user name and account ("Will ignore changes to uname and aid",
\* update_user, is true of the identity a record carries).
OneIdentityPerUid == Consistent(UserCopies)

\* The transaction file is a journal: a step leaves it alone or adds one
\* record behind the others, with an id no record in it has - under any
\* interleaving of append_transaction, and after a restart that recomputes
\* the counter from the file.
JournalOnlyGrows ==
  [][ \/ file'["trans"] = file["trans"]
      \/ \E t \in Threads :
           /\ file'["trans"] = Append(file["trans"], op[t].rec)
           /\ op[t].rec.id \notin Ids(file["trans"]) ]_vars

\* The history of an account: its entries in the journal, in their order.
History(aid) == HistoryIn(file["trans"], aid)[Len(file["trans"])]

\* get_transactions returns the first records of the account in the journal,
\* none left out and none twice, while other threads keep appending.
HistoryHasNoGaps ==
  \A t \in Threads :
     pc[t] = "done" /\ op[t].fn = "get_transactions" =>
       LET history == History(op[t].rec.aid)
       IN /\ Len(out[t]) <= Len(history)
          /\ out[t] = SubSeq(history, 1, Len(out[t]))

\* An id that is about to be written is nowhere else: not on disk, not in a
\* record another thread may still write back, not about to be written twice.
Appending(t) ==
  op[t].fn \in Creates /\ pc[t] \in {"aopen", "alock", "append"}

NewIdIsUnused ==
  \A t \in Threads : Appending(t) =>
     /\ op[t].rec.id \notin Ids(Contents(t))
     /\ \A u \in Threads \ {t} : OpenFile(u) = OpenFile(t) =>
          /\ iter[u] # NoRec => iter[u].id # op[t].rec.id
          /\ Appending(u) => op[u].rec.id # op[t].rec.id
-----------------------------------------------------------------------------
(* What holds in addition as long as nobody deletes.                       *)

\* Every record stays where it is and keeps its id and, if it is a user, its
\* name and account: what update_user and update_account found at a position
\* in their scan is still there when they write.
RecordsStay ==
  [][ \A f \in Files : \A i \in DOMAIN file[f] :
        /\ i \in DOMAIN file'[f]
        /\ file'[f][i].id = file[f][i].id
        /\ f = "user" => /\ file'[f][i].uname = file[f][i].uname
                         /\ file'[f][i].aid = file[f][i].aid ]_vars

\* A lookup that reads record by record while others append and overwrite does
\* not pass by what it looks for.
ScanMissesNothing ==
  \A t \in Threads : pc[t] = "scan" /\ op[t].fn \notin Bulk =>
     \A i \in 1 .. cur[t] : ~Matches(op[t], stage[t], Contents(t)[i])

\* A create that reports success has stored its record, one that reports a
\* failure has not - whichever of its system calls failed.
StoredIffReported ==
  \A t \in Threads : pc[t] = "done" /\ op[t].fn \in Creates =>
     (ret[t] = 0 <=> op[t].rec.id \in Ids(Contents(t)))
-----------------------------------------------------------------------------
(* What a delete that is kept apart may do, and what it leaves if killed.   *)

\* Whatever fails and wherever the process dies, an id disappears from a file
\* only while a delete of just that id is running: copying the tail down never
\* drops a bystander.
OnlyTargetsVanish ==
  [][ \A f \in Files : \A i \in Ids(file[f]) \ Ids(file'[f]) :
        \E t \in Threads : op[t].fn \in Deletes /\ TableOf(op[t].fn) = f
                           /\ op[t].rec.id = i ]_vars

\* A file has more records than ids only by the spare copy of a delete under
\* way and by one for each time the process was killed.
Doubles(f) == Len(file[f]) - Cardinality(Ids(file[f]))

DoublesOnlyByCrash ==
  Doubles("user") + Doubles("account") <=
     crashes + Cardinality({t \in Threads : Shifting(t)})
-----------------------------------------------------------------------------
(* What the record locks give to processes with one thread each.           *)

\* While a process reads a file record by record, no other process writes it:
\* get_users and get_accounts list the file as it was at one moment.
ScanSeesFrozenFile ==
  [][ \A t \in Threads : pc[t] = "scan" =>
        file'[OpenFile(t)] = file[OpenFile(t)] ]_vars

\* No two deletes copy the tail of one file at the same time.
OneShiftAtATime ==
  \A t, u \in Threads :
     t # u /\ Shifting(t) /\ Shifting(u) => OpenFile(t) # OpenFile(u)
-----------------------------------------------------------------------------
(* Calls that keep apart.                                                  *)

\* The functions that stay atomic in company: whoever calls no other does not
\* notice that the calls of other threads are made up of several steps.
AtomicFns == TransFns \cup Updates \cup Gets \cup Counts \cup {"create_account"}

Calling(t) == pc[t] \notin {"idle", "done"}

\* A thread waits with any other function until the other threads are between
\* two calls, and they wait for it.
KeptApart ==
  \A t, u \in Threads :
     t # u /\ Calling(t) /\ Calling(u) => op[t].fn \in AtomicFns

ApartSpec == Init /\ [][Next /\ KeptApart']_vars
-----------------------------------------------------------------------------
(* Progress.                                                               *)

\* Every call of database.h comes back: no scan, no copying of a tail and no
\* wait for a record lock goes on for ever.
EveryCallReturns ==
  \A t \in Threads : pc[t] \notin {"idle", "done"} ~> pc[t] \in {"idle", "done"}
=============================================================================
