--------------------------- MODULE DatabaseAtomic ---------------------------
(***************************************************************************)
(* Which calls of lib/database.c are atomic: the refinement mapping from   *)
(* Database to AtomicStore.  A call takes effect                           *)
(*   - at the read() that finds the record, or that finds no more, if it   *)
(*     is a lookup or ends as one (no such record, a conflict);            *)
(*   - at the write() if it creates or updates;                            *)
(*   - if it deletes, at the lock of the tail: while the tail is being     *)
(*     copied down, one slot of the file is not part of the table.         *)
(***************************************************************************)
EXTENDS Database, SequencesExt

\* The slot that holds the deleted record or the second copy of another.
SpareSlot(t) == CASE pc[t] \in {"shift", "seekend"} -> cur[t]
                  [] pc[t] = "shiftw" -> cur[t] - 1
                  [] pc[t] = "trunc"  -> cur[t] + 1

SpareSlots(f) == {SpareSlot(t) : t \in {u \in Threads : Shifting(u) /\ OpenFile(u) = f}}

tableBar ==
  [f \in Files |-> IF SpareSlots(f) = {} THEN file[f]
                   ELSE RemoveAt(file[f], CHOOSE i \in SpareSlots(f) : TRUE)]

\* The call as it was made: the id, and the fields update_user restores, are
\* filled in on the way.
Request(o) ==
  IF o.fn \in Creates THEN [o EXCEPT !.rec = [@ EXCEPT !.id = 0]]
  ELSE IF o.fn = "update_user"
       THEN [o EXCEPT !.rec = [@ EXCEPT !.uname = NoName, !.aid = 0]]
       ELSE o

ScanOver(t) == pc[t] = "unlock"
Outcome(t)  == ScanStatus(op[t], stage[t], iter[t] # NoRec, Len(out[t]))

\* The lookup that has just ended is the last thing the call does.
LastLookup(t) ==
  IF WritesInPlace(op[t].fn, stage[t]) THEN iter[t] = NoRec
  ELSE Outcome(t) # 0 \/ op[t].fn \in Gets \cup Bulk

Effective(t) ==
  \/ ScanOver(t) /\ LastLookup(t)
  \/ Shifting(t)
  \/ pc[t] \in {"wunlock", "aunlock", "done"}
  \/ pc[t] = "close" /\ NextStage(t) = stage[t]

Status(t)  == IF ScanOver(t) THEN Outcome(t) ELSE ret[t]
Records(t) == IF op[t].fn \in Gets /\ Status(t) = 0 THEN <<iter[t]>>
              ELSE IF op[t].fn \in Creates /\ Status(t) = 0 THEN <<op[t].rec>>
              ELSE out[t]

Phase(t) == IF Effective(t) THEN "answered" ELSE IF pc[t] = "idle" THEN "idle" ELSE "called"
Reply(t) == IF Effective(t) THEN [status |-> Status(t), recs |-> Records(t)]
            ELSE [status |-> 0, recs |-> <<>>]

reqBar    == [t \in Threads |-> Request(op[t])]
phaseBar  == [t \in Threads |-> Phase(t)]
answerBar == [t \in Threads |-> Reply(t)]

Store == INSTANCE AtomicStore
           WITH Clients <- Threads, Ops <- {Request(o) : o \in Ops},
                table <- tableBar, req <- reqBar, phase <- phaseBar, answer <- answerBar

\* Every call of database.h behaves as if it were executed in one step at some
\* moment between its start and its end, and answers what it saw in that step:
\* one thread alone gets this for every function, threads that run together get
\* it as long as they keep the functions apart that are not atomic in company.
ImplementsAtomicStore == Store!SSpec
=============================================================================
