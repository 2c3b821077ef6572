---------------------------- MODULE RecordLocks ----------------------------
(***************************************************************************)
(* The byte-range locks that append_lock and rec_lock of lib/database.c    *)
(* take with fcntl(F_SETLKW).  A lock belongs to a PROCESS: a request      *)
(* conflicts only with what other processes hold, a second request of the  *)
(* same process on a range replaces what it held there, and closing any    *)
(* descriptor of a file drops every lock the process has on that file.     *)
(* Threads of one process are therefore never kept apart by these locks.   *)
(*                                                                         *)
(* A range is a set of slots, one per record; slot MaxSlot stands for      *)
(* every position from MaxSlot on.                                         *)
(***************************************************************************)
EXTENDS Integers

CONSTANTS
  Procs,     \* processes that have the database open
  MaxSlot    \* bound: positions the lock table tells apart

ASSUME MaxSlotAssumption == MaxSlot \in Nat

Slots     == 0 .. MaxSlot
LockTypes == {"none", "rd", "wr"}

SlotAt(p)    == IF p < MaxSlot THEN {p} ELSE {MaxSlot}

\* Mutant of SlotsFrom: the length of one record instead of "to the end".
SlotsFrom_OneRecord(p) == SlotAt(p)

SlotsFrom(p) == {s \in Slots : s >= p} \cup {MaxSlot}

\* Mutant of WholeFile: only the first record is locked.
WholeFile_FirstRecord == SlotAt(0)

WholeFile == Slots

NoLocks(files) == [p \in Procs |-> [f \in files |-> [s \in Slots |-> "none"]]]

\* F_SETLKW returns at once: no other process holds a conflicting lock.
Grantable(lock, p, f, type, range) ==
  \A q \in Procs \ {p} : \A s \in range :
     lock[q][f][s] \in (IF type = "wr" THEN {"none"} ELSE {"none", "rd"})

SetLock(lock, p, f, type, range) ==
  [lock EXCEPT ![p][f] =
     [s \in Slots |-> IF s \in range THEN type ELSE lock[p][f][s]]]

\* close() of any descriptor of the file.
DropLocks(lock, p, f) == SetLock(lock, p, f, "none", Slots)
=============================================================================
