------------------------------ MODULE Sessions ------------------------------
(***************************************************************************)
(* The session pool of server.c: one slot per session with the id of its   *)
(* user, 0 in a free slot.  Every operation runs under the pool's mutex.   *)
(***************************************************************************)
EXTENDS Integers

CONSTANT MaxSessions   \* MAX_SESSIONS, 100 in the code

ASSUME MaxSessionsAssumption == MaxSessions \in Nat \ {0}

VARIABLE spool

Sids == 1 .. MaxSessions

NoSessions == [s \in Sids |-> 0]

IsFree(s) == spool[s] = 0

\* The first free slot.  "No check for filled pool": the loop then ends one
\* behind the last slot, and this index is returned as a session id.
NewSid ==
  IF \E s \in Sids : IsFree(s)
  THEN CHOOSE s \in Sids : IsFree(s) /\ \A r \in Sids : IsFree(r) => s <= r
  ELSE MaxSessions + 1

NewSession(uid) ==
  spool' = [s \in Sids |-> IF s = NewSid THEN uid ELSE spool[s]]

\* The word behind the last slot is that of the mutex, which the reader holds:
\* it is 1, or 2 if another thread waits for it.
UidsFromSid(sid) == IF sid \in Sids THEN {spool[sid]} ELSE {1, 2}

\* Mutant of CloseSession: the slot of the next session is cleared.
CloseSession_Next(sid) ==
  spool' = [s \in Sids |-> IF s = sid + 1 THEN 0 ELSE spool[s]]

CloseSession(sid) ==
  spool' = [s \in Sids |-> IF s = sid THEN 0 ELSE spool[s]]
=============================================================================
