----------------------------- MODULE RecordFile -----------------------------
(***************************************************************************)
(* The three files of lib/database.c (user.dat, account.dat and            *)
(* transaction.dat) as sequences of fixed-size records, and what the file  *)
(* system calls of that code do to such a sequence.                        *)
(*                                                                         *)
(* A position is the number of whole records before the file offset, so    *)
(* the record at position p is f[p + 1].  Every read and write of the code *)
(* moves exactly one record, hence offsets are always whole records.       *)
(***************************************************************************)
EXTENDS Integers, Sequences, Functions

CONSTANTS
  UNames,   \* user names
  NoName,   \* the empty user name of a zero-filled record
  Infos,    \* name, password and admin flag of a user, taken together
  NoInfo    \* what a zero-filled record holds there

Files == {"user", "account", "trans"}

UserRec    == [id : Nat, uname : UNames \cup {NoName}, aid : Nat,
               info : Infos \cup {NoInfo}]
AccountRec == [id : Nat, balance : Int]
TransRec   == [id : Nat, aid : Nat, uid : Nat, old : Int, new : Int]

RecOf(f) == [user |-> UserRec, account |-> AccountRec, trans |-> TransRec][f]

\* What a hole in the file reads as: bytes that nobody wrote are zero.
ZeroRec(f) ==
  [user    |-> [id |-> 0, uname |-> NoName, aid |-> 0, info |-> NoInfo],
   account |-> [id |-> 0, balance |-> 0],
   trans   |-> [id |-> 0, aid |-> 0, uid |-> 0, old |-> 0, new |-> 0]][f]

Ids(s) == {s[i].id : i \in DOMAIN s}

\* write() at position p: past the end of the file it leaves a zero-filled hole.
WriteAt(s, p, r, zero) ==
  [i \in 1 .. (IF p < Len(s) THEN Len(s) ELSE p + 1) |->
     IF i = p + 1 THEN r ELSE IF i <= Len(s) THEN s[i] ELSE zero]

\* ftruncate() to n records: beyond the end of the file it extends it with zeros.
Resize(s, n, zero) ==
  [i \in 1 .. n |-> IF i <= Len(s) THEN s[i] ELSE zero]
=============================================================================
