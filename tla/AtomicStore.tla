---------------------------- MODULE AtomicStore ----------------------------
(***************************************************************************)
(* What lib/database.h promises: each call takes effect in one step        *)
(* somewhere between the moment it is made and the moment it returns, and  *)
(* its answer is the one that step gave.                                   *)
(***************************************************************************)
EXTENDS DatabaseApi, SequencesExt

CONSTANTS Clients, Ops, InitFiles

VARIABLES
  table,    \* the records of each file
  req,      \* the call each client has made
  phase,    \* "idle" (no call yet), "called" or "answered"
  answer    \* of the calls that have taken effect: status and records

svars == <<table, req, phase, answer>>

NoAnswer == [status |-> 0, recs |-> <<>>]
NoCall   == [fn |-> "get_num_users", rec |-> ZeroRec("user"), limit |-> 0]

Answer(c, status, recs) ==
  answer' = [answer EXCEPT ![c] = [status |-> status, recs |-> recs]]
Store(f, s) == table' = [table EXCEPT ![f] = s]
Reject(c, status) == Answer(c, status, <<>>) /\ UNCHANGED table

Fn(c)  == req[c].fn
Arg(c) == req[c].rec
Of(c)  == table[TableOf(Fn(c))]

\* The records a call is about, by their positions.
Hits(c) ==
  {i \in DOMAIN Of(c) : IF Fn(c) = "get_user_from_uname"
                        THEN Of(c)[i].uname = Arg(c).uname
                        ELSE Of(c)[i].id = Arg(c).id}

Named(n)  == \E i \in DOMAIN table["user"] : table["user"][i].uname = n
Linked(a) == \E i \in DOMAIN table["user"] : table["user"][i].aid = a
Exists(a) == \E i \in DOMAIN table["account"] : table["account"][i].id = a

FirstOf(s, n) == SubSeq(s, 1, IF n < Len(s) THEN n ELSE Len(s))
-----------------------------------------------------------------------------
Get(c) ==
  /\ Fn(c) \in Gets
  /\ \/ \E i \in Hits(c) : Answer(c, 0, <<Of(c)[i]>>) /\ UNCHANGED table
     \/ Hits(c) = {} /\ Reject(c, ENOTFOUND)

Count(c) ==
  /\ Fn(c) \in Counts
  /\ Answer(c, Len(Of(c)), <<>>)
  /\ UNCHANGED table

\* All records, or those of one account, as far as the array reaches.
List(c) ==
  LET all    == IF TableOf(Fn(c)) = "trans"
                THEN HistoryIn(Of(c), Arg(c).aid)[Len(Of(c))] ELSE Of(c)
      listed == IF Fn(c) = "get_num_transactions" THEN all
                ELSE FirstOf(all, req[c].limit)
  IN /\ Fn(c) \in Bulk
     /\ Answer(c, Len(listed), listed)
     /\ UNCHANGED table

\* The new record gets an id that no stored record has.
Create(c) ==
  LET f == TableOf(Fn(c))
  IN /\ Fn(c) \in Creates
     /\ Fn(c) = "create_user" => ~Named(Arg(c).uname) /\ Exists(Arg(c).aid)
     /\ \E n \in Ids(table'[f]) \ Ids(table[f]) :
          LET r == [Arg(c) EXCEPT !.id = n]
          IN Store(f, Append(table[f], r)) /\ Answer(c, 0, <<r>>)

CreateRefused(c) ==
  /\ Fn(c) = "create_user"
  /\ Named(Arg(c).uname) \/ ~Exists(Arg(c).aid)
  /\ Reject(c, ECONFLICT)

\* A user keeps the name and the account it has.
Update(c) ==
  /\ Fn(c) \in Updates
  /\ \E i \in Hits(c) :
       LET r == IF Fn(c) = "update_user"
                THEN [Arg(c) EXCEPT !.uname = Of(c)[i].uname,
                                    !.aid = Of(c)[i].aid]
                ELSE Arg(c)
       IN Store(TableOf(Fn(c)), [Of(c) EXCEPT ![i] = r])
  /\ Answer(c, 0, <<>>)

Delete(c) ==
  /\ Fn(c) \in Deletes
  /\ Fn(c) = "delete_account" => ~Linked(Arg(c).id)
  /\ \E i \in Hits(c) : Store(TableOf(Fn(c)), RemoveAt(Of(c), i))
  /\ Answer(c, 0, <<>>)

DeleteRefused(c) ==
  /\ Fn(c) = "delete_account"
  /\ Linked(Arg(c).id)
  /\ Reject(c, ECONFLICT)

NotFound(c) ==
  /\ Fn(c) \in Updates \cup Deletes
  /\ Fn(c) = "delete_account" => ~Linked(Arg(c).id)
  /\ Hits(c) = {}
  /\ Reject(c, ENOTFOUND)
-----------------------------------------------------------------------------
Invoke(c) ==
  /\ phase[c] # "called"
  /\ \E o \in Ops : req' = [req EXCEPT ![c] = o]
  /\ phase'  = [phase EXCEPT ![c] = "called"]
  /\ answer' = [answer EXCEPT ![c] = NoAnswer]
  /\ UNCHANGED table

TakeEffect(c) ==
  /\ phase[c] = "called"
  /\ phase' = [phase EXCEPT ![c] = "answered"]
  /\ \/ Get(c) \/ Count(c) \/ List(c) \/ Create(c) \/ CreateRefused(c)
     \/ Update(c) \/ Delete(c) \/ DeleteRefused(c) \/ NotFound(c)
  /\ UNCHANGED req

SInit ==
  /\ table \in InitFiles
  /\ req    = [c \in Clients |-> NoCall]
  /\ phase  = [c \in Clients |-> "idle"]
  /\ answer = [c \in Clients |-> NoAnswer]

SNext == \E c \in Clients : Invoke(c) \/ TakeEffect(c)

SSpec == SInit /\ [][SNext]_svars
=============================================================================
