-------------------------- MODULE ServerProperties --------------------------
(***************************************************************************)
(* What the server owes its clients.                                       *)
(***************************************************************************)
EXTENDS Server

Answered(t, action) ==
  at[t] = "ready" /\ req[t].action = action /\ resp[t].stat = "Success"
-----------------------------------------------------------------------------
(* Whatever requests run at the same time.                                 *)

\* A session id names the user who logged in with it, and no two clients hold
\* the same one: threads that open, look up and close sessions share the pool
\* without mixing them up, until the server is restarted.  (At most as many
\* sessions as the pool has slots: there is "No check for filled pool".)
SessionNamesItsUser ==
  \A t \in Threads : owner[t] # 0 =>
     /\ sid[t] \in Sids
     /\ spool[sid[t]] = owner[t]
     /\ \A v \in Threads \ {t} : owner[v] # 0 => sid[v] # sid[t]

\* No account is overdrawn: funds are checked against a balance that other
\* threads may change before the new one is written.
BalanceNeverNegative ==
  \A i \in DOMAIN file["account"] : file["account"][i].balance >= 0

\* A transaction reported as successful is in the journal, with the user, the
\* account and the balances of the response, and stays there.
SuccessIsLogged ==
  \A t \in Threads : Answered(t, "Transaction") =>
     op[t].rec \in Range(file["trans"])

\* Every entry of the journal is on the account of the user who made it, as
\* long as user ids are not given out again after a restart.
JournalNamesOwner ==
  \A r \in Range(file["trans"]) : \A v \in UserCopies :
     v.id = r.uid => v.aid = r.aid

\* view_details sends as many items as it has announced, all of them entries of
\* the user's account and in the order of the journal, though others append
\* between the count and the list.
DetailsAreComplete ==
  \A t \in Threads : Answered(t, "ViewDetails") =>
     LET items   == resp[t].items
         history == History(user[t].aid)
     IN /\ Len(items) = resp[t].num
        /\ Len(items) <= Len(history)
        /\ items = SubSeq(history, 1, Len(items))
-----------------------------------------------------------------------------
(* As long as nobody deletes.                                              *)

\* get_users and get_accounts send no item that was not read from the file: a
\* list has grown, never shrunk, since its length was announced.
ListsAreFilled ==
  \A t \in Threads : NoRec \notin Range(resp[t].items)

\* A write changes an existing record of a user only if that user or an
\* administrator asked, and an account only if one of its users asked - the
\* position written was found while other threads were writing.
OthersAreLeftAlone ==
  [][ /\ \A i \in DOMAIN file["user"] :
           file'["user"][i] = file["user"][i] \/
           \E t \in Threads : /\ pc[t] = "write" /\ pc'[t] = "wunlock"
                              /\ \/ user[t].info.is_admin
                                 \/ user[t].id = file["user"][i].id
      /\ \A i \in DOMAIN file["account"] :
           file'["account"][i] = file["account"][i] \/
           \E t \in Threads : /\ pc[t] = "write" /\ pc'[t] = "wunlock"
                              /\ user[t].aid = file["account"][i].id ]_allvars
-----------------------------------------------------------------------------
(* As long as requests come one at a time.                                 *)

Settled(aid) ==
  \A t \in Threads :
     user[t].aid = aid /\ req[t].action = "Transaction" => at[t] = "ready"

\* What the first n entries of a journal have added to an account: a function
\* of n.
BookedIn(s, aid) ==
  LET b[n \in 0 .. Len(s)] ==
        IF n = 0 THEN 0
        ELSE b[n - 1] + (IF s[n].aid = aid THEN s[n].new - s[n].old ELSE 0)
  IN b

Booked(aid) == BookedIn(file["trans"], aid)[Len(file["trans"])]

\* The balance of an account is the sum of its journal entries when no
\* transaction is under way: an amount reported as booked has changed the
\* balance by just that much.
BooksBalance ==
  \A a \in Range(file["account"]) : Settled(a.id) => a.balance = Booked(a.id)

\* Only modify_user gives or takes the rights of an administrator; a change of
\* the password, which writes the whole record back, does not.
RightsAreModified ==
  [][ \A i \in DOMAIN file["user"] \cap DOMAIN file'["user"] :
        LET a == file["user"][i]
            b == file'["user"][i]
        IN a.id = b.id /\ a.info.is_admin # b.info.is_admin =>
             \E t \in Threads : req[t].action = "ModifyUser" /\ at[t] = "last"
                                /\ req[t].uid = a.id ]_allvars
-----------------------------------------------------------------------------
(* Progress.                                                               *)

\* Every request that a thread of the server has taken is answered.
EveryRequestIsAnswered ==
  \A t \in Threads : at[t] # "ready" ~> at[t] = "ready"
=============================================================================
