----------------------------- MODULE MCDatabase -----------------------------
(***************************************************************************)
(* Instances of Database for TLC: who calls, which calls, which files.     *)
(***************************************************************************)
EXTENDS DatabaseAtomic, DatabaseClaims, TLC

CONSTANTS server, tdb

Symmetry == Permutations(Threads)

\* All threads run in the server, or each thread is a process of its own.
OneProcess     == [t \in Threads |-> server]
OneThreadEach  == CHOOSE f \in [Threads -> Procs] :
                    \A t, u \in Threads : f[t] = f[u] => t = u

User(i, n, a)    == [id |-> i, uname |-> n, aid |-> a, info |-> "old"]
Account(i, b)    == [id |-> i, balance |-> b]
Trans(i, a)      == [id |-> i, aid |-> a, uid |-> 1, old |-> 0, new |-> 1]
On(fn, r, limit) == [fn |-> fn, rec |-> r, limit |-> limit]

Names    == {"ann", "bob", "eve", "joe"}
Details  == {"old", "new"}

\* Two users on two accounts; account 3 has no user.
Stored == [f \in Files |->
  CASE f = "user"    -> <<User(1, "ann", 1), User(2, "bob", 2)>>
    [] f = "account" -> <<Account(1, 5), Account(2, 0), Account(3, 1)>>
    [] f = "trans"   -> <<Trans(1, 1), Trans(2, 2)>>]
Empty == [f \in Files |-> <<>>]

\* A third user, behind the one that is updated.
ThreeUsers ==
  [Stored EXCEPT !["user"] = Append(@, User(3, "joe", 2))]

SomeFiles == {Stored}
MoreUsers == {ThreeUsers}

Lookups ==
  { On("get_user_from_id", User(2, NoName, 0), 0),
    On("get_user_from_uname", User(0, "bob", 0), 0),
    On("get_account_from_id", Account(3, 0), 0),
    On("get_users", User(0, NoName, 0), 2),
    On("get_accounts", Account(0, 0), 5),
    On("get_num_users", User(0, NoName, 0), 0),
    On("get_num_accounts", Account(0, 0), 0) }

Additions ==
  { On("create_user", [User(0, "eve", 3) EXCEPT !.info = "new"], 0),
    On("create_account", Account(0, 4), 0) }

Clashes ==
  { On("create_user", User(0, "bob", 1), 0),
    On("create_user", User(0, "eve", 4), 0),
    On("delete_account", Account(2, 0), 0),
    On("delete_user", User(3, NoName, 0), 0),
    On("get_user_from_uname", User(0, "eve", 0), 0),
    On("get_account_from_id", Account(4, 0), 0),
    On("update_account", Account(4, 1), 0) }

Changes ==
  { On("update_user", [User(2, NoName, 0) EXCEPT !.info = "new"], 0),
    On("update_account", Account(2, 9), 0) }

Removals ==
  { On("delete_user", User(1, NoName, 0), 0),
    On("delete_account", Account(3, 0), 0) }

JournalOps ==
  { On("append_transaction", Trans(0, 1), 0),
    On("get_num_transactions", Trans(0, 1), 0),
    On("get_transactions", Trans(0, 1), 2) }

EveryOp  == Lookups \cup Additions \cup Changes \cup Removals \cup JournalOps

\* One call of each kind, all about the same few records; the update tries to
\* rename bob and to move his account.
Eve    == [User(0, "eve", 3) EXCEPT !.info = "new"]
Rename == [User(2, "eve", 3) EXCEPT !.info = "new"]

CoreOps ==
  { On("create_user", Eve, 0), On("create_account", Account(0, 4), 0),
    On("update_user", Rename, 0),
    On("delete_user", User(1, NoName, 0), 0),
    On("delete_account", Account(3, 0), 0),
    On("append_transaction", Trans(0, 1), 0),
    On("get_transactions", Trans(0, 1), 2) }

\* What two processes do to the user file, and a listing of the accounts.
ProcOps ==
  { On("create_user", Eve, 0), On("update_user", Rename, 0),
    On("delete_user", User(1, NoName, 0), 0),
    On("delete_user", User(2, NoName, 0), 0),
    On("get_users", User(0, NoName, 0), 3),
    On("create_account", Account(0, 4), 0),
    On("get_accounts", Account(0, 0), 4) }

\* The pairs of calls behind the findings.
UpdateAndDelete ==
  {On("update_user", [User(2, NoName, 0) EXCEPT !.info = "new"], 0),
   On("delete_user", User(1, NoName, 0), 0)}
UserOps ==
  {On("create_user", User(0, "eve", 1), 0),
   On("delete_user", User(1, NoName, 0), 0)}

EveryCase == EveryOp \cup Clashes
=============================================================================
