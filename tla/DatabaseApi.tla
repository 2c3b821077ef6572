---------------------------- MODULE DatabaseApi ----------------------------
(***************************************************************************)
(* lib/database.h: the functions of the database, the records they work    *)
(* on and the status codes they return.                                    *)
(*                                                                         *)
(* A call is a record [fn, rec, limit]: the function, the model struct (or *)
(* the key, as the one field that matters of such a struct) it is given,   *)
(* and for the bulk getters the size of the caller's array.                *)
(***************************************************************************)
EXTENDS RecordFile

EFAIL     == -100
ENOTFOUND == -101
ECONFLICT == -102

Creates  == {"create_user", "create_account", "append_transaction"}
Updates  == {"update_user", "update_account"}
Deletes  == {"delete_user", "delete_account"}
Gets     == {"get_user_from_id", "get_user_from_uname", "get_account_from_id"}
Bulk     == {"get_users", "get_accounts", "get_num_transactions",
             "get_transactions"}
Counts   == {"get_num_users", "get_num_accounts"}
Fns      == Creates \cup Updates \cup Deletes \cup Gets \cup Bulk \cup Counts

UserFns  == {"create_user", "update_user", "delete_user", "get_user_from_id",
             "get_user_from_uname", "get_users", "get_num_users"}
TransFns == {"append_transaction", "get_num_transactions", "get_transactions"}

TableOf(fn) == IF fn \in UserFns THEN "user"
               ELSE IF fn \in TransFns THEN "trans" ELSE "account"

OpOk(o) == /\ o = [fn |-> o.fn, rec |-> o.rec, limit |-> o.limit]
           /\ o.fn \in Fns
           /\ o.rec \in RecOf(TableOf(o.fn))
           /\ o.limit \in Nat

\* The entries of an account among the first n of a journal, in their order: a
\* function of n.
HistoryIn(s, aid) ==
  LET h[n \in 0 .. Len(s)] ==
        IF n = 0 THEN <<>>
        ELSE IF s[n].aid = aid THEN Append(h[n - 1], s[n]) ELSE h[n - 1]
  IN h
=============================================================================
