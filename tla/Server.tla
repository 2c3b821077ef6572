------------------------------- MODULE Server -------------------------------
(***************************************************************************)
(* server.c: the controllers, each a sequence of calls to the session pool *)
(* and the database, in the threads that handle_request starts; and the    *)
(* clients, as far as they decide which request comes with which session.  *)
(*                                                                         *)
(* A client has one request under way at a time and the server one thread  *)
(* for it, so a client and the thread that serves it share their name.     *)
(***************************************************************************)
EXTENDS Database, Sessions

CONSTANTS
  Requests,     \* what clients may send, after communicate.h
  MaxRequests   \* bound: requests of each client

AdminActions == {"CreateUser", "ModifyUser", "GetUsers", "DeleteUser",
                 "GetAccounts", "DeleteAccount"}

Actions == AdminActions \cup
  {"Login", "Transaction", "BalanceEnquiry", "PasswordChange", "ViewDetails",
   "Logout"}

\* The structs of communicate.h, as far as the controllers look at them.
RequestOk(r) ==
  /\ r.action \in Actions
  /\ r.action \in {"Login", "CreateUser"} => r.uname \in UNames
  /\ r.action \in {"CreateUser", "ModifyUser"} => r.info \in Infos
  /\ r.action = "PasswordChange" => \A i \in Infos \cup {NoInfo} :
        [i EXCEPT !.password = r.password] \in Infos
  /\ r.action \in {"ModifyUser", "DeleteUser"} => r.uid \in Nat
  /\ r.action \in {"CreateUser", "DeleteAccount"} => r.aid \in Nat
  /\ r.action = "Transaction" => r.amt \in Int

\* The name, the password and the rights of a user; the name is of no use here.
ASSUME InfosAssumption ==
  \A i \in Infos \cup {NoInfo} :
     i = [password |-> i.password, is_admin |-> i.is_admin]
ASSUME RequestsAssumption == \A r \in Requests : RequestOk(r)

VARIABLES
  sid,       \* the session id each client holds, 0 if none
  owner,     \* history: the user it belongs to, 0 once it is of no use
  req,       \* the request being served, or the last one
  at,        \* what the controller is waiting for
  user,      \* its UserModel u
  acc,       \* its AccountModel acc
  resp,      \* the response and the items sent after it
  requests   \* requests sent by each client

clients == <<sid, owner, requests>>
locals  == <<user, acc>>
svars   == <<spool, clients, req, at, locals, resp>>
allvars == <<vars, svars>>

NoRequest == [action |-> "None"]

Respond(stat)    == [stat |-> stat, num |-> 0, items |-> <<>>]
On(fn, r, limit) == [fn |-> fn, rec |-> r, limit |-> limit]
AUser(uid)       == [ZeroRec("user") EXCEPT !.id = uid]
AnAccount(aid)   == [ZeroRec("account") EXCEPT !.id = aid]

Await(t, a, b) == at[t] = a /\ at' = [at EXCEPT ![t] = b]
Returned(t, a) == at[t] = a /\ pc[t] = "done"
Reply(t, r)    == /\ resp' = [resp EXCEPT ![t] = r]
                  /\ at' = [at EXCEPT ![t] = "ready"]
-----------------------------------------------------------------------------
(* A connection: handle_request reads the header and picks the controller. *)

Awaited(action) ==
  IF action = "Login" THEN "login"
  ELSE IF action = "Logout" THEN "logout" ELSE "session"

Request(t) ==
  /\ at[t] = "ready"
  /\ boot[Proc(t)] = "up"
  /\ requests[t] < MaxRequests
  /\ \E r \in Requests :
        /\ r.action = "Login" <=> sid[t] = 0
        /\ req' = [req EXCEPT ![t] = r]
        /\ at' = [at EXCEPT ![t] = Awaited(r.action)]
  /\ resp' = [resp EXCEPT ![t] = Respond("None")]
  /\ requests' = [requests EXCEPT ![t] = @ + 1]
  /\ UNCHANGED <<vars, spool, sid, owner, locals>>

\* The client is closed without logging out; its slot stays taken.
Leave(t) ==
  /\ at[t] = "ready"
  /\ sid[t] # 0
  /\ sid' = [sid EXCEPT ![t] = 0]
  /\ owner' = [owner EXCEPT ![t] = 0]
  /\ UNCHANGED <<vars, spool, requests, req, at, locals, resp>>
-----------------------------------------------------------------------------
(* login_controller and logout_controller.                                 *)

FindLogin(t) ==
  /\ Await(t, "login", "password")
  /\ Invoke(t, On("get_user_from_uname",
                  [ZeroRec("user") EXCEPT !.uname = req[t].uname], 0))
  /\ UNCHANGED <<spool, clients, req, locals, resp>>

RejectLogin(t) ==
  /\ Returned(t, "password")
  /\ \/ ret[t] < 0 /\ Reply(t, Respond("Failure"))
     \/ /\ ret[t] >= 0
        /\ iter[t].info.password # req[t].password
        /\ Reply(t, Respond("Unauthorized"))
  /\ UNCHANGED <<vars, spool, clients, req, locals>>

OpenSession(t) ==
  /\ Returned(t, "password")
  /\ ret[t] >= 0
  /\ iter[t].info.password = req[t].password
  /\ NewSession(iter[t].id)
  /\ sid' = [sid EXCEPT ![t] = NewSid]
  /\ owner' = [owner EXCEPT ![t] = iter[t].id]
  /\ user' = [user EXCEPT ![t] = iter[t]]
  /\ Reply(t, Respond("Success"))
  /\ UNCHANGED <<vars, requests, req, acc>>

Logout(t) ==
  /\ at[t] = "logout"
  /\ CloseSession(sid[t])
  /\ sid' = [sid EXCEPT ![t] = 0]
  /\ owner' = [owner EXCEPT ![t] = 0]
  /\ Reply(t, Respond("Success"))
  /\ UNCHANGED <<vars, requests, req, locals>>
-----------------------------------------------------------------------------
(* The start of every other controller: who is asking, and is he allowed?  *)

FindUser(t) ==
  /\ Await(t, "session", "user")
  /\ \E uid \in UidsFromSid(sid[t]) :
        Invoke(t, On("get_user_from_id", AUser(uid), 0))
  /\ UNCHANGED <<spool, clients, req, locals, resp>>

Allowed(r, u) == r.action \in AdminActions => u.info.is_admin

\* "User can't delete himself".
DeletesHimself(r, u) == r.action = "DeleteUser" /\ r.uid = u.id

Refuse(t) ==
  /\ Returned(t, "user")
  /\ \/ ret[t] < 0 /\ Reply(t, Respond("Failure"))
     \/ /\ ret[t] >= 0
        /\ ~Allowed(req[t], iter[t])
        /\ Reply(t, Respond("Unauthorized"))
     \/ /\ ret[t] >= 0
        /\ Allowed(req[t], iter[t])
        /\ DeletesHimself(req[t], iter[t])
        /\ Reply(t, Respond("NotFound"))
  /\ UNCHANGED <<vars, spool, clients, req, locals>>

Permitted(t) ==
  /\ Returned(t, "user")
  /\ ret[t] >= 0
  /\ Allowed(req[t], iter[t])
  /\ ~DeletesHimself(req[t], iter[t])
  /\ user' = [user EXCEPT ![t] = iter[t]]
  /\ UNCHANGED <<spool, clients, req, acc, resp>>

\* The last call of a request: what it returns is the response.
LastCall(t, o) == at' = [at EXCEPT ![t] = "last"] /\ Invoke(t, o)
-----------------------------------------------------------------------------
(* Controllers that change users: password_change, modify_user,            *)
(* create_user, delete_user and delete_account.                            *)

\* Mutant of PasswordOf: the rights of the user are reset.
PasswordOf_Demotes(u, password) ==
  [u EXCEPT !.info = [password |-> password, is_admin |-> FALSE]]

\* password_change_controller writes the user back that it has read.
PasswordOf(u, password) == [u EXCEPT !.info.password = password]

ChangePassword(t) ==
  /\ Permitted(t)
  /\ req[t].action = "PasswordChange"
  /\ LastCall(t, On("update_user", PasswordOf(iter[t], req[t].password), 0))

ModifyUser(t) ==
  /\ Permitted(t)
  /\ req[t].action = "ModifyUser"
  /\ LastCall(t, On("update_user",
                    [AUser(req[t].uid) EXCEPT !.info = req[t].info], 0))

NewUser(r, aid) ==
  [id |-> 0, uname |-> r.uname, aid |-> aid, info |-> r.info]

CreateJointUser(t) ==
  /\ Permitted(t)
  /\ req[t].action = "CreateUser" /\ req[t].aid # 0
  /\ LastCall(t, On("create_user", NewUser(req[t], req[t].aid), 0))

\* aid is "0 if creating new account".
CreateAccount(t) ==
  /\ Permitted(t)
  /\ req[t].action = "CreateUser" /\ req[t].aid = 0
  /\ at' = [at EXCEPT ![t] = "newaccount"]
  /\ Invoke(t, On("create_account", AnAccount(0), 0))

\* "No error checks for code simplicity": whatever create_account returned.
CreateUser(t) ==
  /\ Returned(t, "newaccount")
  /\ LastCall(t, On("create_user", NewUser(req[t], op[t].rec.id), 0))
  /\ UNCHANGED <<spool, clients, req, locals, resp>>

Delete(t) ==
  /\ Permitted(t)
  /\ \/ /\ req[t].action = "DeleteUser"
        /\ LastCall(t, On("delete_user", AUser(req[t].uid), 0))
     \/ /\ req[t].action = "DeleteAccount"
        /\ LastCall(t, On("delete_account", AnAccount(req[t].aid), 0))

\* transaction_controller does not look at what append_transaction returned.
StatusOf(action, status) ==
  IF status >= 0 \/ action = "Transaction" THEN "Success"
  ELSE IF status = ENOTFOUND /\ action # "PasswordChange" THEN "NotFound"
  ELSE IF status = ECONFLICT THEN "Conflict" ELSE "Failure"

Finish(t) ==
  /\ Returned(t, "last")
  /\ Reply(t, Respond(StatusOf(req[t].action, ret[t])))
  /\ UNCHANGED <<vars, spool, clients, req, locals>>
-----------------------------------------------------------------------------
(* transaction_controller, balance_enquiry_controller.                     *)

FindAccount(t) ==
  /\ Permitted(t)
  /\ req[t].action \in {"Transaction", "BalanceEnquiry", "ViewDetails"}
  /\ at' = [at EXCEPT ![t] = "account"]
  /\ Invoke(t, On("get_account_from_id", AnAccount(iter[t].aid), 0))

\* Mutant of Covered: the amount is not looked at.
Covered_Before(balance, amt) == balance >= 0

Covered(balance, amt) == balance + amt >= 0

\* Balance enquiries end here, so do transactions without funds.
AnswerAccount(t) ==
  /\ Returned(t, "account")
  /\ \/ ret[t] < 0 /\ Reply(t, Respond("Failure"))
     \/ /\ ret[t] >= 0 /\ req[t].action = "BalanceEnquiry"
        /\ Reply(t, [Respond("Success") EXCEPT !.items = <<iter[t]>>])
     \/ /\ ret[t] >= 0 /\ req[t].action = "Transaction"
        /\ ~Covered(iter[t].balance, req[t].amt)
        /\ Reply(t, Respond("NoFunds"))
  /\ UNCHANGED <<vars, spool, clients, req, locals>>

StoreBalance(t) ==
  /\ Returned(t, "account") /\ Await(t, "account", "stored")
  /\ ret[t] >= 0 /\ req[t].action = "Transaction"
  /\ Covered(iter[t].balance, req[t].amt)
  /\ acc' = [acc EXCEPT ![t] = iter[t]]
  /\ Invoke(t, On("update_account",
                  [iter[t] EXCEPT !.balance = @ + req[t].amt], 0))
  /\ UNCHANGED <<spool, clients, req, user, resp>>

StoreFails(t) ==
  /\ Returned(t, "stored")
  /\ ret[t] < 0
  /\ Reply(t, Respond("Failure"))
  /\ UNCHANGED <<vars, spool, clients, req, locals>>

\* Mutant of LogEntry: the old balance is logged twice.
LogEntry_OldTwice(t) ==
  [id |-> 0, aid |-> user[t].aid, uid |-> user[t].id,
   old |-> acc[t].balance, new |-> acc[t].balance]

LogEntry(t) ==
  [id |-> 0, aid |-> user[t].aid, uid |-> user[t].id,
   old |-> acc[t].balance, new |-> acc[t].balance + req[t].amt]

LogTransaction(t) ==
  /\ Returned(t, "stored")
  /\ ret[t] >= 0
  /\ LastCall(t, On("append_transaction", LogEntry(t), 0))
  /\ UNCHANGED <<spool, clients, req, locals, resp>>
-----------------------------------------------------------------------------
(* view_details_controller, get_users_controller, get_accounts_controller: *)
(* a count is read and sent, then that many items.                         *)

Count(t) ==
  /\ Permitted(t)
  /\ at' = [at EXCEPT ![t] = "count"]
  /\ \/ /\ req[t].action = "GetUsers"
        /\ Invoke(t, On("get_num_users", ZeroRec("user"), 0))
     \/ /\ req[t].action = "GetAccounts"
        /\ Invoke(t, On("get_num_accounts", ZeroRec("account"), 0))

CountTransactions(t) ==
  /\ Returned(t, "account") /\ Await(t, "account", "count")
  /\ ret[t] >= 0 /\ req[t].action = "ViewDetails"
  /\ acc' = [acc EXCEPT ![t] = iter[t]]
  /\ Invoke(t, On("get_num_transactions",
                  [ZeroRec("trans") EXCEPT !.aid = user[t].aid], 0))
  /\ UNCHANGED <<spool, clients, req, user, resp>>

CountFails(t) ==
  /\ Returned(t, "count")
  /\ ret[t] < 0
  /\ Reply(t, Respond("Failure"))
  /\ UNCHANGED <<vars, spool, clients, req, locals>>

Listing(action) ==
  [GetUsers |-> "get_users", GetAccounts |-> "get_accounts",
   ViewDetails |-> "get_transactions"][action]

\* The response with the count goes out before the list is read.
Announce(t) ==
  /\ Returned(t, "count") /\ Await(t, "count", "list")
  /\ ret[t] >= 0
  /\ resp' = [resp EXCEPT ![t] = [Respond("Success") EXCEPT !.num = ret[t]]]
  /\ Invoke(t, On(Listing(req[t].action), op[t].rec, ret[t]))
  /\ UNCHANGED <<spool, clients, req, locals>>

\* Mutant of Items: from the second place on.
Items_OffByOne(t) ==
  [i \in 1 .. resp[t].num |-> IF i < Len(out[t]) THEN out[t][i + 1] ELSE NoRec]

\* The array the list was read into, from its first to its last place; places
\* that were not written hold whatever malloc() left there (NoRec).
Items(t) ==
  [i \in 1 .. resp[t].num |-> IF i <= Len(out[t]) THEN out[t][i] ELSE NoRec]

\* If the list cannot be read, one item says so.
SendItems(t) ==
  /\ Returned(t, "list")
  /\ Reply(t, IF ret[t] < 0 THEN [resp[t] EXCEPT !.stat = "ItemFailure"]
              ELSE [resp[t] EXCEPT !.items = Items(t)])
  /\ UNCHANGED <<vars, spool, clients, req, locals>>
-----------------------------------------------------------------------------
(* The process ends under its threads and is started again: the sessions   *)
(* are forgotten, the clients keep their ids.                              *)

Stop(p) ==
  LET lost(x, y) == [t \in Threads |-> IF Proc(t) = p THEN y ELSE x[t]]
  IN /\ Crash(p)
     /\ spool' = NoSessions
     /\ owner' = lost(owner, 0)
     /\ req'   = lost(req, NoRequest)
     /\ at'    = lost(at, "ready")
     /\ user'  = lost(user, ZeroRec("user"))
     /\ acc'   = lost(acc, ZeroRec("account"))
     /\ resp'  = lost(resp, Respond("None"))
     /\ UNCHANGED <<sid, requests>>

Start(p) == InitCounter(p) /\ UNCHANGED svars

ServerInit ==
  /\ Init
  /\ spool    = NoSessions
  /\ sid      = [t \in Threads |-> 0]
  /\ owner    = [t \in Threads |-> 0]
  /\ req      = [t \in Threads |-> NoRequest]
  /\ at       = [t \in Threads |-> "ready"]
  /\ user     = [t \in Threads |-> ZeroRec("user")]
  /\ acc      = [t \in Threads |-> ZeroRec("account")]
  /\ resp     = [t \in Threads |-> Respond("None")]
  /\ requests = [t \in Threads |-> 0]

\* Everything the server does for a request it has accepted.
Serve(t) ==
  \/ Step(t) /\ UNCHANGED svars
  \/ FindLogin(t) \/ RejectLogin(t) \/ OpenSession(t) \/ Logout(t)
  \/ FindUser(t) \/ Refuse(t)
  \/ ChangePassword(t) \/ ModifyUser(t) \/ CreateJointUser(t)
  \/ CreateAccount(t) \/ CreateUser(t) \/ Delete(t) \/ Finish(t)
  \/ FindAccount(t) \/ AnswerAccount(t) \/ StoreBalance(t) \/ StoreFails(t)
  \/ LogTransaction(t)
  \/ Count(t) \/ CountTransactions(t) \/ CountFails(t) \/ Announce(t)
  \/ SendItems(t)

\* Every client has sent its requests.
AllServed ==
  /\ \A p \in Procs : boot[p] = "up"
  /\ \A t \in Threads : at[t] = "ready" /\ requests[t] = MaxRequests
  /\ UNCHANGED allvars

ServerNext ==
  \/ \E t \in Threads : Request(t) \/ Leave(t) \/ Serve(t)
  \/ \E p \in Procs : Start(p) \/ Stop(p)
  \/ AllServed

ServerSpec == ServerInit /\ [][ServerNext]_allvars

\* Every thread of the server is scheduled; clients may stop asking.
ServerFairness ==
  /\ \A t \in Threads : WF_allvars(Serve(t))
  /\ \A p \in Procs : WF_allvars(Start(p))

FairServerSpec == ServerSpec /\ ServerFairness
=============================================================================
