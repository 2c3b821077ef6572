---------------------------- MODULE Server_proofs ----------------------------
(***************************************************************************)
(* Proofs about Server and Sessions, for any number of clients, requests,  *)
(* session slots and records.                                              *)
(***************************************************************************)
EXTENDS ServerProperties, Database_apart_proofs

(***************************************************************************)
(* The session pool.                                                       *)
(***************************************************************************)

\* The new session id is that of a free slot, or the first one behind the pool.
LEMMA NewSidIsFree ==
  \/ NewSid \in Sids /\ IsFree(NewSid)
  \/ NewSid = MaxSessions + 1 /\ \A s \in Sids : ~IsFree(s)
<1> DEFINE T == {s \in Sids : IsFree(s)}
<1>1. CASE T # {}
  <2>1. T \subseteq Nat
    BY MaxSessionsAssumption DEF Sids
  <2>2. PICK x \in T : \A y \in T : x <= y
    BY <1>1, <2>1, Least
  <2>3. NewSid = CHOOSE s \in Sids : IsFree(s) /\ \A r \in Sids : IsFree(r) => s <= r
    BY <1>1 DEF NewSid
  <2> QED
    BY <2>2, <2>3
<1>2. CASE T = {}
  BY <1>2 DEF NewSid
<1> QED
  BY <1>1, <1>2

(***************************************************************************)
(* What a call of the database is and what it brings back.                 *)
(***************************************************************************)

\* A lookup brings back a record exactly if it reports success, and then it is
\* one that was looked for.
Looked(t) ==
  op[t].fn \in Gets =>
    /\ pc[t] \in {"idle", "lock", "scan", "unlock", "close", "done"}
    /\ iter[t] # NoRec => Matches(op[t], stage[t], iter[t])
    /\ pc[t] \in {"close", "done"} /\ ret[t] >= 0 => iter[t] # NoRec

LEMMA LookedKept ==
  ASSUME TypeInv, NEW t \in Threads, Step(t), Looked(t) PROVE Looked(t)'
<1> USE DEF Goto
<1>1. /\ TypeInv /\ ThreadsOK /\ Control(t)
  BY DEF TypeInv, TypeOK
<1>2. op'[t].fn = op[t].fn
  BY <1>1, ScanSameFile, LaterSteps DEF TypeInv
<1>3. SUFFICES ASSUME op[t].fn \in Gets PROVE Looked(t)'
  BY <1>2 DEF Looked
<1>4. /\ op[t].fn \notin Updates \cup Deletes \cup Creates \cup Bulk \cup Counts
      /\ op[t].fn # "create_user" /\ op[t].fn # "delete_account"
  BY <1>3 DEF Gets, Updates, Deletes, Creates, Bulk, Counts
<1>5. /\ pc[t] \in {"idle", "lock", "scan", "unlock", "close", "done"}
      /\ iter[t] # NoRec => Matches(op[t], stage[t], iter[t])
      /\ pc[t] \in {"close", "done"} /\ ret[t] >= 0 => iter[t] # NoRec
  BY <1>3 DEF Looked
<1>6. \/ BeginScan(t) \/ ReadHit(t) \/ ReadMiss(t) \/ ReadEOF(t)
      \/ EndScan(t) \/ Close(t) \/ OpenFails(t)
  BY <1>4, <1>5
     DEF Step, ReadInto, LockRecord, Overwrite, OverwriteFails, LockTail,
         ShiftRead, ShiftWrite, ShiftWriteFails, ShiftEOF, SeekLast, Truncate,
         EndWrite, NewId, OpenForAppend, LockEnd, AppendRecord, AppendFails,
         UnlockEnd, SeekSize
<1>7. op'[t] = op[t] /\ stage'[t] = stage[t]
  BY <1>1, <1>4, <1>6
     DEF ThreadsOK, BeginScan, ReadHit, ReadMiss, ReadEOF, EndScan, Close,
         OpenFails, NextStage, HasNext, local
<1>8. CASE BeginScan(t) \/ ReadMiss(t) \/ ReadEOF(t)
  <2>1. pc'[t] \in {"scan", "unlock"} /\ iter'[t] = iter[t]
    BY <1>1, <1>8 DEF ThreadsOK, BeginScan, ReadMiss, ReadEOF, local
  <2> QED
    BY <1>5, <1>7, <2>1 DEF Looked
<1>9. CASE ReadHit(t)
  <2>1. pc'[t] = "unlock" /\ Matches(op[t], stage[t], iter'[t])
    BY <1>1, <1>9 DEF ThreadsOK, ReadHit
  <2> QED
    BY <1>7, <2>1 DEF Looked
<1>10. CASE EndScan(t)
  <2>1. ~WritesInPlace(op[t].fn, stage[t])
    BY <1>4 DEF WritesInPlace, Deletes
  <2>2. /\ pc'[t] = "close" /\ iter'[t] = iter[t]
        /\ ret'[t] = IF iter[t] # NoRec THEN 0 ELSE ENOTFOUND
    BY <1>1, <1>4, <1>10, <2>1 DEF ThreadsOK, EndScan, ScanStatus
  <2> QED
    BY <1>5, <1>7, <2>2 DEF Looked, ENOTFOUND
<1>11. CASE Close(t)
  <2>1. pc'[t] = "done" /\ iter'[t] = iter[t] /\ ret'[t] = ret[t] /\ pc[t] = "close"
    BY <1>1, <1>4, <1>11 DEF ThreadsOK, Close, NextStage, HasNext
  <2> QED
    BY <1>5, <1>7, <2>1 DEF Looked
<1>12. CASE OpenFails(t)
  <2>1. pc'[t] = "done" /\ iter'[t] = iter[t] /\ ret'[t] = EFAIL
    BY <1>1, <1>4, <1>12 DEF ThreadsOK, OpenFails
  <2> QED
    BY <1>5, <1>7, <2>1 DEF Looked, EFAIL
<1> QED
  BY <1>6, <1>8, <1>9, <1>10, <1>11, <1>12

(***************************************************************************)
(* Types.  That every call the controllers make is one of database.h       *)
(* depends on what they are waiting for, and so on which request they are  *)
(* serving and which call came before.                                     *)
(***************************************************************************)

Places == {"ready", "login", "password", "logout", "session", "user",
           "newaccount", "account", "stored", "count", "list", "last"}

ServerTypeOK ==
  /\ spool \in [Sids -> Nat]
  /\ sid \in [Threads -> Nat]
  /\ owner \in [Threads -> Nat]
  /\ requests \in [Threads -> Nat]
  /\ req \in [Threads -> Requests \cup {NoRequest}]
  /\ at \in [Threads -> Places]
  /\ user \in [Threads -> UserRec]
  /\ acc \in [Threads -> AccountRec]
  /\ DOMAIN resp = Threads

OfAccount == {"Transaction", "BalanceEnquiry", "ViewDetails"}

Listed == {<<"GetUsers", "get_num_users">>, <<"GetAccounts", "get_num_accounts">>,
           <<"ViewDetails", "get_num_transactions">>}

\* The request and the call a controller has come to its place with.
Waiting(t) ==
  LET a  == req[t].action
      fn == op[t].fn
  IN /\ at[t] = "login" => a = "Login"
     /\ at[t] = "password" => /\ a = "Login" /\ fn = "get_user_from_uname"
                              /\ op[t].rec.uname = req[t].uname
     /\ at[t] = "logout" => a = "Logout"
     /\ at[t] = "session" => a \in Actions \ {"Login", "Logout"}
     /\ at[t] = "user" => /\ a \in Actions \ {"Login", "Logout"}
                          /\ fn = "get_user_from_id"
     /\ at[t] = "newaccount" => a = "CreateUser" /\ fn = "create_account"
     /\ at[t] = "account" => /\ a \in OfAccount /\ fn = "get_account_from_id"
                             /\ op[t].rec.id = user[t].aid
     /\ at[t] = "stored" => a = "Transaction" /\ fn = "update_account"
     /\ at[t] = "count" => <<a, fn>> \in Listed
     /\ at[t] = "list" => (\E l \in Listed : a = l[1]) /\ fn = Listing(a)
     /\ at[t] = "last" => /\ a \in Actions \ {"Login", "Logout"}
                          /\ a = "Transaction" <=> fn = "append_transaction"

SInv == /\ TypeInv
        /\ ServerTypeOK
        /\ \A t \in Threads : Looked(t) /\ Waiting(t)

\* The structs the controllers fill in for their calls.
LEMMA StructTypes ==
  /\ \A n \in Nat : AUser(n) \in UserRec /\ AnAccount(n) \in AccountRec
                    /\ AUser(n).id = n /\ AnAccount(n).id = n
  /\ \A n \in Nat, i \in Infos : [AUser(n) EXCEPT !.info = i] \in UserRec
                                 /\ [AUser(n) EXCEPT !.info = i].id = n
  /\ \A n \in UNames : [ZeroRec("user") EXCEPT !.uname = n] \in UserRec
                       /\ [ZeroRec("user") EXCEPT !.uname = n].uname = n
  /\ \A n \in Nat : [ZeroRec("trans") EXCEPT !.aid = n] \in TransRec
  /\ ZeroRec("user") \in UserRec /\ ZeroRec("account") \in AccountRec
<1>1. /\ ZeroRec("user") = [id |-> 0, uname |-> NoName, aid |-> 0, info |-> NoInfo]
      /\ ZeroRec("account") = [id |-> 0, balance |-> 0]
      /\ ZeroRec("trans") = [id |-> 0, aid |-> 0, uid |-> 0, old |-> 0, new |-> 0]
  BY DEF ZeroRec
<1>2. \A n \in Nat :
        /\ AUser(n) = [id |-> n, uname |-> NoName, aid |-> 0, info |-> NoInfo]
        /\ AnAccount(n) = [id |-> n, balance |-> 0]
  BY <1>1 DEF AUser, AnAccount
<1>3. \A n \in Nat : AUser(n) \in UserRec /\ AnAccount(n) \in AccountRec
                    /\ AUser(n).id = n /\ AnAccount(n).id = n
  BY <1>2 DEF UserRec, AccountRec
<1>4. ASSUME NEW n \in Nat, NEW i \in Infos
      PROVE  [AUser(n) EXCEPT !.info = i] \in UserRec
             /\ [AUser(n) EXCEPT !.info = i].id = n
  <2>1. [AUser(n) EXCEPT !.info = i]
          = [id |-> n, uname |-> NoName, aid |-> 0, info |-> i]
    BY <1>2
  <2> QED
    BY <2>1 DEF UserRec
<1>5. ASSUME NEW n \in UNames
      PROVE  [ZeroRec("user") EXCEPT !.uname = n] \in UserRec
             /\ [ZeroRec("user") EXCEPT !.uname = n].uname = n
  <2>1. [ZeroRec("user") EXCEPT !.uname = n]
          = [id |-> 0, uname |-> n, aid |-> 0, info |-> NoInfo]
    BY <1>1
  <2> QED
    BY <2>1 DEF UserRec
<1>6. ASSUME NEW n \in Nat PROVE [ZeroRec("trans") EXCEPT !.aid = n] \in TransRec
  <2>1. [ZeroRec("trans") EXCEPT !.aid = n]
          = [id |-> 0, aid |-> n, uid |-> 0, old |-> 0, new |-> 0]
    BY <1>1
  <2> QED
    BY <2>1 DEF TransRec
<1>7. ZeroRec("user") \in UserRec /\ ZeroRec("account") \in AccountRec
  BY <1>1 DEF UserRec, AccountRec
<1> QED
  BY <1>3, <1>4, <1>5, <1>6, <1>7

LEMMA OnOk ==
  ASSUME NEW fn \in Fns, NEW r \in RecOf(TableOf(fn)), NEW n \in Nat
  PROVE  /\ OpOk(On(fn, r, n))
         /\ On(fn, r, n).fn = fn /\ On(fn, r, n).rec = r
BY DEF OpOk, On

\* What is known of a request that is being served.
LEMMA RequestType ==
  ASSUME ServerTypeOK, NEW t \in Threads, req[t].action # "None"
  PROVE  RequestOk(req[t])
BY RequestsAssumption DEF ServerTypeOK, NoRequest

\* A lookup that reports success has the record in hand that was asked for.
LEMMA FoundType ==
  ASSUME SInv, NEW t \in Threads, pc[t] = "done", ret[t] >= 0, op[t].fn \in Gets
  PROVE  /\ iter[t] \in RecOf(TableOf(op[t].fn))
         /\ Matches(op[t], stage[t], iter[t])
<1>1. CallOK(t) /\ Looked(t)
  BY DEF SInv, TypeInv, TypeOK
<1>2. iter[t] # NoRec /\ Matches(op[t], stage[t], iter[t])
  BY <1>1 DEF Looked
<1>3. OpenFile(t) = TableOf(op[t].fn)
  BY DEF OpenFile, FileAt, Gets
<1> QED
  BY <1>1, <1>2, <1>3 DEF CallOK

LEMMA StructOfCall ==
  ASSUME SInv, NEW t \in Threads
  PROVE  op[t].rec \in RecOf(TableOf(op[t].fn)) /\ op[t].rec.id \in Nat
<1>1. op[t].rec \in RecOf(TableOf(op[t].fn))
  BY DEF SInv, TypeInv, TypeOK, CallOK, OpOk
<1>2. TableOf(op[t].fn) \in Files
  BY DEF TableOf, Files
<1> QED
  BY <1>1, <1>2, RecIds

(***************************************************************************)
(* The calls the controllers make.                                         *)
(***************************************************************************)

\* The controllers call the database, with a struct of the right kind.
Calls(t) == \E o : OpOk(o) /\ Invoke(t, o)

LEMMA ChangesAreCalls ==
  ASSUME SInv, NEW t \in Threads,
         ChangePassword(t) \/ ModifyUser(t) \/ CreateJointUser(t)
           \/ CreateAccount(t) \/ CreateUser(t) \/ Delete(t)
  PROVE  Calls(t)
<1> USE DEF Calls, LastCall
<1>1. /\ ServerTypeOK /\ Waiting(t) /\ TypeOK
      /\ req[t].action # "None" => RequestOk(req[t])
  BY RequestType DEF SInv, TypeInv
<1>2. ASSUME Permitted(t) PROVE iter[t] \in UserRec
  <2>1. pc[t] = "done" /\ ret[t] >= 0 /\ op[t].fn = "get_user_from_id"
    BY <1>1, <1>2 DEF Permitted, Returned, Waiting
  <2> QED
    BY <2>1, FoundType, Tables DEF Gets
<1>3. CASE ChangePassword(t)
  <2>1. iter[t] \in UserRec
    BY <1>2, <1>3 DEF ChangePassword
  <2>2. [iter[t].info EXCEPT !.password = req[t].password] \in Infos
    BY <1>1, <1>3, <2>1 DEF ChangePassword, RequestOk, UserRec
  <2>3. PasswordOf(iter[t], req[t].password)
          = [iter[t] EXCEPT !.info = [@ EXCEPT !.password = req[t].password]]
    BY <2>1 DEF PasswordOf, UserRec
  <2>4. PasswordOf(iter[t], req[t].password) \in UserRec
    BY <2>1, <2>2, <2>3 DEF UserRec
  <2> QED
    BY <1>3, <2>4, OnOk, Tables DEF ChangePassword
<1>4. CASE ModifyUser(t)
  <2>1. [AUser(req[t].uid) EXCEPT !.info = req[t].info] \in UserRec
    BY <1>1, <1>4, StructTypes DEF ModifyUser, RequestOk
  <2> QED
    BY <1>4, <2>1, OnOk, Tables DEF ModifyUser
<1>5. CASE CreateJointUser(t)
  <2>1. NewUser(req[t], req[t].aid) \in UserRec
    BY <1>1, <1>5 DEF CreateJointUser, RequestOk, NewUser, UserRec
  <2> QED
    BY <1>5, <2>1, OnOk, Tables DEF CreateJointUser
<1>6. CASE CreateAccount(t)
  BY <1>6, OnOk, Tables, StructTypes DEF CreateAccount
<1>7. CASE CreateUser(t)
  <2>1. req[t].action = "CreateUser" /\ op[t].fn = "create_account"
    BY <1>1, <1>7 DEF CreateUser, Returned, Waiting
  <2>2. op[t].rec.id \in Nat
    BY <2>1, Tables, StructOfCall
  <2>3. NewUser(req[t], op[t].rec.id) \in UserRec
    BY <1>1, <2>1, <2>2 DEF RequestOk, NewUser, UserRec
  <2> QED
    BY <1>7, <2>3, OnOk, Tables DEF CreateUser
<1>8. CASE Delete(t)
  <2>1. CASE req[t].action = "DeleteUser"
    <3>1. AUser(req[t].uid) \in UserRec
      BY <1>1, <2>1, StructTypes DEF RequestOk
    <3> QED
      BY <1>8, <2>1, <3>1, OnOk, Tables DEF Delete
  <2>2. CASE req[t].action = "DeleteAccount"
    <3>1. AnAccount(req[t].aid) \in AccountRec
      BY <1>1, <2>2, StructTypes DEF RequestOk
    <3> QED
      BY <1>8, <2>2, <3>1, OnOk, Tables DEF Delete
  <2> QED
    BY <1>8, <2>1, <2>2 DEF Delete
<1> QED
  BY <1>3, <1>4, <1>5, <1>6, <1>7, <1>8

LEMMA LookupsAreCalls ==
  ASSUME SInv, NEW t \in Threads,
         FindLogin(t) \/ FindUser(t) \/ FindAccount(t)
           \/ StoreBalance(t) \/ LogTransaction(t)
  PROVE  Calls(t)
<1> USE DEF Calls, LastCall
<1>1. /\ ServerTypeOK /\ Waiting(t) /\ TypeOK
      /\ req[t].action # "None" => RequestOk(req[t])
  BY RequestType DEF SInv, TypeInv
<1>2. CASE FindLogin(t)
  <2>1. req[t].action = "Login"
    BY <1>1, <1>2 DEF FindLogin, Await, Waiting
  <2>2. [ZeroRec("user") EXCEPT !.uname = req[t].uname] \in UserRec
    BY <1>1, <2>1, StructTypes DEF RequestOk
  <2> QED
    BY <1>2, <2>2, OnOk, Tables DEF FindLogin
<1>3. CASE FindUser(t)
  <2>1. PICK uid \in UidsFromSid(sid[t]) :
          Invoke(t, On("get_user_from_id", AUser(uid), 0))
    BY <1>3 DEF FindUser
  <2>2. uid \in Nat
    BY <1>1 DEF ServerTypeOK, UidsFromSid
  <2> QED
    BY <2>1, <2>2, OnOk, Tables, StructTypes
<1>4. CASE FindAccount(t)
  <2>1. pc[t] = "done" /\ ret[t] >= 0 /\ op[t].fn = "get_user_from_id"
    BY <1>1, <1>4 DEF FindAccount, Permitted, Returned, Waiting
  <2>2. iter[t] \in UserRec
    BY <2>1, FoundType, Tables DEF Gets
  <2>3. AnAccount(iter[t].aid) \in AccountRec
    BY <2>2, StructTypes DEF UserRec
  <2> QED
    BY <1>4, <2>3, OnOk, Tables DEF FindAccount
<1>5. CASE StoreBalance(t)
  <2>1. /\ pc[t] = "done" /\ ret[t] >= 0 /\ op[t].fn = "get_account_from_id"
        /\ req[t].action = "Transaction"
    BY <1>1, <1>5 DEF StoreBalance, Returned, Waiting
  <2>2. iter[t] \in AccountRec /\ req[t].amt \in Int
    BY <1>1, <2>1, FoundType, Tables DEF Gets, RequestOk
  <2>3. [iter[t] EXCEPT !.balance = @ + req[t].amt] \in AccountRec
    BY <2>2 DEF AccountRec
  <2> QED
    BY <1>5, <2>3, OnOk, Tables DEF StoreBalance
<1>6. CASE LogTransaction(t)
  <2>1. req[t].action = "Transaction"
    BY <1>1, <1>6 DEF LogTransaction, Returned, Waiting
  <2>2. req[t].amt \in Int /\ user[t] \in UserRec /\ acc[t] \in AccountRec
    BY <1>1, <2>1 DEF RequestOk, ServerTypeOK
  <2>3. LogEntry(t) \in TransRec
    BY <2>2 DEF LogEntry, TransRec, UserRec, AccountRec
  <2> QED
    BY <1>6, <2>3, OnOk, Tables DEF LogTransaction
<1> QED
  BY <1>2, <1>3, <1>4, <1>5, <1>6

LEMMA ListingsAreCalls ==
  ASSUME SInv, NEW t \in Threads,
         Count(t) \/ CountTransactions(t) \/ Announce(t)
  PROVE  Calls(t)
<1> USE DEF Calls
<1>1. /\ ServerTypeOK /\ Waiting(t) /\ TypeOK /\ ThreadsOK
  BY DEF SInv, TypeInv, TypeOK
<1>2. CASE Count(t)
  BY <1>2, OnOk, Tables, StructTypes DEF Count
<1>3. CASE CountTransactions(t)
  <2>1. user[t].aid \in Nat
    BY <1>1 DEF ServerTypeOK, UserRec
  <2>2. [ZeroRec("trans") EXCEPT !.aid = user[t].aid] \in TransRec
    BY <2>1, StructTypes
  <2> QED
    BY <1>3, <2>2, OnOk, Tables DEF CountTransactions
<1>4. CASE Announce(t)
  <2>1. <<req[t].action, op[t].fn>> \in Listed
    BY <1>1, <1>4 DEF Announce, Returned, Waiting
  <2>2. /\ TableOf(Listing(req[t].action)) = TableOf(op[t].fn)
        /\ Listing(req[t].action) \in Fns
    BY <2>1, Tables DEF Listed, Listing
  <2>3. ret[t] \in Nat
    BY <1>1, <1>4 DEF Announce, ThreadsOK
  <2>4. OpOk(On(Listing(req[t].action), op[t].rec, ret[t]))
    BY <2>2, <2>3, StructOfCall, OnOk
  <2> QED
    BY <1>4, <2>4 DEF Announce
<1> QED
  BY <1>2, <1>3, <1>4

\* The steps of a controller that call the database, and those that do not.
ServerCall(t) ==
  \/ FindLogin(t) \/ FindUser(t) \/ FindAccount(t) \/ StoreBalance(t)
  \/ LogTransaction(t) \/ ChangePassword(t) \/ ModifyUser(t)
  \/ CreateJointUser(t) \/ CreateAccount(t) \/ CreateUser(t) \/ Delete(t)
  \/ Count(t) \/ CountTransactions(t) \/ Announce(t)

ServerReply(t) ==
  \/ Request(t) \/ Leave(t) \/ RejectLogin(t) \/ OpenSession(t) \/ Logout(t)
  \/ Refuse(t) \/ Finish(t) \/ AnswerAccount(t) \/ StoreFails(t)
  \/ CountFails(t) \/ SendItems(t)

LEMMA ServerCalls ==
  ASSUME SInv, NEW t \in Threads, ServerCall(t) PROVE Calls(t)
BY ChangesAreCalls, LookupsAreCalls, ListingsAreCalls DEF ServerCall

\* A call begins: its thread has nothing in hand yet, the others go on.
LEMMA CallBegins ==
  ASSUME SInv, NEW t \in Threads, NEW o, OpOk(o), Invoke(t, o)
  PROVE  /\ TypeInv'
         /\ op'[t] = o /\ iter'[t] = NoRec
         /\ pc'[t] = FirstCall(o.fn) /\ stage'[t] = FirstStage(o.fn)
         /\ \A u \in Threads \ {t} :
              /\ pc'[u] = pc[u] /\ op'[u] = op[u] /\ stage'[u] = stage[u]
              /\ cur'[u] = cur[u] /\ iter'[u] = iter[u] /\ ret'[u] = ret[u]
         /\ \A u \in Threads : Looked(u)'
         /\ UNCHANGED <<file, ctr, boot, crashes>>
<1>1. TypeInv /\ ThreadsOK /\ TypeInv'
  BY InvokeType DEF SInv, TypeInv, TypeOK
<1>2. /\ op'[t] = o /\ iter'[t] = NoRec
      /\ pc'[t] = FirstCall(o.fn) /\ stage'[t] = FirstStage(o.fn)
      /\ UNCHANGED <<file, ctr, boot, crashes>>
  BY <1>1 DEF Invoke, Begin, ThreadsOK, disk
<1>3. \A u \in Threads \ {t} :
        /\ pc'[u] = pc[u] /\ op'[u] = op[u] /\ stage'[u] = stage[u]
        /\ cur'[u] = cur[u] /\ iter'[u] = iter[u] /\ ret'[u] = ret[u]
  BY <1>1 DEF Invoke, Begin, ThreadsOK
<1>4. \A u \in Threads \ {t} : Looked(u)'
  BY <1>3 DEF SInv, Looked
<1>5. Looked(t)'
  <2>1. o.fn \in Gets => FirstCall(o.fn) = "lock"
    BY DEF FirstCall, Gets, Creates, Counts
  <2> QED
    BY <1>2, <2>1 DEF Looked
<1> QED
  BY <1>1, <1>2, <1>3, <1>4, <1>5

\* What the thread of one client does changes nothing for the others.
LEMMA OthersWait ==
  ASSUME SInv, NEW t \in Threads,
         \A u \in Threads \ {t} : /\ at'[u] = at[u] /\ req'[u] = req[u]
                                  /\ op'[u] = op[u] /\ user'[u] = user[u],
         Waiting(t)'
  PROVE  \A u \in Threads : Waiting(u)'
BY DEF SInv, Waiting

LEMMA ReplyKeepsServer ==
  ASSUME SInv, NEW t \in Threads, ServerReply(t)
  PROVE  /\ UNCHANGED vars
         /\ ServerTypeOK'
         /\ \A u \in Threads : Waiting(u)'
<1>1. ServerTypeOK /\ Waiting(t) /\ ThreadsOK
  BY DEF SInv, TypeInv, TypeOK
<1> USE DEF Reply, clients, locals
<1>2. UNCHANGED vars
  BY DEF ServerReply, Request, Leave, RejectLogin, OpenSession, Logout, Refuse,
         Finish, AnswerAccount, StoreFails, CountFails, SendItems
<1>3. UNCHANGED op
  BY <1>2 DEF vars, local
<1>4. CASE Request(t)
  <2>1. PICK r \in Requests : /\ req' = [req EXCEPT ![t] = r]
                              /\ at' = [at EXCEPT ![t] = Awaited(r.action)]
    BY <1>4 DEF Request
  <2>2. RequestOk(r)
    BY RequestsAssumption
  <2>3. /\ r.action = "Login" => Awaited(r.action) = "login"
        /\ r.action = "Logout" => Awaited(r.action) = "logout"
        /\ r.action \notin {"Login", "Logout"} => Awaited(r.action) = "session"
    BY DEF Awaited
  <2>4. req'[t] = r /\ at'[t] = Awaited(r.action)
    BY <1>1, <2>1 DEF ServerTypeOK
  <2>5. Waiting(t)'
    BY <2>2, <2>3, <2>4 DEF Waiting, RequestOk
  <2>6. ServerTypeOK'
    BY <1>1, <1>4, <2>1, <2>3 DEF Request, ServerTypeOK, Places
  <2>7. \A u \in Threads \ {t} : /\ at'[u] = at[u] /\ req'[u] = req[u]
                                 /\ op'[u] = op[u] /\ user'[u] = user[u]
    BY <1>1, <1>3, <1>4, <2>1 DEF Request, ServerTypeOK
  <2> QED
    BY <1>2, <2>5, <2>6, <2>7, OthersWait
<1>5. CASE ~Request(t)
  <2>1. ServerTypeOK'
    <3>1. CASE OpenSession(t)
      <4>1. /\ at[t] = "password" /\ pc[t] = "done" /\ ret[t] >= 0
            /\ op[t].fn = "get_user_from_uname"
        BY <1>1, <3>1 DEF OpenSession, Returned, Waiting
      <4>2. iter[t] \in UserRec
        BY <4>1, FoundType, Tables DEF Gets
      <4>3. NewSid \in Nat
        BY MaxSessionsAssumption, NewSidIsFree DEF Sids
      <4>4. iter[t].id \in Nat
        BY <4>2 DEF UserRec
      <4>5. spool' \in [Sids -> Nat]
        BY <1>1, <3>1, <4>4 DEF OpenSession, NewSession, ServerTypeOK
      <4> QED
        BY <1>1, <3>1, <4>2, <4>3, <4>4, <4>5
           DEF OpenSession, ServerTypeOK, Places
    <3>2. CASE Logout(t)
      BY <1>1, <3>2 DEF Logout, CloseSession, ServerTypeOK, Places
    <3>3. CASE Leave(t)
      BY <1>1, <3>3 DEF Leave, ServerTypeOK
    <3>4. CASE \/ RejectLogin(t) \/ Refuse(t) \/ Finish(t) \/ AnswerAccount(t)
               \/ StoreFails(t) \/ CountFails(t) \/ SendItems(t)
      <4>1. UNCHANGED <<spool, sid, owner, requests, req, user, acc>>
        BY <3>4 DEF RejectLogin, Refuse, Finish, AnswerAccount, StoreFails,
                    CountFails, SendItems
      <4>2. /\ at' = [at EXCEPT ![t] = "ready"]
            /\ DOMAIN resp' = Threads
        BY <1>1, <3>4 DEF ServerTypeOK, RejectLogin, Refuse, Finish,
                    AnswerAccount, StoreFails, CountFails, SendItems
      <4> QED
        BY <1>1, <4>1, <4>2 DEF ServerTypeOK, Places
    <3> QED
      BY <1>5, <3>1, <3>2, <3>3, <3>4 DEF ServerReply
  <2>2. at'[t] = "ready"
    BY <1>1, <1>5
       DEF ServerTypeOK, ServerReply, Leave, RejectLogin, OpenSession, Logout,
           Refuse, Finish, AnswerAccount, StoreFails, CountFails, SendItems
  <2>3. \A u \in Threads \ {t} : at'[u] = at[u] /\ req'[u] = req[u]
    BY <1>1, <1>5
       DEF ServerTypeOK, ServerReply, Leave, RejectLogin, OpenSession, Logout,
           Refuse, Finish, AnswerAccount, StoreFails, CountFails, SendItems
  <2>4. \A u \in Threads \ {t} : user'[u] = user[u]
    BY <1>1, <1>5
       DEF ServerTypeOK, ServerReply, Leave, RejectLogin, OpenSession, Logout,
           Refuse, Finish, AnswerAccount, StoreFails, CountFails, SendItems
  <2>5. Waiting(t)'
    BY <2>2 DEF Waiting
  <2> QED
    BY <1>2, <1>3, <2>1, <2>3, <2>4, <2>5, OthersWait
<1> QED
  BY <1>4, <1>5

\* What a controller keeps of a lookup has the type of the record it found.
LEMMA CallKeepsTypes ==
  ASSUME SInv, NEW t \in Threads, ServerCall(t)
  PROVE  ServerTypeOK' /\ \A u \in Threads \ {t} : at'[u] = at[u] /\ req'[u] = req[u]
                                                   /\ user'[u] = user[u]
<1> USE DEF clients, locals, Await, LastCall
<1>1. ServerTypeOK /\ Waiting(t)
  BY DEF SInv
<1>2. ASSUME Permitted(t) PROVE iter[t] \in UserRec
  <2>1. pc[t] = "done" /\ ret[t] >= 0 /\ op[t].fn = "get_user_from_id"
    BY <1>1, <1>2 DEF Permitted, Returned, Waiting
  <2> QED
    BY <2>1, FoundType, Tables DEF Gets
<1>3. CASE FindAccount(t) \/ ChangePassword(t) \/ ModifyUser(t)
           \/ CreateJointUser(t) \/ CreateAccount(t) \/ Delete(t) \/ Count(t)
  <2>1. Permitted(t)
    BY <1>3 DEF FindAccount, ChangePassword, ModifyUser, CreateJointUser,
                CreateAccount, Delete, Count
  <2>2. /\ user' = [user EXCEPT ![t] = iter[t]]
        /\ UNCHANGED <<spool, sid, owner, requests, req, acc, resp>>
    BY <2>1 DEF Permitted
  <2>3. PICK a \in Places : at' = [at EXCEPT ![t] = a]
    BY <1>3 DEF FindAccount, ChangePassword, ModifyUser, CreateJointUser,
                CreateAccount, Delete, Count, Places
  <2> QED
    BY <1>1, <1>2, <2>1, <2>2, <2>3 DEF ServerTypeOK
<1>4. CASE StoreBalance(t) \/ CountTransactions(t)
  <2>1. pc[t] = "done" /\ ret[t] >= 0 /\ op[t].fn = "get_account_from_id"
    BY <1>1, <1>4 DEF StoreBalance, CountTransactions, Returned, Waiting
  <2>2. iter[t] \in AccountRec
    BY <2>1, FoundType, Tables DEF Gets
  <2>3. /\ acc' = [acc EXCEPT ![t] = iter[t]]
        /\ UNCHANGED <<spool, sid, owner, requests, req, user, resp>>
    BY <1>4 DEF StoreBalance, CountTransactions
  <2>4. PICK a \in Places : at' = [at EXCEPT ![t] = a]
    BY <1>4 DEF StoreBalance, CountTransactions, Places
  <2> QED
    BY <1>1, <2>2, <2>3, <2>4 DEF ServerTypeOK
<1>5. CASE FindLogin(t) \/ FindUser(t) \/ LogTransaction(t) \/ CreateUser(t)
           \/ Announce(t)
  <2>1. /\ UNCHANGED <<spool, sid, owner, requests, req, user, acc>>
        /\ DOMAIN resp' = Threads
    BY <1>1, <1>5 DEF ServerTypeOK, FindLogin, FindUser, LogTransaction,
                      CreateUser, Announce
  <2>2. PICK a \in Places : at' = [at EXCEPT ![t] = a]
    BY <1>5 DEF FindLogin, FindUser, LogTransaction, CreateUser, Announce, Places
  <2> QED
    BY <1>1, <2>1, <2>2 DEF ServerTypeOK
<1> QED
  BY <1>3, <1>4, <1>5 DEF ServerCall

\* The call that comes next is the one the controller then waits for.
LEMMA CallWaits ==
  ASSUME SInv, NEW t \in Threads, ServerCall(t) PROVE Waiting(t)'
<1> USE DEF clients, locals, Await
<1>1. /\ ServerTypeOK /\ Waiting(t) /\ ThreadsOK
      /\ req[t].action # "None" => RequestOk(req[t])
  BY RequestType DEF SInv, TypeInv, TypeOK
<1>2. ASSUME NEW o, Invoke(t, o) PROVE op'[t] = o
  BY <1>1, <1>2 DEF Invoke, Begin, ThreadsOK
<1>3. \A fn, r, n : On(fn, r, n).fn = fn /\ On(fn, r, n).rec = r
  BY DEF On
<1>4. CASE FindLogin(t)
  <2>1. /\ at[t] = "login" /\ at'[t] = "password" /\ req'[t] = req[t]
    BY <1>1, <1>4 DEF FindLogin, ServerTypeOK
  <2>2. op'[t].fn = "get_user_from_uname"
        /\ op'[t].rec = [ZeroRec("user") EXCEPT !.uname = req[t].uname]
    BY <1>2, <1>3, <1>4 DEF FindLogin
  <2>3. req[t].action = "Login"
    BY <1>1, <2>1 DEF Waiting
  <2>4. op'[t].rec.uname = req[t].uname
    BY <1>1, <2>2, <2>3, StructTypes DEF RequestOk
  <2> QED
    BY <2>1, <2>2, <2>3, <2>4 DEF Waiting
<1>5. CASE FindUser(t)
  <2>1. at[t] = "session" /\ at'[t] = "user" /\ req'[t] = req[t]
    BY <1>1, <1>5 DEF FindUser, ServerTypeOK
  <2>2. op'[t].fn = "get_user_from_id"
    BY <1>2, <1>3, <1>5 DEF FindUser
  <2> QED
    BY <1>1, <2>1, <2>2 DEF Waiting
<1>6. CASE FindAccount(t)
  <2>1. /\ at'[t] = "account" /\ req'[t] = req[t] /\ req[t].action \in OfAccount
        /\ user'[t] = iter[t]
        /\ pc[t] = "done" /\ ret[t] >= 0 /\ op[t].fn = "get_user_from_id"
    BY <1>1, <1>6 DEF FindAccount, Permitted, Returned, Waiting, ServerTypeOK, OfAccount
  <2>2. op'[t].fn = "get_account_from_id" /\ op'[t].rec = AnAccount(iter[t].aid)
    BY <1>2, <1>3, <1>6 DEF FindAccount
  <2>3. iter[t].aid \in Nat
    <3>1. iter[t] \in UserRec
      BY <2>1, FoundType, Tables DEF Gets
    <3> QED
      BY <3>1 DEF UserRec
  <2>4. op'[t].rec.id = user'[t].aid
    BY <2>1, <2>2, <2>3, StructTypes
  <2> QED
    BY <2>1, <2>2, <2>4 DEF Waiting
<1>7. CASE StoreBalance(t)
  <2>1. at'[t] = "stored" /\ req'[t] = req[t] /\ req[t].action = "Transaction"
    BY <1>1, <1>7 DEF StoreBalance, ServerTypeOK
  <2>2. op'[t].fn = "update_account"
    BY <1>2, <1>3, <1>7 DEF StoreBalance
  <2> QED
    BY <2>1, <2>2 DEF Waiting
<1>8. CASE LogTransaction(t)
  <2>1. at'[t] = "last" /\ req'[t] = req[t] /\ req[t].action = "Transaction"
    BY <1>1, <1>8 DEF LogTransaction, LastCall, Returned, Waiting, ServerTypeOK
  <2>2. op'[t].fn = "append_transaction"
    BY <1>2, <1>3, <1>8 DEF LogTransaction, LastCall
  <2> QED
    BY <2>1, <2>2 DEF Waiting, Actions
<1>9. CASE ChangePassword(t) \/ ModifyUser(t) \/ CreateJointUser(t) \/ Delete(t)
           \/ CreateUser(t)
  <2>1. /\ at'[t] = "last" /\ req'[t] = req[t]
        /\ req[t].action \in {"PasswordChange", "ModifyUser", "CreateUser",
                              "DeleteUser", "DeleteAccount"}
    BY <1>1, <1>9 DEF ServerTypeOK, ChangePassword, ModifyUser, CreateJointUser,
                      Delete, CreateUser, LastCall, Permitted, Returned, Waiting
  <2>2. op'[t].fn # "append_transaction"
    BY <1>2, <1>3, <1>9 DEF ChangePassword, ModifyUser, CreateJointUser, Delete,
                            CreateUser, LastCall
  <2> QED
    BY <2>1, <2>2 DEF Waiting, Actions, AdminActions
<1>10. CASE CreateAccount(t)
  <2>1. at'[t] = "newaccount" /\ req'[t] = req[t] /\ req[t].action = "CreateUser"
    BY <1>1, <1>10 DEF CreateAccount, Permitted, ServerTypeOK
  <2>2. op'[t].fn = "create_account"
    BY <1>2, <1>3, <1>10 DEF CreateAccount
  <2> QED
    BY <2>1, <2>2 DEF Waiting
<1>11. CASE Count(t)
  <2>1. at'[t] = "count" /\ req'[t] = req[t]
    BY <1>1, <1>11 DEF Count, Permitted, ServerTypeOK
  <2>2. \/ req[t].action = "GetUsers" /\ op'[t].fn = "get_num_users"
        \/ req[t].action = "GetAccounts" /\ op'[t].fn = "get_num_accounts"
    BY <1>2, <1>3, <1>11 DEF Count
  <2> QED
    BY <2>1, <2>2 DEF Waiting, Listed
<1>12. CASE CountTransactions(t)
  <2>1. at'[t] = "count" /\ req'[t] = req[t] /\ req[t].action = "ViewDetails"
    BY <1>1, <1>12 DEF CountTransactions, ServerTypeOK
  <2>2. op'[t].fn = "get_num_transactions"
    BY <1>2, <1>3, <1>12 DEF CountTransactions
  <2> QED
    BY <2>1, <2>2 DEF Waiting, Listed
<1>13. CASE Announce(t)
  <2>1. at[t] = "count" /\ at'[t] = "list" /\ req'[t] = req[t]
    BY <1>1, <1>13 DEF Announce, ServerTypeOK
  <2>2. op'[t].fn = Listing(req[t].action)
    BY <1>2, <1>3, <1>13 DEF Announce
  <2>3. \E l \in Listed : req[t].action = l[1]
    BY <1>1, <2>1 DEF Waiting, Listed
  <2> QED
    BY <2>1, <2>2, <2>3 DEF Waiting
<1> QED
  BY <1>4, <1>5, <1>6, <1>7, <1>8, <1>9, <1>10, <1>11, <1>12, <1>13 DEF ServerCall

LEMMA CallKeepsServer ==
  ASSUME SInv, NEW t \in Threads, ServerCall(t) PROVE SInv'
<1>1. PICK o : OpOk(o) /\ Invoke(t, o)
  BY ServerCalls DEF Calls
<1>2. /\ TypeInv' /\ \A u \in Threads : Looked(u)'
      /\ \A u \in Threads \ {t} : op'[u] = op[u]
  BY <1>1, CallBegins
<1>3. \A u \in Threads : Waiting(u)'
  BY <1>2, CallKeepsTypes, CallWaits, OthersWait
<1> QED
  BY <1>2, <1>3, CallKeepsTypes DEF SInv

LEMMA ReplyKeepsAll ==
  ASSUME SInv, NEW t \in Threads, ServerReply(t) PROVE SInv'
<1>1. /\ UNCHANGED vars /\ ServerTypeOK'
      /\ \A u \in Threads : Waiting(u)'
  BY ReplyKeepsServer
<1>2. TypeInv'
  BY <1>1, NextType DEF SInv
<1>3. \A u \in Threads : Looked(u)'
  BY <1>1 DEF SInv, Looked, vars, local
<1> QED
  BY <1>1, <1>2, <1>3 DEF SInv

LEMMA StepKeepsServer ==
  ASSUME SInv, NEW t \in Threads, Step(t), UNCHANGED svars PROVE SInv'
<1>1. TypeInv /\ TypeInv'
  BY NextType DEF SInv, Next
<1>2. /\ \A u \in Threads \ {t} :
            /\ pc'[u] = pc[u] /\ op'[u] = op[u] /\ stage'[u] = stage[u]
            /\ iter'[u] = iter[u] /\ ret'[u] = ret[u]
  BY <1>1, OthersStandStill
<1>3. \A u \in Threads : Looked(u)'
  BY <1>1, <1>2, LookedKept DEF SInv, Looked
<1>4. ServerTypeOK'
  BY DEF SInv, ServerTypeOK, svars, clients, locals
<1>5. /\ op'[t].fn = op[t].fn
      /\ op'[t].fn \in {"get_user_from_uname", "get_account_from_id"} =>
           op'[t] = op[t]
  <2>1. op'[t].fn = op[t].fn
    BY <1>1, ScanSameFile, LaterSteps
  <2>2. CASE LockRecord(t) \/ NewId(t)
    BY <1>1, <2>1, <2>2 DEF LockRecord, NewId, Goto, TypeInv, Control, AppendPCs,
                            Updates, Creates
  <2>3. CASE ~(LockRecord(t) \/ NewId(t))
    BY <2>1, <2>3
       DEF Step, BeginScan, ReadHit, ReadMiss, ReadInto, ReadEOF, EndScan,
           Overwrite, OverwriteFails, LockTail, ShiftRead, ShiftWrite,
           ShiftWriteFails, ShiftEOF, SeekLast, Truncate, EndWrite,
           OpenForAppend, LockEnd, AppendRecord, AppendFails, UnlockEnd,
           SeekSize, Close, OpenFails, local
  <2> QED
    BY <2>1, <2>2, <2>3
<1>6. \A u \in Threads : Waiting(u)'
  <2>1. /\ \A u \in Threads : at'[u] = at[u] /\ req'[u] = req[u] /\ user'[u] = user[u]
    BY DEF svars, locals
  <2>2. Waiting(t)'
    BY <1>5, <2>1 DEF SInv, Waiting
  <2> QED
    BY <1>2, <2>1, <2>2, OthersWait
<1> QED
  BY <1>1, <1>3, <1>4, <1>6 DEF SInv

LEMMA StopKeepsServer ==
  ASSUME SInv, NEW p \in Procs, Stop(p) PROVE SInv'
<1>1. TypeInv /\ TypeInv'
  BY NextType DEF SInv, Stop, Next
<1>2. ServerTypeOK'
  <2>1. ServerTypeOK
    BY DEF SInv
  <2>2. spool' \in [Sids -> Nat]
    BY DEF Stop, NoSessions
  <2>3. ZeroRec("user") \in UserRec /\ ZeroRec("account") \in AccountRec
    BY StructTypes
  <2> QED
    BY <2>1, <2>2, <2>3 DEF Stop, ServerTypeOK, Places
<1>3. ASSUME NEW t \in Threads PROVE Looked(t)' /\ Waiting(t)'
  <2>1. CASE Proc(t) = p
    <3>1. op'[t].fn = "get_num_users" /\ at'[t] = "ready"
      BY <2>1 DEF Stop, Crash, NoOp
    <3> QED
      BY <3>1 DEF Looked, Waiting, Gets
  <2>2. CASE Proc(t) # p
    <3>1. /\ pc'[t] = pc[t] /\ op'[t] = op[t] /\ stage'[t] = stage[t]
          /\ iter'[t] = iter[t] /\ ret'[t] = ret[t]
          /\ at'[t] = at[t] /\ req'[t] = req[t] /\ user'[t] = user[t]
      BY <2>2 DEF Stop, Crash
    <3> QED
      BY <3>1 DEF SInv, Looked, Waiting
  <2> QED
    BY <2>1, <2>2
<1> QED
  BY <1>1, <1>2, <1>3 DEF SInv

LEMMA StartKeepsServer ==
  ASSUME SInv, NEW p \in Procs, Start(p) PROVE SInv'
<1>1. TypeInv'
  BY NextType DEF SInv, Start, Next
<1>2. UNCHANGED <<pc, op, stage, iter, ret, svars>>
  BY DEF Start, InitCounter, local
<1>3. ServerTypeOK'
  BY <1>2 DEF SInv, ServerTypeOK, svars, clients, locals
<1>4. \A t \in Threads : Looked(t)' /\ Waiting(t)'
  BY <1>2 DEF SInv, Looked, Waiting, svars, clients, locals
<1> QED
  BY <1>1, <1>3, <1>4 DEF SInv

LEMMA ServerInitTypes == ServerInit => SInv
<1> SUFFICES ASSUME ServerInit PROVE SInv
  OBVIOUS
<1>1. TypeInv
  BY InitType DEF ServerInit
<1>2. ServerTypeOK
  BY StructTypes DEF ServerInit, ServerTypeOK, NoSessions, Places
<1>3. ASSUME NEW t \in Threads PROVE Looked(t) /\ Waiting(t)
  BY DEF ServerInit, Init, NoOp, Looked, Waiting, Gets
<1> QED
  BY <1>1, <1>2, <1>3 DEF SInv

\* The steps of the server, by what they mean to the database.
LEMMA ServerSteps ==
  ASSUME [ServerNext]_allvars
  PROVE  \/ \E t \in Threads : \/ ServerCall(t) \/ ServerReply(t)
                               \/ Step(t) /\ UNCHANGED svars
         \/ \E p \in Procs : Start(p) \/ Stop(p)
         \/ UNCHANGED allvars
BY DEF ServerNext, Serve, AllServed, ServerCall, ServerReply

LEMMA ServerNextTypes == SInv /\ [ServerNext]_allvars => SInv'
<1> SUFFICES ASSUME SInv, [ServerNext]_allvars PROVE SInv'
  OBVIOUS
<1>1. ASSUME UNCHANGED allvars PROVE SInv'
  <2>1. TypeInv'
    BY <1>1, NextType DEF SInv, allvars
  <2>2. UNCHANGED <<pc, op, stage, iter, ret, svars>>
    BY <1>1 DEF allvars, vars, local
  <2>3. ServerTypeOK'
    BY <2>2 DEF SInv, ServerTypeOK, svars, clients, locals
  <2>4. \A t \in Threads : Looked(t)' /\ Waiting(t)'
    BY <2>2 DEF SInv, Looked, Waiting, svars, clients, locals
  <2> QED
    BY <2>1, <2>3, <2>4 DEF SInv
<1> QED
  BY <1>1, ServerSteps, CallKeepsServer, ReplyKeepsAll, StepKeepsServer,
     StopKeepsServer, StartKeepsServer

\* Every call that any controller makes, with whatever request and after
\* whatever earlier calls, is one of database.h with a struct of its kind; so
\* every variable of the server and of its database keeps its type.
THEOREM ServerTypes == ServerSpec => [](TypeOK /\ ServerTypeOK)
<1>1. SInv => TypeOK /\ ServerTypeOK
  BY DEF SInv, TypeInv
<1> QED
  BY ServerInitTypes, ServerNextTypes, <1>1, PTL DEF ServerSpec

(***************************************************************************)
(* Ids and identities in a server: what holds for any calls in one process *)
(* holds for those of the controllers.                                     *)
(***************************************************************************)

LEMMA ServerNextIds ==
  SInv /\ IInv /\ [ServerNext]_allvars => IInv'
<1> SUFFICES ASSUME SInv, IInv, [ServerNext]_allvars PROVE IInv'
  OBVIOUS
<1>1. SInv' /\ TypeInv'
  BY ServerNextTypes DEF SInv
<1>2. ASSUME NEW t \in Threads, ServerCall(t) PROVE IInv'
  <2>1. PICK o : OpOk(o) /\ Invoke(t, o)
    BY <1>2, ServerCalls DEF Calls
  <2> QED
    BY <1>1, <2>1, InvokeIds
<1>3. ASSUME UNCHANGED vars PROVE IInv'
  BY <1>3, NextIds
<1>4. ASSUME NEW t \in Threads, ServerReply(t) PROVE IInv'
  BY <1>3, <1>4, ReplyKeepsServer
<1>5. ASSUME NEW t \in Threads, Step(t) PROVE IInv'
  BY <1>5, NextIds DEF Next
<1>6. ASSUME NEW p \in Procs, Start(p) \/ Stop(p) PROVE IInv'
  BY <1>6, NextIds DEF Next, Start, Stop
<1>7. ASSUME UNCHANGED allvars PROVE IInv'
  BY <1>3, <1>7 DEF allvars
<1> QED
  BY <1>2, <1>4, <1>5, <1>6, <1>7, ServerSteps

\* In a server, too, no record ever mixes two users and a new id is nowhere
\* else, though the controllers write back what they have read some calls ago.
THEOREM ServerKeepsIdentities ==
  SingleProcess /\ ServerSpec => [](OneIdentityPerUid /\ NewIdIsUnused)
<1>1. SingleProcess /\ ServerInit => SInv /\ IInv
  BY ServerInitTypes, InitIds DEF ServerInit
<1>2. SInv /\ IInv /\ [ServerNext]_allvars => SInv' /\ IInv'
  BY ServerNextTypes, ServerNextIds
<1>3. IInv => OneIdentityPerUid /\ NewIdIsUnused
  <2> SUFFICES ASSUME IInv PROVE OneIdentityPerUid /\ NewIdIsUnused
    OBVIOUS
  <2>1. OneIdentityPerUid
    BY DEF IInv, IdInv, Known, Consistent, OneIdentityPerUid
  <2>2. NewIdIsUnused
    BY DEF IInv, IdInv, NewIdIsUnused, Unused, Ids, Range
  <2> QED
    BY <2>1, <2>2
<1> QED
  BY <1>1, <1>2, <1>3, PTL DEF ServerSpec

(***************************************************************************)
(* Sessions.                                                               *)
(***************************************************************************)

\* Nobody logs in without a name, which is that of a hole in the file.
NamedLogins == \A r \in Requests : r.action = "Login" => r.uname # NoName

\* A session is opened only while a slot is free: "No check for filled pool".
RoomForAll ==
  [][ \A t \in Threads : OpenSession(t) => NewSid \in Sids ]_allvars

\* Until the server is restarted, whoever holds a session id is the user of the
\* session, and has the slot for himself.
SessionInv ==
  crashes = 0 =>
    \A t \in Threads :
       /\ sid[t] # 0 => owner[t] # 0
       /\ owner[t] # 0 =>
            /\ sid[t] \in Sids
            /\ spool[sid[t]] = owner[t]
            /\ \A v \in Threads \ {t} : owner[v] # 0 => sid[v] # sid[t]

\* Who logs in successfully has a name, and so an id.
LEMMA OwnersHaveIds ==
  ASSUME SInv, IInv, NamedLogins, NEW t \in Threads, OpenSession(t)
  PROVE  iter[t].id # 0 /\ iter[t].id \in Nat
<1>1. /\ req[t].action = "Login" /\ op[t].fn = "get_user_from_uname"
      /\ op[t].rec.uname = req[t].uname /\ pc[t] = "done" /\ ret[t] >= 0
  BY DEF SInv, Waiting, OpenSession, Returned
<1>2. iter[t] \in UserRec /\ Matches(op[t], stage[t], iter[t])
  BY <1>1, FoundType, Tables DEF Gets
<1>3. iter[t].uname = req[t].uname
  BY <1>1, <1>2 DEF Matches
<1>4. iter[t].uname # NoName
  BY <1>1, <1>3 DEF SInv, ServerTypeOK, NamedLogins, NoRequest
<1>5. iter[t] \in Known
  <2>1. OpenFile(t) = "user"
    BY <1>1 DEF OpenFile, FileAt, TableOf, UserFns
  <2>2. iter[t] # NoRec
    BY <1>2, NoRecAssumption, Tables DEF Files
  <2> QED
    BY <2>1, <2>2 DEF Known, UserCopies
<1>6. ZeroRec("user") \in Known /\ ZeroRec("user").id = 0
      /\ ZeroRec("user").uname = NoName
  BY DEF Known, ZeroRec
<1> QED
  BY <1>2, <1>4, <1>5, <1>6 DEF IInv, IdInv, Consistent, UserRec

LEMMA SessionNext ==
  ASSUME SInv, IInv, NamedLogins, SessionInv, [ServerNext]_allvars,
         \A t \in Threads : OpenSession(t) => NewSid \in Sids
  PROVE  SessionInv'
<1>1. ServerTypeOK /\ crashes \in Nat
  BY DEF SInv, TypeInv, TypeOK
<1>2. SUFFICES ASSUME crashes' = 0 PROVE SessionInv'
  BY DEF SessionInv
<1>3. ASSUME UNCHANGED <<crashes, spool, sid, owner>> PROVE SessionInv'
  BY <1>3 DEF SessionInv
<1>4. ASSUME NEW t \in Threads, OpenSession(t) PROVE SessionInv'
  <2>1. /\ NewSid \in Sids /\ spool[NewSid] = 0 /\ NewSid # 0
    BY <1>4, NewSidIsFree, MaxSessionsAssumption DEF IsFree, Sids
  <2>2. crashes = 0
    BY <1>2, <1>4 DEF OpenSession, vars, bounds
  <2>3. iter[t].id # 0
    BY <1>4, OwnersHaveIds
  <2>4. /\ spool' = [s \in Sids |-> IF s = NewSid THEN iter[t].id ELSE spool[s]]
        /\ sid' = [sid EXCEPT ![t] = NewSid]
        /\ owner' = [owner EXCEPT ![t] = iter[t].id]
    BY <1>4 DEF OpenSession, NewSession
  <2> QED
    BY <1>1, <2>1, <2>2, <2>3, <2>4 DEF SessionInv, ServerTypeOK
<1>5. ASSUME NEW t \in Threads, Logout(t) PROVE SessionInv'
  <2>1. crashes = 0
    BY <1>2, <1>5 DEF Logout, vars, bounds
  <2>2. /\ spool' = [s \in Sids |-> IF s = sid[t] THEN 0 ELSE spool[s]]
        /\ sid' = [sid EXCEPT ![t] = 0]
        /\ owner' = [owner EXCEPT ![t] = 0]
    BY <1>5 DEF Logout, CloseSession
  <2>3. 0 \notin Sids
    BY MaxSessionsAssumption DEF Sids
  <2> QED
    BY <1>1, <2>1, <2>2, <2>3 DEF SessionInv, ServerTypeOK
<1>6. ASSUME NEW t \in Threads, Leave(t) PROVE SessionInv'
  <2>1. crashes = 0
    BY <1>2, <1>6 DEF Leave, vars, bounds
  <2>2. /\ spool' = spool
        /\ sid' = [sid EXCEPT ![t] = 0]
        /\ owner' = [owner EXCEPT ![t] = 0]
    BY <1>6 DEF Leave
  <2> QED
    BY <1>1, <2>1, <2>2 DEF SessionInv, ServerTypeOK
<1>7. ASSUME NEW t \in Threads, ServerReply(t),
             ~OpenSession(t), ~Logout(t), ~Leave(t)
      PROVE  SessionInv'
  BY <1>3, <1>7
     DEF ServerReply, Request, RejectLogin, Refuse, Finish, AnswerAccount,
         StoreFails, CountFails, SendItems, clients, vars, bounds
<1>8. ASSUME NEW t \in Threads, ServerCall(t) PROVE SessionInv'
  <2>1. UNCHANGED <<spool, sid, owner>>
    BY <1>8
       DEF ServerCall, FindLogin, FindUser, FindAccount, StoreBalance,
           LogTransaction, ChangePassword, ModifyUser, CreateJointUser,
           CreateAccount, CreateUser, Delete, Count, CountTransactions,
           Announce, Permitted, clients
  <2>2. crashes' = crashes
    BY <1>8, ServerCalls DEF Calls, Invoke
  <2> QED
    BY <1>3, <2>1, <2>2
<1>9. ASSUME NEW t \in Threads, Step(t), UNCHANGED svars PROVE SessionInv'
  <2>1. crashes' = crashes
    BY <1>9 DEF Step, BeginScan, ReadHit, ReadMiss, ReadInto, ReadEOF, EndScan,
           LockRecord, Overwrite, OverwriteFails, LockTail, ShiftRead, ShiftWrite,
           ShiftWriteFails, ShiftEOF, SeekLast, Truncate, EndWrite, NewId,
           OpenForAppend, LockEnd, AppendRecord, AppendFails, UnlockEnd,
           SeekSize, Close, OpenFails, bounds
  <2> QED
    BY <1>3, <1>9, <2>1 DEF svars, clients
<1>10. ASSUME NEW p \in Procs, Stop(p) PROVE FALSE
  BY <1>1, <1>2, <1>10 DEF Stop, Crash
<1>11. ASSUME NEW p \in Procs, Start(p) PROVE SessionInv'
  BY <1>3, <1>11 DEF Start, InitCounter, bounds, svars, clients
<1>12. ASSUME UNCHANGED allvars PROVE SessionInv'
  BY <1>3, <1>12 DEF allvars, vars, bounds, svars, clients
<1> QED
  BY <1>4, <1>5, <1>6, <1>7, <1>8, <1>9, <1>10, <1>11, <1>12, ServerSteps

\* Threads that open, look up and close sessions never mix them up: until a
\* restart, a session id in a client's hands is that of the user who logged in
\* and of nobody else - for any number of clients, as long as they have names
\* and the pool has room.
THEOREM SessionsAreNotMixedUp ==
  SingleProcess /\ NamedLogins /\ RoomForAll /\ ServerSpec
     => [](crashes = 0 => SessionNamesItsUser)
<1> DEFINE Inv == SInv /\ IInv /\ NamedLogins /\ SessionInv
           Room == \A t \in Threads : OpenSession(t) => NewSid \in Sids
<1>1. SingleProcess /\ NamedLogins /\ ServerInit => Inv
  <2> SUFFICES ASSUME SingleProcess, NamedLogins, ServerInit PROVE Inv
    OBVIOUS
  <2>1. SessionInv
    BY DEF ServerInit, SessionInv
  <2> QED
    BY <2>1, ServerInitTypes, InitIds DEF ServerInit
<1>2. Inv /\ [ServerNext]_allvars /\ [Room]_allvars => Inv'
  <2> SUFFICES ASSUME Inv, [ServerNext]_allvars, [Room]_allvars PROVE Inv'
    OBVIOUS
  <2>1. SInv' /\ IInv' /\ NamedLogins'
    BY ServerNextTypes, ServerNextIds
  <2>2. Room \/ UNCHANGED allvars
    OBVIOUS
  <2>3. CASE Room
    BY <2>1, <2>3, SessionNext
  <2>4. CASE UNCHANGED allvars
    <3>1. UNCHANGED <<crashes, spool, sid, owner>>
      BY <2>4 DEF allvars, vars, bounds, svars, clients
    <3> QED
      BY <2>1, <3>1 DEF SessionInv
  <2> QED
    BY <2>2, <2>3, <2>4
<1>3. Inv => (crashes = 0 => SessionNamesItsUser)
  BY DEF SessionInv, SessionNamesItsUser
<1> HIDE DEF Inv
<1> QED
  BY <1>1, <1>2, <1>3, PTL DEF ServerSpec, RoomForAll

(***************************************************************************)
(* Where the records of a file, and those in hand, come from.              *)
(***************************************************************************)

\* The record in hand is the one that was, or one just read from the file.
LEMMA RecordsInHand ==
  ASSUME TypeInv, NEW t \in Threads, Step(t)
  PROVE  \/ iter'[t] = NoRec
         \/ /\ OpenFile(t)' = OpenFile(t)
            /\ iter'[t] \in {iter[t]} \cup Range(Contents(t))
<1> USE DEF Goto
<1>1. ThreadsOK /\ Control(t)
  BY DEF TypeInv, TypeOK
<1>2. CASE ReadHit(t) \/ ShiftRead(t)
  <2>1. cur[t] >= 0 /\ cur[t] \in Int /\ cur[t] < Len(Contents(t))
    BY <1>1, <1>2 DEF ReadHit, ShiftRead, Control, ThreadsOK
  <2>2. Contents(t)[cur[t] + 1] \in Range(Contents(t))
    BY <2>1, FileSeq DEF Range
  <2>3. iter'[t] = Contents(t)[cur[t] + 1] /\ UNCHANGED <<op, stage>>
    BY <1>1, <1>2 DEF ReadHit, ShiftRead, ThreadsOK
  <2> QED
    BY <2>2, <2>3 DEF OpenFile
<1>3. CASE Close(t)
  BY <1>1, <1>3 DEF Close, ThreadsOK, OpenFile
<1>4. CASE OpenFails(t)
  <2>1. CASE pc[t] \in {"lock", "aopen"}
    BY <1>1, <1>4, <2>1 DEF OpenFails, Control, AppendPCs
  <2>2. CASE pc[t] = "size"
    <3>1. op[t].fn # "create_user"
      BY <1>1, <2>2 DEF Control, Counts
    <3> QED
      BY <1>4, <3>1 DEF OpenFails, OpenFile
  <2> QED
    BY <1>4, <2>1, <2>2 DEF OpenFails
<1>5. CASE ~(ReadHit(t) \/ ShiftRead(t) \/ Close(t) \/ OpenFails(t))
  <2>1. UNCHANGED <<stage, iter>>
    BY <1>5 DEF Step, BeginScan, ReadMiss, ReadInto, ReadEOF, EndScan, LockRecord,
         Overwrite, OverwriteFails, LockTail, ShiftWrite, ShiftWriteFails,
         ShiftEOF, SeekLast, Truncate, EndWrite, NewId, OpenForAppend, LockEnd,
         AppendRecord, AppendFails, UnlockEnd, SeekSize, local
  <2>2. op'[t].fn = op[t].fn
    BY ScanSameFile, LaterSteps
  <2> QED
    BY <2>1, <2>2 DEF OpenFile
<1> QED
  BY <1>2, <1>3, <1>4, <1>5

\* A step leaves in a file what was there, puts a hole there, or the record it
\* was called with or has in hand.
LEMMA RecordsOnDisk ==
  ASSUME TypeInv, NEW t \in Threads, Step(t), NEW f \in Files
  PROVE  \A r \in Range(file'[f]) :
           \/ r \in Range(file[f]) \cup {ZeroRec(f)}
           \/ /\ f = OpenFile(t) /\ r = op[t].rec
              /\ Overwrite(t) \/ AppendRecord(t)
              /\ op[t].fn \in Updates \cup Creates /\ f = TableOf(op[t].fn)
           \/ f = OpenFile(t) /\ r = iter[t] /\ iter[t] # NoRec
<1> USE DEF Goto
<1> DEFINE g == OpenFile(t)
<1>0. g = OpenFile(t)
  OBVIOUS
<1>1. /\ ThreadsOK /\ Control(t) /\ FilesOK /\ CallOK(t) /\ g \in Files
      /\ Contents(t) = file[g] /\ file[g] \in Seq(RecOf(g))
  BY Located, FileSeq DEF TypeInv, TypeOK, Contents
<1>2. CASE Overwrite(t)
  <2>1. op[t].fn \in Updates
    BY <1>1, <1>2 DEF Overwrite, Control
  <2>2. g = TableOf(op[t].fn)
    BY <2>1 DEF OpenFile, FileAt, Updates
  <2>3. /\ \A h \in Files \ {g} : file'[h] = file[h]
        /\ file'[g] = WriteAt(file[g], cur[t] - 1, op[t].rec, ZeroRec(g))
    BY <1>1, <1>2 DEF Overwrite, SetFile, Position, FilesOK
  <2>4. op[t].rec \in RecOf(g) /\ cur[t] - 1 \in Int
    BY <1>1, <2>2 DEF CallOK, OpOk, ThreadsOK
  <2>5. Range(file'[g]) \subseteq Range(file[g]) \cup {op[t].rec, ZeroRec(g)}
    BY <1>1, <2>3, <2>4, WriteAtRange
  <2> HIDE DEF g
  <2> QED
    BY <1>0, <1>2, <2>1, <2>2, <2>3, <2>5
<1>3. CASE ShiftWrite(t)
  <2>1. iter[t] # NoRec
    BY <1>1, <1>3 DEF ShiftWrite, Control
  <2>2. /\ \A h \in Files \ {g} : file'[h] = file[h]
        /\ file'[g] = WriteAt(file[g], cur[t] - 2, iter[t], ZeroRec(g))
    BY <1>1, <1>3 DEF ShiftWrite, SetFile, ShiftTarget, FilesOK
  <2>3. iter[t] \in RecOf(g) /\ cur[t] - 2 \in Int
    BY <1>1, <2>1 DEF CallOK, ThreadsOK
  <2>4. Range(file'[g]) \subseteq Range(file[g]) \cup {iter[t], ZeroRec(g)}
    BY <1>1, <2>2, <2>3, WriteAtRange
  <2> HIDE DEF g
  <2> QED
    BY <1>0, <2>1, <2>2, <2>4
<1>4. CASE Truncate(t)
  <2>1. CASE cur[t] >= 0
    <3>1. /\ \A h \in Files \ {g} : file'[h] = file[h]
          /\ file'[g] = Resize(file[g], cur[t], ZeroRec(g))
      BY <1>1, <1>4, <2>1 DEF Truncate, Cut, SetFile, FilesOK
    <3>2. cur[t] \in Nat
      BY <1>1, <2>1 DEF ThreadsOK
    <3>3. Range(file'[g]) \subseteq Range(file[g]) \cup {ZeroRec(g)}
      BY <1>1, <3>1, <3>2, ResizeRange
    <3> HIDE DEF g
    <3> QED
      BY <1>0, <3>1, <3>3
  <2>2. CASE ~(cur[t] >= 0)
    BY <1>4, <2>2 DEF Truncate
  <2> QED
    BY <2>1, <2>2
<1>5. CASE AppendRecord(t)
  <2>1. op[t].fn \in Creates /\ stage[t] = 3
    BY <1>1, <1>5 DEF AppendRecord, Control, AppendPCs
  <2>2. g = TableOf(op[t].fn)
    BY <2>1 DEF OpenFile, FileAt, Creates
  <2>3. /\ \A h \in Files \ {g} : file'[h] = file[h]
        /\ file'[g] = Append(file[g], op[t].rec)
    BY <1>1, <1>5 DEF AppendRecord, Appended, SetFile, FilesOK
  <2>4. op[t].rec \in RecOf(g)
    BY <1>1, <2>2 DEF CallOK, OpOk
  <2>5. Range(file'[g]) = Range(file[g]) \cup {op[t].rec}
    BY <1>1, <2>3, <2>4, AppendRange
  <2> HIDE DEF g
  <2> QED
    BY <1>0, <1>5, <2>1, <2>2, <2>3, <2>5
<1>6. CASE ~(Overwrite(t) \/ ShiftWrite(t) \/ Truncate(t) \/ AppendRecord(t))
  BY <1>6, OnlyWrites
<1> QED
  BY <1>2, <1>3, <1>4, <1>5, <1>6

\* A call keeps the struct it was given, but for the id of a new record and for
\* the names that update_user puts back.
LEMMA StructsAreKept ==
  ASSUME TypeInv, NEW t \in Threads, Step(t)
  PROVE  /\ op'[t].fn = op[t].fn
         /\ op[t].fn \in {"create_account", "update_account"} =>
              op'[t].rec.balance = op[t].rec.balance
         /\ pc[t] # "newid" /\ op[t].fn # "update_user" => op'[t] = op[t]
<1> USE DEF Goto
<1>1. ThreadsOK /\ CallOK(t) /\ Control(t) /\ op'[t].fn = op[t].fn
  BY ScanSameFile, LaterSteps DEF TypeInv, TypeOK
<1>2. CASE LockRecord(t)
  BY <1>1, <1>2 DEF LockRecord, ThreadsOK
<1>3. CASE NewId(t)
  <2>1. op[t].fn = "create_account" => op[t].rec \in AccountRec
    <3>1. op[t].rec \in RecOf(TableOf(op[t].fn))
      BY <1>1 DEF CallOK, OpOk
    <3> QED
      BY <3>1, Tables
  <2>2. op'[t].rec = [op[t].rec EXCEPT !.id = NextId(Proc(t), OpenFile(t))]
    BY <1>1, <1>3 DEF NewId, WithRec, ThreadsOK
  <2>3. op[t].fn # "update_account"
    BY <1>1, <1>3 DEF NewId, Control, AppendPCs, Creates
  <2> QED
    BY <1>1, <1>3, <2>1, <2>2, <2>3 DEF NewId, AccountRec
<1>4. CASE ~(LockRecord(t) \/ NewId(t))
  BY <1>1, <1>4
     DEF Step, BeginScan, ReadHit, ReadMiss, ReadInto, ReadEOF, EndScan,
         Overwrite, OverwriteFails, LockTail, ShiftRead, ShiftWrite,
         ShiftWriteFails, ShiftEOF, SeekLast, Truncate, EndWrite,
         OpenForAppend, LockEnd, AppendRecord, AppendFails, UnlockEnd,
         SeekSize, Close, OpenFails, local
<1> QED
  BY <1>2, <1>3, <1>4

(***************************************************************************)
(* Balances.                                                               *)
(***************************************************************************)

\* No account is overdrawn when the server is set up.
NoDebts == \A s \in InitFiles : \A r \in Range(s["account"]) : r.balance >= 0

\* A negative balance is neither stored, nor in hand while a deletion moves
\* records, nor in the struct of a call that is going to write an account.
InCredit(t) ==
  /\ iter[t] # NoRec /\ OpenFile(t) = "account" => iter[t].balance >= 0
  /\ op[t].fn \in {"create_account", "update_account"} => op[t].rec.balance >= 0

BalanceInv ==
  /\ \A r \in Range(file["account"]) : r.balance >= 0
  /\ \A t \in Threads : InCredit(t)

\* The controllers create accounts with nothing on them, and update one only
\* to a balance that covers the transaction.
LEMMA CallsInCredit ==
  ASSUME SInv, NEW t \in Threads, ServerCall(t),
         op'[t].fn \in {"create_account", "update_account"}
  PROVE  op'[t].rec.balance >= 0
<1> USE DEF Permitted
<1>1. /\ ServerTypeOK /\ Waiting(t) /\ ThreadsOK
      /\ req[t].action # "None" => RequestOk(req[t])
  BY RequestType DEF SInv, TypeInv, TypeOK
<1>2. ASSUME NEW o, Invoke(t, o) PROVE op'[t] = o
  BY <1>1, <1>2 DEF Invoke, Begin, ThreadsOK
<1>3. \A fn, r, n : On(fn, r, n).fn = fn /\ On(fn, r, n).rec = r
  BY DEF On
<1>4. CASE CreateAccount(t)
  <2>1. op'[t].rec = AnAccount(0)
    BY <1>2, <1>3, <1>4 DEF CreateAccount
  <2>2. AnAccount(0) = [id |-> 0, balance |-> 0]
    BY DEF AnAccount, ZeroRec
  <2> QED
    BY <2>1, <2>2
<1>5. CASE StoreBalance(t)
  <2>1. /\ at[t] = "account" /\ pc[t] = "done" /\ ret[t] >= 0
        /\ req[t].action = "Transaction"
        /\ iter[t].balance + req[t].amt >= 0
        /\ Invoke(t, On("update_account",
                        [iter[t] EXCEPT !.balance = @ + req[t].amt], 0))
    BY <1>5 DEF StoreBalance, Returned, Covered
  <2>2. iter[t] \in AccountRec
    BY <1>1, <2>1, FoundType, Tables DEF Waiting, Gets
  <2>3. op'[t].rec = [iter[t] EXCEPT !.balance = @ + req[t].amt]
    BY <1>2, <1>3, <2>1
  <2>4. op'[t].rec.balance = iter[t].balance + req[t].amt
    BY <2>2, <2>3 DEF AccountRec
  <2> QED
    BY <2>1, <2>4
<1>6. CASE FindLogin(t) \/ FindUser(t) \/ FindAccount(t) \/ LogTransaction(t)
           \/ ChangePassword(t) \/ ModifyUser(t) \/ CreateJointUser(t)
           \/ CreateUser(t) \/ Delete(t) \/ Count(t) \/ CountTransactions(t)
  BY <1>2, <1>3, <1>6
     DEF FindLogin, FindUser, FindAccount, LogTransaction, ChangePassword,
         ModifyUser, CreateJointUser, CreateUser, Delete, Count,
         CountTransactions, LastCall
<1>7. CASE Announce(t)
  <2>1. op'[t].fn = Listing(req[t].action) /\ at[t] = "count"
    BY <1>2, <1>3, <1>7 DEF Announce, Returned
  <2>2. req[t].action \in {"GetUsers", "GetAccounts", "ViewDetails"}
    BY <1>1, <2>1 DEF Waiting, Listed
  <2> QED
    BY <2>1, <2>2 DEF Listing
<1> QED
  BY <1>4, <1>5, <1>6, <1>7 DEF ServerCall

LEMMA BalanceStep ==
  ASSUME SInv, BalanceInv, NEW t \in Threads, Step(t) PROVE BalanceInv'
<1>1. TypeInv /\ InCredit(t) /\ op'[t].fn = op[t].fn
  BY StructsAreKept DEF SInv, BalanceInv
<1>2. ASSUME NEW r \in Range(file'["account"]) PROVE r.balance >= 0
  <2>1. \/ r \in Range(file["account"]) \cup {ZeroRec("account")}
        \/ r = op[t].rec /\ op[t].fn \in Updates \cup Creates
             /\ TableOf(op[t].fn) = "account"
        \/ OpenFile(t) = "account" /\ r = iter[t] /\ iter[t] # NoRec
    <3>1. "account" \in Files
      BY DEF Files
    <3> QED
      BY <1>1, <1>2, <3>1, RecordsOnDisk
  <2>2. CASE r \in Range(file["account"]) \cup {ZeroRec("account")}
    BY <2>2 DEF BalanceInv, ZeroRec
  <2>3. CASE r = op[t].rec /\ op[t].fn \in Updates \cup Creates
               /\ TableOf(op[t].fn) = "account"
    <3>1. op[t].fn \in {"create_account", "update_account"}
      BY <2>3, Tables DEF Updates, Creates
    <3> QED
      BY <1>1, <2>3, <3>1 DEF InCredit
  <2>4. CASE OpenFile(t) = "account" /\ r = iter[t] /\ iter[t] # NoRec
    BY <1>1, <2>4 DEF InCredit
  <2> QED
    BY <2>1, <2>2, <2>3, <2>4
<1>3. InCredit(t)'
  <2>1. op'[t].fn \in {"create_account", "update_account"} =>
          op'[t].rec.balance >= 0
    BY <1>1, StructsAreKept DEF InCredit
  <2>2. ASSUME iter'[t] # NoRec, OpenFile(t)' = "account"
        PROVE  iter'[t].balance >= 0
    <3>1. OpenFile(t) = "account" /\ iter'[t] \in {iter[t]} \cup Range(Contents(t))
      BY <1>1, <2>2, RecordsInHand
    <3>2. Contents(t) = file["account"]
      BY <3>1 DEF Contents
    <3> QED
      BY <1>1, <2>2, <3>1, <3>2 DEF InCredit, BalanceInv
  <2> QED
    BY <2>1, <2>2 DEF InCredit
<1>4. ASSUME NEW u \in Threads \ {t} PROVE InCredit(u)'
  <2>1. op'[u] = op[u] /\ stage'[u] = stage[u] /\ iter'[u] = iter[u]
    BY <1>1, OthersStandStill
  <2> QED
    BY <2>1 DEF BalanceInv, InCredit, OpenFile
<1> QED
  BY <1>2, <1>3, <1>4 DEF BalanceInv

LEMMA BalanceNext == SInv /\ BalanceInv /\ [ServerNext]_allvars => BalanceInv'
<1> SUFFICES ASSUME SInv, BalanceInv, [ServerNext]_allvars PROVE BalanceInv'
  OBVIOUS
<1>1. ASSUME NEW t \in Threads, ServerCall(t) PROVE BalanceInv'
  <2>1. PICK o : OpOk(o) /\ Invoke(t, o)
    BY <1>1, ServerCalls DEF Calls
  <2>2. /\ UNCHANGED file /\ iter'[t] = NoRec
        /\ \A u \in Threads \ {t} : op'[u] = op[u] /\ stage'[u] = stage[u]
                                    /\ iter'[u] = iter[u]
    BY <2>1, CallBegins
  <2>3. InCredit(t)'
    BY <1>1, <2>2, CallsInCredit DEF InCredit
  <2>4. ASSUME NEW u \in Threads \ {t} PROVE InCredit(u)'
    BY <2>2 DEF BalanceInv, InCredit, OpenFile
  <2> QED
    BY <2>2, <2>3, <2>4 DEF BalanceInv
<1>2. ASSUME UNCHANGED <<file, op, stage, iter>> PROVE BalanceInv'
  BY <1>2 DEF BalanceInv, InCredit, OpenFile
<1>3. ASSUME NEW t \in Threads, ServerReply(t) PROVE BalanceInv'
  BY <1>2, <1>3, ReplyKeepsServer DEF vars, disk, local
<1>4. ASSUME NEW p \in Procs, Start(p) PROVE BalanceInv'
  BY <1>2, <1>4 DEF Start, InitCounter, local
<1>5. ASSUME NEW p \in Procs, Stop(p) PROVE BalanceInv'
  <2>1. UNCHANGED file
    BY <1>5 DEF Stop, Crash
  <2>2. ASSUME NEW t \in Threads PROVE InCredit(t)'
    <3>1. CASE Proc(t) = p
      <4>1. op'[t].fn = "get_num_users" /\ iter'[t] = NoRec
        BY <1>5, <3>1 DEF Stop, Crash, NoOp
      <4> QED
        BY <4>1 DEF InCredit
    <3>2. CASE Proc(t) # p
      <4>1. op'[t] = op[t] /\ stage'[t] = stage[t] /\ iter'[t] = iter[t]
        BY <1>5, <3>2 DEF Stop, Crash
      <4> QED
        BY <4>1 DEF BalanceInv, InCredit, OpenFile
    <3> QED
      BY <3>1, <3>2
  <2> QED
    BY <2>1, <2>2 DEF BalanceInv
<1>6. ASSUME UNCHANGED allvars PROVE BalanceInv'
  BY <1>2, <1>6 DEF allvars, vars, disk, local
<1> QED
  BY <1>1, <1>3, <1>4, <1>5, <1>6, BalanceStep, ServerSteps

\* However many clients book on the same accounts at the same time, whatever is
\* deleted meanwhile, whichever writes fail and whenever the server is killed:
\* no balance is ever below zero, if none was at the start.
THEOREM NoAccountIsOverdrawn == NoDebts /\ ServerSpec => []BalanceNeverNegative
<1>1. NoDebts /\ ServerInit => SInv /\ BalanceInv
  <2> SUFFICES ASSUME NoDebts, ServerInit PROVE BalanceInv
    BY ServerInitTypes
  <2>1. file \in InitFiles /\ \A t \in Threads : iter[t] = NoRec /\ op[t] = NoOp
    BY DEF ServerInit, Init
  <2> QED
    BY <2>1 DEF BalanceInv, InCredit, NoDebts, NoOp
<1>2. SInv /\ BalanceInv => BalanceNeverNegative
  <2> SUFFICES ASSUME SInv, BalanceInv, NEW i \in DOMAIN file["account"]
               PROVE  file["account"][i].balance >= 0
    BY DEF BalanceNeverNegative
  <2>1. file["account"][i] \in Range(file["account"])
    BY DEF Range
  <2> QED
    BY <2>1 DEF BalanceInv
<1> QED
  BY <1>1, <1>2, ServerNextTypes, BalanceNext, PTL DEF ServerSpec

(***************************************************************************)
(* The journal.                                                            *)
(***************************************************************************)

LEMMA LoggedStaysLogged ==
  ASSUME TypeInv, NEW t \in Threads, Step(t)
  PROVE  Range(file["trans"]) \subseteq Range(file'["trans"])
<1>1. CASE file'["trans"] = file["trans"]
  BY <1>1
<1>2. CASE /\ op[t].fn = "append_transaction"
           /\ file'["trans"] = Append(file["trans"], op[t].rec)
  <2>1. CallOK(t) /\ FilesOK
    BY DEF TypeInv, TypeOK
  <2>2. op[t].rec \in RecOf("trans")
    BY <1>2, <2>1, Tables DEF CallOK, OpOk
  <2>3. "trans" \in Files /\ file["trans"] \in Seq(RecOf("trans"))
    BY <2>1 DEF FilesOK, Files
  <2> QED
    BY <1>2, <2>2, <2>3, AppendRange
<1> QED
  BY <1>1, <1>2, JournalGrows

\* An append_transaction that is past its write has written, and a transaction
\* that was answered with success has made that call.
LoggedInv ==
  \A t \in Threads :
     /\ op[t].fn = "append_transaction" =>
          /\ pc[t] \in {"newid", "aopen", "alock", "append", "aunlock", "close",
                        "done"}
          /\ pc[t] \in {"aunlock", "close", "done"} =>
               op[t].rec \in Range(file["trans"])
     /\ Answered(t, "Transaction") =>
          pc[t] = "done" /\ op[t].fn = "append_transaction"

LEMMA LoggedStep ==
  ASSUME SInv, LoggedInv, Faults = {}, NEW t \in Threads, Step(t), UNCHANGED svars
  PROVE  LoggedInv'
<1> USE DEF Goto
<1>1. TypeInv /\ ThreadsOK /\ op'[t].fn = op[t].fn
  BY StructsAreKept DEF SInv, TypeInv, TypeOK
<1>2. Range(file["trans"]) \subseteq Range(file'["trans"])
  BY <1>1, LoggedStaysLogged
<1>3. ASSUME NEW u \in Threads PROVE Answered(u, "Transaction")' <=> Answered(u, "Transaction")
  BY DEF Answered, svars
<1>4. ASSUME NEW u \in Threads \ {t}
      PROVE  op'[u] = op[u] /\ pc'[u] = pc[u]
  BY <1>1, OthersStandStill
<1>5. ASSUME op[t].fn = "append_transaction"
      PROVE  /\ pc'[t] \in {"aopen", "alock", "append", "aunlock", "close", "done"}
             /\ pc'[t] \in {"aunlock", "close", "done"} =>
                  op'[t].rec \in Range(file'["trans"])
  <2>1. \/ NewId(t) \/ OpenForAppend(t) \/ LockEnd(t) \/ AppendRecord(t)
        \/ UnlockEnd(t) \/ Close(t)
    BY <1>5 DEF LoggedInv, Step, BeginScan, ReadHit, ReadMiss, ReadInto, ReadEOF,
         EndScan, LockRecord, Overwrite, OverwriteFails, LockTail, ShiftRead,
         ShiftWrite, ShiftWriteFails, ShiftEOF, SeekLast, Truncate, EndWrite,
         AppendFails, SeekSize, OpenFails
  <2>2. CASE NewId(t) \/ OpenForAppend(t) \/ LockEnd(t)
    BY <1>1, <2>2 DEF NewId, OpenForAppend, LockEnd, ThreadsOK
  <2>3. CASE AppendRecord(t)
    <3>1. pc'[t] = "aunlock" /\ op'[t] = op[t]
      BY <1>1, <2>3 DEF AppendRecord, ThreadsOK, local
    <3>2. OpenFile(t) = "trans"
      BY <1>5, Tables DEF OpenFile, FileAt
    <3>3. CallOK(t) /\ FilesOK
      BY <1>1 DEF TypeInv, TypeOK
    <3>4. op[t].rec \in RecOf("trans")
      BY <1>5, <3>3, Tables DEF CallOK, OpOk
    <3>5. "trans" \in Files /\ file["trans"] \in Seq(RecOf("trans"))
      BY <3>3 DEF FilesOK, Files
    <3>6. file'["trans"] = Append(file["trans"], op[t].rec)
      BY <2>3, <3>2, <3>3, <3>5 DEF AppendRecord, SetFile, Appended, Contents, FilesOK
    <3>7. Range(file'["trans"]) = Range(file["trans"]) \cup {op[t].rec}
      BY <3>4, <3>5, <3>6, AppendRange
    <3> QED
      BY <3>1, <3>7
  <2>4. CASE UnlockEnd(t) \/ Close(t)
    <3>1. pc'[t] \in {"close", "done"} /\ op'[t] = op[t]
      BY <1>1, <1>5, <2>4
         DEF UnlockEnd, Close, NextStage, HasNext, ThreadsOK, local
    <3>2. pc[t] \in {"aunlock", "close"}
      BY <2>4 DEF UnlockEnd, Close
    <3> QED
      BY <1>2, <1>5, <3>1, <3>2 DEF LoggedInv
  <2> QED
    BY <2>1, <2>2, <2>3, <2>4
<1>6. ~Answered(t, "Transaction")
  <2>1. pc[t] # "done"
    BY DEF Step, BeginScan, ReadHit, ReadMiss, ReadInto, ReadEOF,
         EndScan, LockRecord, Overwrite, OverwriteFails, LockTail, ShiftRead,
         ShiftWrite, ShiftWriteFails, ShiftEOF, SeekLast, Truncate, EndWrite,
         NewId, OpenForAppend, LockEnd, AppendRecord, AppendFails, UnlockEnd,
         SeekSize, Close, OpenFails
  <2> QED
    BY <2>1 DEF LoggedInv
<1> QED
  BY <1>1, <1>2, <1>3, <1>4, <1>5, <1>6 DEF LoggedInv

\* append_transaction is called for transactions alone, and nothing else makes
\* the answer to a transaction a success.
LEMMA LoggedCall ==
  ASSUME SInv, LoggedInv, NEW t \in Threads, ServerCall(t) PROVE LoggedInv'
<1>1. PICK o : OpOk(o) /\ Invoke(t, o)
  BY ServerCalls DEF Calls
<1>2. /\ UNCHANGED file /\ op'[t] = o /\ pc'[t] = FirstCall(o.fn)
      /\ \A u \in Threads \ {t} : op'[u] = op[u] /\ pc'[u] = pc[u]
  BY <1>1, CallBegins
<1>3. o.fn = "append_transaction" => FirstCall(o.fn) = "newid"
  BY DEF FirstCall, Creates
<1>4. /\ at'[t] # "ready"
      /\ \A u \in Threads \ {t} :
           at'[u] = at[u] /\ req'[u] = req[u] /\ resp'[u] = resp[u]
  BY DEF SInv, ServerTypeOK, ServerCall, FindLogin, FindUser, FindAccount,
     StoreBalance, LogTransaction, ChangePassword, ModifyUser, CreateJointUser,
     CreateAccount, CreateUser, Delete, Count, CountTransactions, Announce,
     LastCall, Permitted, Await, clients, locals
<1>5. ASSUME NEW u \in Threads \ {t}
      PROVE  Answered(u, "Transaction")' <=> Answered(u, "Transaction")
  BY <1>4, <1>5 DEF Answered
<1>6. ~Answered(t, "Transaction")'
  BY <1>4 DEF Answered
<1> QED
  BY <1>2, <1>3, <1>5, <1>6 DEF LoggedInv

LEMMA LoggedReply ==
  ASSUME SInv, LoggedInv, NEW t \in Threads, ServerReply(t) PROVE LoggedInv'
<1> USE DEF Reply, clients, locals
<1>1. UNCHANGED <<file, op, pc>> /\ ServerTypeOK /\ Waiting(t)
  BY ReplyKeepsServer DEF SInv, vars, disk, local
<1>2. \A u \in Threads \ {t} :
         at'[u] = at[u] /\ req'[u] = req[u] /\ resp'[u] = resp[u]
  BY <1>1 DEF ServerTypeOK, ServerReply, Request, Leave, RejectLogin, OpenSession,
     Logout, Refuse, Finish, AnswerAccount, StoreFails, CountFails, SendItems
<1>3. ASSUME NEW u \in Threads \ {t}
      PROVE  Answered(u, "Transaction")' <=> Answered(u, "Transaction")
  BY <1>2, <1>3 DEF Answered
<1>4. ASSUME Answered(t, "Transaction")'
      PROVE  pc[t] = "done" /\ op[t].fn = "append_transaction"
  <2>1. at'[t] = "ready" /\ req'[t].action = "Transaction" /\ resp'[t].stat = "Success"
    BY <1>4 DEF Answered
  <2>2. ~Request(t)
    BY <1>1, <2>1 DEF Request, Respond, ServerTypeOK
  <2>3. CASE Finish(t)
    BY <1>1, <2>1, <2>3 DEF Finish, Returned, Waiting
  <2>4. CASE Leave(t)
    BY <2>1, <2>4 DEF Leave, Answered, LoggedInv
  <2>5. CASE RejectLogin(t) \/ OpenSession(t) \/ Logout(t)
    BY <1>1, <2>1, <2>5 DEF RejectLogin, OpenSession, Logout, Returned, Waiting
  <2>6. CASE Refuse(t) \/ AnswerAccount(t) \/ StoreFails(t) \/ CountFails(t)
    BY <1>1, <2>1, <2>6
       DEF Refuse, AnswerAccount, StoreFails, CountFails, Respond, ServerTypeOK
  <2>7. CASE SendItems(t)
    BY <1>1, <2>1, <2>7 DEF SendItems, Returned, Waiting, Listed
  <2> QED
    BY <2>2, <2>3, <2>4, <2>5, <2>6, <2>7 DEF ServerReply
<1> QED
  BY <1>1, <1>3, <1>4 DEF LoggedInv

LEMMA LoggedNext ==
  Faults = {} /\ SInv /\ LoggedInv /\ [ServerNext]_allvars => LoggedInv'
<1> SUFFICES ASSUME Faults = {}, SInv, LoggedInv, [ServerNext]_allvars PROVE LoggedInv'
  OBVIOUS
<1>1. ASSUME UNCHANGED <<file, op, pc, at, req, resp>> PROVE LoggedInv'
  BY <1>1 DEF LoggedInv, Answered
<1>2. ASSUME NEW p \in Procs, Start(p) PROVE LoggedInv'
  BY <1>1, <1>2 DEF Start, InitCounter, local, svars
<1>3. ASSUME NEW p \in Procs, Stop(p) PROVE LoggedInv'
  <2>1. UNCHANGED file
    BY <1>3 DEF Stop, Crash
  <2>2. ASSUME NEW t \in Threads, Proc(t) = p
        PROVE  op'[t].fn = "get_num_users" /\ ~Answered(t, "Transaction")'
    BY <1>3, <2>2 DEF Stop, Crash, NoOp, Answered, NoRequest
  <2>3. ASSUME NEW t \in Threads, Proc(t) # p
        PROVE  /\ op'[t] = op[t] /\ pc'[t] = pc[t]
               /\ Answered(t, "Transaction")' <=> Answered(t, "Transaction")
    BY <1>3, <2>3 DEF Stop, Crash, Answered
  <2> QED
    BY <2>1, <2>2, <2>3 DEF LoggedInv
<1>4. ASSUME UNCHANGED allvars PROVE LoggedInv'
  BY <1>1, <1>4 DEF allvars, vars, disk, local, svars
<1> QED
  BY <1>2, <1>3, <1>4, LoggedCall, LoggedReply, LoggedStep, ServerSteps

\* While every system call of the server succeeds, a transaction reported as
\* successful is in the journal, though transaction_controller does not look at
\* what append_transaction returned, and nothing takes it out again.
THEOREM SuccessesAreLogged == Faults = {} /\ ServerSpec => []SuccessIsLogged
<1> DEFINE Inv == Faults = {} /\ SInv /\ LoggedInv
<1>1. Faults = {} /\ ServerInit => Inv
  <2> SUFFICES ASSUME Faults = {}, ServerInit PROVE LoggedInv
    BY ServerInitTypes
  <2> QED
    BY DEF ServerInit, Init, NoOp, LoggedInv, Answered, NoRequest
<1>2. Inv /\ [ServerNext]_allvars => Inv'
  BY ServerNextTypes, LoggedNext
<1>3. Inv => SuccessIsLogged
  BY DEF LoggedInv, SuccessIsLogged
<1> HIDE DEF Inv
<1> QED
  BY <1>1, <1>2, <1>3, PTL DEF ServerSpec

(***************************************************************************)
(* A server that is not asked to delete.                                   *)
(***************************************************************************)

NoDeleteRequests ==
  \A r \in Requests : r.action \notin {"DeleteUser", "DeleteAccount"}

\* The controllers leave the ids of new records to the database, and delete on
\* request only.
LEMMA CallsInPlace ==
  ASSUME SInv, NEW t \in Threads, ServerCall(t)
  PROVE  /\ NoDeleteRequests => op'[t].fn \notin Deletes
         /\ op'[t].fn \in Creates => op'[t].rec.id = 0
<1>1. /\ ServerTypeOK /\ Waiting(t) /\ ThreadsOK
      /\ req[t].action # "None" => RequestOk(req[t])
  BY RequestType DEF SInv, TypeInv, TypeOK
<1>2. ASSUME NEW o, Invoke(t, o) PROVE op'[t] = o
  BY <1>1, <1>2 DEF Invoke, Begin, ThreadsOK
<1>3. \A fn, r, n : On(fn, r, n).fn = fn /\ On(fn, r, n).rec = r
  BY DEF On
<1> USE DEF Creates, Deletes
<1>4. CASE CreateAccount(t)
  <2>1. op'[t].fn = "create_account" /\ op'[t].rec = AnAccount(0)
    BY <1>2, <1>3, <1>4 DEF CreateAccount
  <2> QED
    BY <2>1, StructTypes
<1>5. CASE CreateJointUser(t) \/ CreateUser(t) \/ LogTransaction(t)
  <2>1. /\ op'[t].fn \in {"create_user", "append_transaction"}
        /\ (\E a : op'[t].rec = NewUser(req[t], a)) \/ op'[t].rec = LogEntry(t)
    BY <1>2, <1>3, <1>5 DEF CreateJointUser, CreateUser, LogTransaction, LastCall
  <2>2. (\A r, a : NewUser(r, a).id = 0) /\ LogEntry(t).id = 0
    BY DEF NewUser, LogEntry
  <2> QED
    BY <2>1, <2>2
<1>6. CASE FindLogin(t) \/ FindUser(t) \/ FindAccount(t) \/ StoreBalance(t)
           \/ ChangePassword(t) \/ ModifyUser(t) \/ Count(t) \/ CountTransactions(t)
  BY <1>2, <1>3, <1>6
     DEF FindLogin, FindUser, FindAccount, StoreBalance, ChangePassword,
         ModifyUser, Count, CountTransactions, LastCall
<1>7. CASE Delete(t)
  <2>1. req[t].action \in {"DeleteUser", "DeleteAccount"}
        /\ op'[t].fn \in {"delete_user", "delete_account"}
    BY <1>2, <1>3, <1>7 DEF Delete, LastCall
  <2>2. req[t] \in Requests
    BY <1>1, <2>1 DEF ServerTypeOK, NoRequest
  <2> QED
    BY <2>1, <2>2 DEF NoDeleteRequests
<1>8. CASE Announce(t)
  <2>1. op'[t].fn = Listing(req[t].action) /\ at[t] = "count"
    BY <1>2, <1>3, <1>8 DEF Announce, Returned
  <2>2. req[t].action \in {"GetUsers", "GetAccounts", "ViewDetails"}
    BY <1>1, <2>1 DEF Waiting, Listed
  <2> QED
    BY <2>1, <2>2 DEF Listing
<1> QED
  BY <1>4, <1>5, <1>6, <1>7, <1>8 DEF ServerCall

LEMMA ServerNextGrows ==
  NoDeleteRequests /\ SInv /\ GrowInv /\ [ServerNext]_allvars => GrowInv'
<1> SUFFICES ASSUME NoDeleteRequests, SInv, GrowInv, [ServerNext]_allvars PROVE GrowInv'
  OBVIOUS
<1>1. TypeInv'
  BY ServerNextTypes DEF SInv
<1>2. ASSUME NEW t \in Threads, ServerCall(t) PROVE GrowInv'
  <2>1. PICK o : OpOk(o) /\ Invoke(t, o)
    BY <1>2, ServerCalls DEF Calls
  <2>2. op'[t] = o /\ o.fn \notin Deletes
    BY <1>2, <2>1, CallBegins, CallsInPlace
  <2> QED
    BY <1>1, <2>1, <2>2, InvokeGrows
<1>3. ASSUME UNCHANGED <<file, pc, local>> PROVE GrowInv'
  <2>1. Stays
    BY <1>3, SameFileStays DEF GrowInv
  <2>2. \A u \in Threads : Growing(u)'
    BY <1>1, <1>3, <2>1, StandsStill DEF local, GrowInv
  <2> QED
    BY <1>1, <2>2 DEF GrowInv
<1>4. ASSUME NEW t \in Threads, ServerReply(t) PROVE GrowInv'
  BY <1>3, <1>4, ReplyKeepsServer DEF vars, disk
<1>5. ASSUME NEW p \in Procs, Start(p) \/ Stop(p) PROVE GrowInv'
  BY <1>1, <1>3, <1>5, CrashGrows DEF Start, Stop, InitCounter
<1>6. ASSUME UNCHANGED allvars PROVE GrowInv'
  BY <1>3, <1>6 DEF allvars, vars, disk
<1> QED
  BY <1>1, <1>2, <1>4, <1>5, <1>6, StepGrows, ServerSteps

\* A call writes only for the user who asked, or for an administrator.
OnOwnBehalf(t) ==
  /\ op[t].fn = "update_user" =>
       user[t].info.is_admin \/ user[t].id = op[t].rec.id
  /\ op[t].fn = "update_account" => user[t].aid = op[t].rec.id

LEMMA CallsOnBehalf ==
  ASSUME SInv, NEW t \in Threads, ServerCall(t) PROVE OnOwnBehalf(t)'
<1>1. /\ ServerTypeOK /\ Waiting(t) /\ ThreadsOK
      /\ req[t].action # "None" => RequestOk(req[t])
  BY RequestType DEF SInv, TypeInv, TypeOK
<1>2. ASSUME NEW o, Invoke(t, o) PROVE op'[t] = o
  BY <1>1, <1>2 DEF Invoke, Begin, ThreadsOK
<1>3. \A fn, r, n : On(fn, r, n).fn = fn /\ On(fn, r, n).rec = r
  BY DEF On
<1>4. CASE ChangePassword(t)
  <2>1. /\ user'[t] = iter[t] /\ pc[t] = "done" /\ ret[t] >= 0
        /\ op[t].fn = "get_user_from_id"
    BY <1>1, <1>4 DEF ChangePassword, Permitted, Returned, ServerTypeOK, Waiting
  <2>2. /\ op'[t].fn = "update_user"
        /\ op'[t].rec = [iter[t] EXCEPT !.info.password = req[t].password]
    BY <1>2, <1>3, <1>4 DEF ChangePassword, LastCall, PasswordOf
  <2>3. iter[t] \in UserRec
    BY <2>1, FoundType, Tables DEF Gets
  <2>4. op'[t].rec.id = iter[t].id
    BY <2>2, <2>3 DEF UserRec
  <2> QED
    BY <2>1, <2>2, <2>4 DEF OnOwnBehalf
<1>5. CASE ModifyUser(t)
  <2>1. user'[t] = iter[t] /\ iter[t].info.is_admin
    BY <1>1, <1>5 DEF ModifyUser, Permitted, ServerTypeOK, Allowed, AdminActions
  <2>2. op'[t].fn = "update_user"
    BY <1>2, <1>3, <1>5 DEF ModifyUser, LastCall
  <2> QED
    BY <2>1, <2>2 DEF OnOwnBehalf
<1>6. CASE StoreBalance(t)
  <2>1. /\ user'[t] = user[t] /\ pc[t] = "done" /\ ret[t] >= 0
        /\ op[t].fn = "get_account_from_id" /\ op[t].rec.id = user[t].aid
    BY <1>1, <1>6 DEF StoreBalance, Returned, ServerTypeOK, Waiting
  <2>2. /\ op'[t].fn = "update_account"
        /\ op'[t].rec = [iter[t] EXCEPT !.balance = @ + req[t].amt]
    BY <1>2, <1>3, <1>6 DEF StoreBalance
  <2>3. iter[t] \in AccountRec /\ Matches(op[t], stage[t], iter[t])
    BY <2>1, FoundType, Tables DEF Gets
  <2>4. iter[t].id = user[t].aid
    BY <2>1, <2>3 DEF Matches
  <2>5. op'[t].rec.id = iter[t].id
    BY <2>2, <2>3 DEF AccountRec
  <2> QED
    BY <2>1, <2>2, <2>4, <2>5 DEF OnOwnBehalf
<1>7. CASE FindLogin(t) \/ FindUser(t) \/ FindAccount(t) \/ LogTransaction(t)
           \/ CreateAccount(t) \/ CreateJointUser(t) \/ CreateUser(t)
           \/ Delete(t) \/ Count(t) \/ CountTransactions(t)
  <2>1. op'[t].fn \notin {"update_user", "update_account"}
    BY <1>2, <1>3, <1>7
       DEF FindLogin, FindUser, FindAccount, LogTransaction, CreateAccount,
           CreateJointUser, CreateUser, Delete, Count, CountTransactions, LastCall
  <2> QED
    BY <2>1 DEF OnOwnBehalf
<1>8. CASE Announce(t)
  <2>1. op'[t].fn = Listing(req[t].action) /\ at[t] = "count"
    BY <1>2, <1>3, <1>8 DEF Announce, Returned
  <2>2. req[t].action \in {"GetUsers", "GetAccounts", "ViewDetails"}
    BY <1>1, <2>1 DEF Waiting, Listed
  <2> QED
    BY <2>1, <2>2 DEF Listing, OnOwnBehalf
<1> QED
  BY <1>4, <1>5, <1>6, <1>7, <1>8 DEF ServerCall

LEMMA BehalfNext ==
  ASSUME SInv, \A t \in Threads : OnOwnBehalf(t), [ServerNext]_allvars
  PROVE  \A t \in Threads : OnOwnBehalf(t)'
<1>1. ServerTypeOK /\ TypeInv /\ ThreadsOK
  BY DEF SInv, TypeInv, TypeOK
<1>2. ASSUME UNCHANGED <<op, user>> PROVE \A t \in Threads : OnOwnBehalf(t)'
  BY <1>2 DEF OnOwnBehalf
<1>3. ASSUME NEW t \in Threads, ServerCall(t) PROVE \A u \in Threads : OnOwnBehalf(u)'
  <2>1. PICK o : OpOk(o) /\ Invoke(t, o)
    BY <1>3, ServerCalls DEF Calls
  <2>2. \A u \in Threads \ {t} : op'[u] = op[u]
    BY <2>1, CallBegins
  <2>3. \A u \in Threads \ {t} : user'[u] = user[u]
    BY <1>1, <1>3
       DEF ServerTypeOK, ServerCall, FindLogin, FindUser, FindAccount,
           StoreBalance, LogTransaction, ChangePassword, ModifyUser,
           CreateJointUser, CreateAccount, CreateUser, Delete, Count,
           CountTransactions, Announce, Permitted, locals
  <2> QED
    BY <1>3, <2>2, <2>3, CallsOnBehalf DEF OnOwnBehalf
<1>4. ASSUME NEW t \in Threads, ServerReply(t) PROVE \A u \in Threads : OnOwnBehalf(u)'
  <2>1. UNCHANGED op
    BY <1>4, ReplyKeepsServer DEF vars, local
  <2>2. CASE OpenSession(t)
    <3>1. op[t].fn = "get_user_from_uname"
      BY <2>2 DEF SInv, Waiting, OpenSession, Returned
    <3>2. \A u \in Threads \ {t} : user'[u] = user[u]
      BY <1>1, <2>2 DEF OpenSession, ServerTypeOK
    <3> QED
      BY <2>1, <3>1, <3>2 DEF OnOwnBehalf
  <2>3. CASE ~OpenSession(t)
    <3>1. UNCHANGED user
      BY <1>4, <2>3
         DEF ServerReply, Request, Leave, RejectLogin, Logout, Refuse, Finish,
             AnswerAccount, StoreFails, CountFails, SendItems, locals
    <3> QED
      BY <1>2, <2>1, <3>1
  <2> QED
    BY <2>2, <2>3
<1>5. ASSUME NEW t \in Threads, Step(t), UNCHANGED svars
      PROVE  \A u \in Threads : OnOwnBehalf(u)'
  <2>1. UNCHANGED user /\ \A u \in Threads \ {t} : op'[u] = op[u]
    BY <1>1, <1>5, OthersStandStill DEF svars, locals
  <2>2. op'[t].fn = op[t].fn
        /\ (op[t].fn \in Updates => op'[t].rec.id = op[t].rec.id)
    <3>1. op'[t].fn = op[t].fn
      BY <1>1, <1>5, StructsAreKept
    <3>2. CASE LockRecord(t)
      <4>1. op'[t] = IF op[t].fn = "update_user"
                     THEN WithRec(op[t], KeepNames(op[t].rec, iter[t])) ELSE op[t]
        BY <1>1, <3>2 DEF LockRecord, ThreadsOK
      <4> QED
        BY <3>1, <4>1 DEF WithRec, KeepNames
    <3>3. CASE NewId(t)
      BY <1>1, <3>1, <3>3
         DEF NewId, Goto, TypeInv, Control, AppendPCs, Creates, Updates
    <3>4. CASE ~(LockRecord(t) \/ NewId(t))
      BY <1>5, <3>4
         DEF Step, BeginScan, ReadHit, ReadMiss, ReadInto, ReadEOF, EndScan,
             Overwrite, OverwriteFails, LockTail, ShiftRead, ShiftWrite,
             ShiftWriteFails, ShiftEOF, SeekLast, Truncate, EndWrite,
             OpenForAppend, LockEnd, AppendRecord, AppendFails, UnlockEnd,
             SeekSize, Close, OpenFails, local
    <3> QED
      BY <3>1, <3>2, <3>3, <3>4
  <2> QED
    BY <2>1, <2>2 DEF OnOwnBehalf, Updates
<1>6. ASSUME NEW p \in Procs, Start(p) PROVE \A u \in Threads : OnOwnBehalf(u)'
  BY <1>2, <1>6 DEF Start, InitCounter, local, svars, locals
<1>7. ASSUME NEW p \in Procs, Stop(p) PROVE \A u \in Threads : OnOwnBehalf(u)'
  <2>1. ASSUME NEW u \in Threads, Proc(u) = p PROVE op'[u].fn = "get_num_users"
    BY <1>7, <2>1 DEF Stop, Crash, NoOp
  <2>2. ASSUME NEW u \in Threads, Proc(u) # p PROVE op'[u] = op[u] /\ user'[u] = user[u]
    BY <1>7, <2>2 DEF Stop, Crash
  <2> QED
    BY <2>1, <2>2 DEF OnOwnBehalf
<1>8. ASSUME UNCHANGED allvars PROVE \A u \in Threads : OnOwnBehalf(u)'
  BY <1>2, <1>8 DEF allvars, vars, local, svars, locals
<1> QED
  BY <1>3, <1>4, <1>5, <1>6, <1>7, <1>8, ServerSteps

\* What writes a file, if nothing is deleted.
LEMMA GrowingWrites ==
  ASSUME SInv, GrowInv, [ServerNext]_allvars
  PROVE  \/ UNCHANGED file
         \/ \E t \in Threads : Overwrite(t) \/ AppendRecord(t)
<1>1. ASSUME NEW t \in Threads, Step(t)
      PROVE  UNCHANGED file \/ Overwrite(t) \/ AppendRecord(t)
  <2>1. Control(t) /\ op[t].fn \notin Deletes
    BY DEF GrowInv, Growing, Sees, TypeInv
  <2>2. ~ShiftWrite(t) /\ ~Truncate(t)
    BY <2>1 DEF ShiftWrite, Truncate, Goto, Control, Shifting
  <2> QED
    BY <1>1, <2>2, OnlyWrites
<1>2. ASSUME NEW t \in Threads, ServerCall(t) PROVE UNCHANGED file
  BY <1>2, ServerCalls DEF Calls, Invoke, disk
<1>3. ASSUME NEW t \in Threads, ServerReply(t) PROVE UNCHANGED file
  BY <1>3, ReplyKeepsServer DEF vars, disk
<1>4. ASSUME NEW p \in Procs, Start(p) \/ Stop(p) PROVE UNCHANGED file
  BY <1>4 DEF Start, Stop, InitCounter, Crash
<1>5. ASSUME UNCHANGED allvars PROVE UNCHANGED file
  BY <1>5 DEF allvars, vars, disk
<1> QED
  BY <1>1, <1>2, <1>3, <1>4, <1>5, ServerSteps

LEMMA ServerStays ==
  ASSUME SInv, GrowInv, [ServerNext]_allvars PROVE Stays
BY GrowingWrites, OverwriteStays, AppendStays, SameFileStays DEF GrowInv, Growing

\* The record an update overwrites has the id the update was called with.
LEMMA OverwriteHits ==
  ASSUME GrowInv, NEW t \in Threads, Overwrite(t),
         NEW f \in Files, NEW i \in DOMAIN file[f]
  PROVE  \/ file'[f][i] = file[f][i]
         \/ f = OpenFile(t) /\ file[f][i].id = op[t].rec.id
<1> DEFINE g == OpenFile(t)
<1>0. g = OpenFile(t)
  OBVIOUS
<1>1. /\ TypeInv /\ ThreadsOK /\ FilesOK /\ CallOK(t) /\ Control(t) /\ g \in Files
      /\ FoundIsKept(t) /\ Found(t) /\ Contents(t) = file[g]
      /\ file[g] \in Seq(RecOf(g))
  BY Located, FileSeq DEF GrowInv, Growing, Sees, TypeInv, TypeOK, Contents
<1>2. pc[t] = "write" /\ op[t].fn \in Updates /\ iter[t] # NoRec
  BY <1>1 DEF Overwrite, Goto, Control
<1>3. op[t].rec \in RecOf(g)
  <2>1. g = TableOf(op[t].fn)
    BY <1>2 DEF OpenFile, FileAt, Updates
  <2> QED
    BY <1>1, <2>1 DEF CallOK, OpOk
<1>4. cur[t] \in 1 .. Len(file[g]) /\ op[t].rec.id = file[g][cur[t]].id
  BY <1>1, <1>2 DEF Found, FoundIsKept, SameIdentity
<1>5. /\ \A h \in Files \ {g} : file'[h] = file[h]
      /\ file'[g] = WriteAt(file[g], cur[t] - 1, op[t].rec, ZeroRec(g))
  BY <1>1 DEF Overwrite, SetFile, Position, FilesOK
<1> HIDE DEF g
<1>6. \A j \in 1 .. Len(file[g]) :
         WriteAt(file[g], cur[t] - 1, op[t].rec, ZeroRec(g))[j]
           = IF j = cur[t] THEN op[t].rec ELSE file[g][j]
  <2>1. cur[t] - 1 \in Int /\ 0 <= cur[t] - 1 /\ cur[t] - 1 < Len(file[g])
        /\ (cur[t] - 1) + 1 = cur[t]
    BY <1>1, <1>4
  <2> QED
    BY <1>1, <1>3, <2>1, WriteAtStays
<1>7. CASE f = g
  <2>1. i \in 1 .. Len(file[g])
    BY <1>1, <1>7
  <2>2. CASE i = cur[t]
    BY <1>0, <1>4, <1>7, <2>2
  <2>3. CASE i # cur[t]
    BY <1>5, <1>6, <1>7, <2>1, <2>3
  <2> QED
    BY <2>2, <2>3
<1> QED
  BY <1>5, <1>7

LEMMA AppendMovesNothing ==
  ASSUME TypeInv, NEW t \in Threads, AppendRecord(t),
         NEW f \in Files, NEW i \in DOMAIN file[f]
  PROVE  file'[f][i] = file[f][i]
<1> DEFINE g == OpenFile(t)
<1>1. g \in Files /\ file[g] \in Seq(RecOf(g)) /\ FilesOK
  BY Located, FileSeq DEF TypeInv, TypeOK
<1>2. /\ \A h \in Files \ {g} : file'[h] = file[h]
      /\ file'[g] = Append(file[g], op[t].rec)
  BY <1>1 DEF AppendRecord, Appended, SetFile, FilesOK, Contents
<1> HIDE DEF g
<1>3. \A j \in DOMAIN file[g] : file'[g][j] = file[g][j]
  BY <1>1, <1>2
<1> QED
  BY <1>2, <1>3

\* As long as nobody asks to delete, what RecordsKeepTheirPlace and
\* ScansPassByNothing say of any calls holds for those of the controllers.
THEOREM ServerKeepsPlaces ==
  NoDeleteRequests /\ ServerSpec => RecordsStay /\ []ScanMissesNothing
<1> DEFINE Inv == NoDeleteRequests /\ SInv /\ GrowInv
           Kept == \A f \in Files : \A i \in DOMAIN file[f] :
                     /\ i \in DOMAIN file'[f]
                     /\ file'[f][i].id = file[f][i].id
                     /\ f = "user" => /\ file'[f][i].uname = file[f][i].uname
                                      /\ file'[f][i].aid = file[f][i].aid
<1>1. NoDeleteRequests /\ ServerInit => Inv
  BY ServerInitTypes, InitGrows DEF ServerInit
<1>2. Inv /\ [ServerNext]_allvars => Inv'
  BY ServerNextTypes, ServerNextGrows DEF NoDeleteRequests
<1>3. Inv => ScanMissesNothing
  BY DEF GrowInv, Growing, Sees, Passed, ScanMissesNothing
<1>4. Inv /\ [ServerNext]_allvars => [Kept]_vars
  <2> SUFFICES ASSUME Inv, [ServerNext]_allvars, NEW f \in Files, NEW i \in DOMAIN file[f]
               PROVE  /\ i \in DOMAIN file'[f]
                      /\ SameIdentity(f, file'[f][i], file[f][i])
    BY DEF SameIdentity
  <2>1. TypeInv /\ TypeInv' /\ Stays
    BY ServerNextTypes, ServerStays DEF SInv
  <2>2. DOMAIN file[f] = 1 .. Len(file[f]) /\ DOMAIN file'[f] = 1 .. Len(file'[f])
    BY <2>1 DEF TypeInv, TypeOK, FilesOK
  <2> QED
    BY <2>1, <2>2 DEF Stays
<1> HIDE DEF Inv
<1> QED
  BY <1>1, <1>2, <1>3, <1>4, PTL DEF ServerSpec, RecordsStay

\* A client can change his own password, an administrator every user, the users
\* of an account its balance, and nobody anything else: the record that is
\* overwritten is still the one that was looked up for the request, whatever
\* other clients have written or created since.
THEOREM OnlyOwnersWrite == NoDeleteRequests /\ ServerSpec => OthersAreLeftAlone
<1> DEFINE Inv == /\ NoDeleteRequests /\ SInv /\ GrowInv
                  /\ \A t \in Threads : OnOwnBehalf(t)
           Left  == /\ \A i \in DOMAIN file["user"] :
                         file'["user"][i] = file["user"][i] \/
                         \E t \in Threads : /\ pc[t] = "write" /\ pc'[t] = "wunlock"
                                            /\ \/ user[t].info.is_admin
                                               \/ user[t].id = file["user"][i].id
                    /\ \A i \in DOMAIN file["account"] :
                         file'["account"][i] = file["account"][i] \/
                         \E t \in Threads : /\ pc[t] = "write" /\ pc'[t] = "wunlock"
                                            /\ user[t].aid = file["account"][i].id
<1>1. NoDeleteRequests /\ ServerInit => Inv
  <2> SUFFICES ASSUME NoDeleteRequests, ServerInit PROVE \A t \in Threads : OnOwnBehalf(t)
    BY ServerInitTypes, InitGrows DEF ServerInit
  <2> QED
    BY DEF ServerInit, Init, NoOp, OnOwnBehalf
<1>2. Inv /\ [ServerNext]_allvars => Inv'
  BY ServerNextTypes, ServerNextGrows, BehalfNext DEF NoDeleteRequests
<1>3. Inv /\ [ServerNext]_allvars => [Left]_allvars
  <2> SUFFICES ASSUME Inv, [ServerNext]_allvars PROVE Left
    OBVIOUS
  <2>1. TypeInv /\ FilesOK /\ "user" \in Files /\ "account" \in Files
    BY DEF SInv, TypeInv, TypeOK, Files
  <2>2. CASE UNCHANGED file
    BY <2>2
  <2>3. CASE \E t \in Threads : Overwrite(t)
    <3>1. PICK t \in Threads : Overwrite(t)
      BY <2>3
    <3>2. /\ pc[t] = "write" /\ pc'[t] = "wunlock" /\ op[t].fn \in Updates
          /\ OpenFile(t) = TableOf(op[t].fn)
      BY <2>1, <3>1
         DEF Overwrite, Goto, TypeInv, TypeOK, ThreadsOK, Control, OpenFile, FileAt,
             Updates
    <3>3. \A f \in Files : \A i \in DOMAIN file[f] :
            \/ file'[f][i] = file[f][i]
            \/ f = OpenFile(t) /\ file[f][i].id = op[t].rec.id
      BY <3>1, OverwriteHits
    <3>4. OnOwnBehalf(t)
      OBVIOUS
    <3>5. \/ op[t].fn = "update_user" /\ OpenFile(t) = "user"
          \/ op[t].fn = "update_account" /\ OpenFile(t) = "account"
      BY <3>2, Tables DEF Updates
    <3> QED
      BY <2>1, <3>2, <3>3, <3>4, <3>5 DEF OnOwnBehalf
  <2>4. CASE \E t \in Threads : AppendRecord(t)
    <3>1. PICK t \in Threads : AppendRecord(t)
      BY <2>4
    <3>2. \A f \in Files : \A i \in DOMAIN file[f] : file'[f][i] = file[f][i]
      BY <2>1, <3>1, AppendMovesNothing
    <3> QED
      BY <2>1, <3>2
  <2>5. \/ UNCHANGED file
        \/ \E t \in Threads : Overwrite(t) \/ AppendRecord(t)
    BY GrowingWrites
  <2> QED
    BY <2>2, <2>3, <2>4, <2>5
<1> HIDE DEF Inv
<1> QED
  BY <1>1, <1>2, <1>3, PTL DEF ServerSpec, OthersAreLeftAlone

LEMMA ServerNextReports ==
  ASSUME NoDeleteRequests, SInv, RepInv, [ServerNext]_allvars PROVE RepInv'
<1>1. IInv' /\ GrowInv' /\ TypeInv'
  BY ServerNextIds, ServerNextGrows DEF RepInv, GrowInv
<1>2. ASSUME NEW t \in Threads, ServerCall(t) PROVE RepInv'
  <2>1. PICK o : OpOk(o) /\ Invoke(t, o)
    BY <1>2, ServerCalls DEF Calls
  <2>2. op'[t] = o /\ (o.fn \in Creates => o.rec.id = 0)
    BY <1>2, <2>1, CallBegins, CallsInPlace
  <2> QED
    BY <1>1, <2>1, <2>2, InvokeReports
<1>3. ASSUME UNCHANGED vars PROVE RepInv'
  BY <1>1, <1>3, QuietReports DEF vars, disk, local
<1>4. ASSUME NEW t \in Threads, ServerReply(t) PROVE RepInv'
  BY <1>3, <1>4, ReplyKeepsServer
<1>5. ASSUME NEW p \in Procs, Start(p) \/ Stop(p) PROVE RepInv'
  BY <1>1, <1>5, InitCounterReports, CrashReports DEF Start, Stop
<1>6. ASSUME UNCHANGED allvars PROVE RepInv'
  BY <1>3, <1>6 DEF allvars
<1> QED
  BY <1>1, <1>2, <1>4, <1>5, <1>6, StepReports, ServerSteps

\* The controllers can rely on the status of a create, as long as nobody asks
\* to delete: it says success exactly if the user, the account or the journal
\* entry is on file, whichever system calls failed.
THEOREM ServerReportsAreTrue ==
  SingleProcess /\ NoDeleteRequests /\ NoHoles /\ ServerSpec => []StoredIffReported
<1> DEFINE Inv == NoDeleteRequests /\ SInv /\ RepInv
<1>1. SingleProcess /\ NoDeleteRequests /\ NoHoles /\ ServerInit => Inv
  BY ServerInitTypes, InitReports DEF ServerInit
<1>2. Inv /\ [ServerNext]_allvars => Inv'
  BY ServerNextTypes, ServerNextReports DEF NoDeleteRequests
<1>3. Inv => StoredIffReported
  BY RepInvReports
<1> HIDE DEF Inv
<1> QED
  BY <1>1, <1>2, <1>3, PTL DEF ServerSpec

(***************************************************************************)
(* Who made a transaction.                                                 *)
(***************************************************************************)

\* When the server is set up, no entry of the journal names a user with another
\* account, nor one whose id is still to be given out.
KnownOwners ==
  \A s \in InitFiles : \A r \in Range(s["trans"]) :
    /\ r.uid # 0
    /\ \A u \in Range(s["user"]) : u.id = r.uid => u.aid = r.aid
    /\ \E u \in Range(s["user"]) : r.uid <= u.id

\* Account a is that of user i, and i is not going to be anybody else's id.
Owned(i, a) ==
  /\ \A v \in Known : v.id = i => v.aid = a
  /\ \A t \in Threads :
       /\ Appending(t) /\ OpenFile(t) = "user" => op[t].rec.id # i
       /\ Booted(Proc(t), "user") => i <= ctr[Proc(t)]["user"]
       /\ ~Booted(Proc(t), "user") =>
            i = 0 \/ \E u \in Range(file["user"]) : i <= u.id

OwnerInv ==
  crashes = 0 =>
    /\ \A r \in Range(file["trans"]) : Owned(r.uid, r.aid)
    /\ \A t \in Threads :
         /\ Owned(user[t].id, user[t].aid)
         /\ op[t].fn = "append_transaction" => Owned(op[t].rec.uid, op[t].rec.aid)

\* The step that gives out an id is the only one where one is due.
LEMMA NewIdOnly ==
  ASSUME NEW t \in Threads, Step(t), ~NewId(t) PROVE pc[t] # "newid"
BY DEF Step, Goto, BeginScan, ReadHit, ReadMiss, ReadInto, ReadEOF, EndScan,
       LockRecord, Overwrite, OverwriteFails, LockTail, ShiftRead, ShiftWrite,
       ShiftWriteFails, ShiftEOF, SeekLast, Truncate, EndWrite, OpenForAppend,
       LockEnd, AppendRecord, AppendFails, UnlockEnd, SeekSize, Close, OpenFails

\* What a step of a call does to the users there are: it keeps them, adds one
\* with its new id, or writes the one it has found under the name it has there.
LEMMA UsersOfStep ==
  ASSUME IInv, NEW t \in Threads, Step(t), NEW v \in Known'
  PROVE  \/ \E u \in Known : v.id = u.id /\ v.aid = u.aid
         \/ Appending(t) /\ OpenFile(t) = "user" /\ v.id = op[t].rec.id
<1>1. /\ TypeInv /\ ThreadsOK /\ FoundIsKept(t) /\ Control(t)
      /\ "user" \in Files
  BY DEF IInv, IdInv, TypeInv, TypeOK, Files
<1>2. ASSUME v \in Range(file'["user"])
      PROVE  \/ \E u \in Known : v.id = u.id /\ v.aid = u.aid
             \/ Appending(t) /\ OpenFile(t) = "user" /\ v.id = op[t].rec.id
  <2>1. \/ v \in Range(file["user"]) \cup {ZeroRec("user")}
        \/ /\ OpenFile(t) = "user" /\ v = op[t].rec
           /\ Overwrite(t) \/ AppendRecord(t)
           /\ op[t].fn \in Updates \cup Creates
        \/ OpenFile(t) = "user" /\ v = iter[t] /\ iter[t] # NoRec
    BY <1>1, <1>2, RecordsOnDisk
  <2>2. CASE v \in Range(file["user"]) \cup {ZeroRec("user")}
    BY <2>2 DEF Known, UserCopies
  <2>3. CASE OpenFile(t) = "user" /\ v = iter[t] /\ iter[t] # NoRec
    BY <2>3 DEF Known, UserCopies
  <2>4. CASE OpenFile(t) = "user" /\ v = op[t].rec /\ Overwrite(t)
    <3>1. pc[t] = "write" /\ op[t].fn \in Updates /\ iter[t] # NoRec
      BY <1>1, <2>4 DEF Overwrite, Goto, Control
    <3>2. op[t].fn = "update_user"
      BY <2>4, <3>1, Tables DEF OpenFile, FileAt, Updates
    <3>3. iter[t] \in Known
      BY <2>4, <3>1 DEF Known, UserCopies
    <3> QED
      BY <1>1, <2>4, <3>1, <3>2, <3>3 DEF FoundIsKept
  <2>5. CASE OpenFile(t) = "user" /\ v = op[t].rec /\ AppendRecord(t)
    BY <1>1, <2>5 DEF AppendRecord, Goto, Control, AppendPCs, Appending
  <2> QED
    BY <2>1, <2>2, <2>3, <2>4, <2>5
<1>3. ASSUME NEW u \in Threads, v = iter'[u], iter'[u] # NoRec, OpenFile(u)' = "user"
      PROVE  v \in Known
  <2>1. CASE u # t
    <3>1. iter'[u] = iter[u] /\ OpenFile(u)' = OpenFile(u)
      BY <1>1, <2>1, OthersStandStill DEF OpenFile
    <3> QED
      BY <1>3, <3>1 DEF Known, UserCopies
  <2>2. CASE u = t
    <3>1. OpenFile(t) = "user" /\ iter'[t] \in {iter[t]} \cup Range(Contents(t))
      BY <1>1, <1>3, <2>2, RecordsInHand
    <3>2. iter'[t] = iter[t] \/ iter'[t] \in Range(file["user"])
      BY <3>1 DEF Contents
    <3> QED
      BY <1>3, <2>2, <3>1, <3>2 DEF Known, UserCopies
  <2> QED
    BY <2>1, <2>2
<1>4. CASE v = ZeroRec("user")
  BY <1>4 DEF Known
<1> QED
  BY <1>2, <1>3, <1>4 DEF Known, UserCopies

LEMMA OwnedByStep ==
  ASSUME IInv, NEW t \in Threads, Step(t), NEW i \in Nat, NEW a, Owned(i, a)
  PROVE  Owned(i, a)'
<1>1. /\ TypeInv /\ ThreadsOK /\ KernelOK /\ InHandBounded(t)
      /\ \A u \in Threads : Proc(u) = Proc(t) /\ Proc(u) \in Procs
  BY Located DEF IInv, IdInv, SingleProcess, TypeInv, TypeOK
<1>2. pc[t] # "idle" /\ UNCHANGED boot
  <2>1. pc[t] # "idle"
    BY DEF Step, Goto, BeginScan, ReadHit, ReadMiss, ReadInto, ReadEOF, EndScan,
         LockRecord, Overwrite, OverwriteFails, LockTail, ShiftRead, ShiftWrite,
         ShiftWriteFails, ShiftEOF, SeekLast, Truncate, EndWrite, NewId,
         OpenForAppend, LockEnd, AppendRecord, AppendFails, UnlockEnd, SeekSize,
         Close, OpenFails
  <2>2. UNCHANGED boot
    BY DEF Step, BeginScan, ReadHit, ReadMiss, ReadInto, ReadEOF, EndScan,
         LockRecord, Overwrite, OverwriteFails, LockTail, ShiftRead, ShiftWrite,
         ShiftWriteFails, ShiftEOF, SeekLast, Truncate, EndWrite, NewId,
         OpenForAppend, LockEnd, AppendRecord, AppendFails, UnlockEnd, SeekSize,
         Close, OpenFails, disk
  <2> QED
    BY <2>1, <2>2
<1>3. \A u \in Threads : boot[Proc(u)] = "up" /\ boot'[Proc(u)] = "up"
  BY <1>1, <1>2 DEF InHandBounded
<1>4. i <= ctr[Proc(t)]["user"] /\ ctr[Proc(t)]["user"] \in Nat
  BY <1>1, <1>3 DEF Owned, Booted, KernelOK, Files
<1>5. ASSUME NEW v \in Known', v.id = i PROVE v.aid = a
  <2>1. CASE \E u \in Known : v.id = u.id /\ v.aid = u.aid
    BY <1>5, <2>1 DEF Owned
  <2>2. CASE Appending(t) /\ OpenFile(t) = "user" /\ v.id = op[t].rec.id
    BY <1>5, <2>2 DEF Owned
  <2> QED
    BY <2>1, <2>2, UsersOfStep
<1>6. \/ ctr' = ctr /\ ~NewId(t)
      \/ /\ NewId(t) /\ OpenFile(t) = "user"
         /\ ctr'[Proc(t)]["user"] = ctr[Proc(t)]["user"] + 1
         /\ op'[t].rec.id = ctr[Proc(t)]["user"] + 1
      \/ /\ NewId(t) /\ OpenFile(t) # "user"
         /\ ctr'[Proc(t)]["user"] = ctr[Proc(t)]["user"]
  <2>1. CASE NewId(t)
    <3>1. CallOK(t) /\ op[t].fn \in Creates /\ OpenFile(t) = TableOf(op[t].fn)
      BY <1>1, <2>1
         DEF TypeInv, TypeOK, NewId, Goto, Control, AppendPCs, OpenFile, FileAt, Creates
    <3>2. ctr' = [ctr EXCEPT ![Proc(t)][OpenFile(t)] = ctr[Proc(t)][OpenFile(t)] + 1]
      BY <2>1 DEF NewId, NextId
    <3>3. op'[t].rec = [op[t].rec EXCEPT !.id = ctr[Proc(t)][OpenFile(t)] + 1]
      BY <1>1, <2>1 DEF NewId, NextId, WithRec, ThreadsOK
    <3>4. OpenFile(t) = "user" => op[t].rec \in UserRec
      BY <3>1, Tables DEF CallOK, OpOk
    <3>5. OpenFile(t) = "user" => op'[t].rec.id = ctr[Proc(t)]["user"] + 1
      BY <3>3, <3>4 DEF UserRec
    <3>6. OpenFile(t) \in Files /\ "user" \in Files
      BY <1>1, Located DEF Files
    <3> QED
      BY <1>1, <2>1, <3>2, <3>5, <3>6 DEF KernelOK
  <2>2. CASE ~NewId(t)
    BY <2>2 DEF Step, BeginScan, ReadHit, ReadMiss, ReadInto, ReadEOF, EndScan,
         LockRecord, Overwrite, OverwriteFails, LockTail, ShiftRead, ShiftWrite,
         ShiftWriteFails, ShiftEOF, SeekLast, Truncate, EndWrite,
         OpenForAppend, LockEnd, AppendRecord, AppendFails, UnlockEnd, SeekSize,
         Close, OpenFails, disk
  <2> QED
    BY <2>1, <2>2
<1>7. i <= ctr'[Proc(t)]["user"]
  BY <1>4, <1>6
<1>8. ASSUME NEW u \in Threads, Appending(u)', OpenFile(u)' = "user"
      PROVE  op'[u].rec.id # i
  <2>1. CASE u # t
    <3>1. /\ pc'[u] = pc[u] /\ op'[u] = op[u] /\ stage'[u] = stage[u]
      BY <1>1, <2>1, OthersStandStill
    <3>2. Appending(u) /\ OpenFile(u) = "user"
      BY <1>8, <3>1 DEF Appending, OpenFile
    <3> QED
      BY <3>1, <3>2 DEF Owned
  <2>2. CASE u = t /\ NewId(t)
    <3>1. OpenFile(t)' = OpenFile(t)
      <4>1. op'[t].fn = op[t].fn
        BY <1>1, StructsAreKept
      <4> QED
        BY <2>2, <4>1 DEF OpenFile, NewId
    <3> QED
      BY <1>4, <1>6, <1>8, <2>2, <3>1
  <2>3. CASE u = t /\ ~NewId(t)
    <3>1. Appending(t) /\ op'[t] = op[t] /\ stage'[t] = stage[t]
      <4>1. op[t].fn \in Creates /\ op'[t].fn = op[t].fn
        BY <1>1, <1>8, <2>3, StructsAreKept DEF Appending
      <4>2. pc[t] # "newid"
        BY <2>3, NewIdOnly
      <4>3. op'[t] = op[t]
        BY <1>1, <4>1, <4>2, StructsAreKept DEF Creates
      <4>4. pc[t] \in {"aopen", "alock"} /\ stage'[t] = stage[t]
        BY <1>1, <1>8, <2>3
           DEF Appending, ThreadsOK, Step, Goto, BeginScan, ReadHit, ReadMiss,
               ReadInto, ReadEOF, EndScan, LockRecord, Overwrite, OverwriteFails,
               LockTail, ShiftRead, ShiftWrite, ShiftWriteFails, ShiftEOF, SeekLast,
               Truncate, EndWrite, OpenForAppend, LockEnd, AppendRecord,
               AppendFails, UnlockEnd, SeekSize, Close, OpenFails, StageCall, local
      <4> QED
        BY <4>1, <4>3, <4>4 DEF Appending
    <3> QED
      BY <1>8, <2>3, <3>1 DEF Owned, OpenFile
  <2> QED
    BY <2>1, <2>2, <2>3
<1>9. \A u \in Threads : Booted(Proc(u), "user")' /\ i <= ctr'[Proc(u)]["user"]
  BY <1>1, <1>3, <1>7 DEF Booted, Proc
<1> QED
  BY <1>5, <1>8, <1>9 DEF Owned, Proc

\* The steps that make no new user.
LEMMA OwnedKept ==
  ASSUME Known' \subseteq Known, UNCHANGED <<file, ctr, boot>>,
         \A u \in Threads : /\ Appending(u)' => Appending(u) /\ op'[u] = op[u]
                            /\ Appending(u)' => OpenFile(u)' = OpenFile(u),
         NEW i, NEW a, Owned(i, a)
  PROVE  Owned(i, a)'
BY DEF Owned, Booted, Proc

LEMMA OwnedByCall ==
  ASSUME SInv, NEW t \in Threads, ServerCall(t), NEW i, NEW a, Owned(i, a)
  PROVE  Owned(i, a)'
<1>1. PICK o : OpOk(o) /\ Invoke(t, o)
  BY ServerCalls DEF Calls
<1>2. /\ op'[t] = o /\ iter'[t] = NoRec /\ pc'[t] = FirstCall(o.fn)
      /\ \A u \in Threads \ {t} :
           pc'[u] = pc[u] /\ op'[u] = op[u] /\ stage'[u] = stage[u] /\ iter'[u] = iter[u]
      /\ UNCHANGED <<file, ctr, boot>>
  BY <1>1, CallBegins
<1>3. ~Appending(t)'
  BY <1>2 DEF Appending, FirstCall
<1>4. \A u \in Threads \ {t} : OpenFile(u)' = OpenFile(u) /\ (Appending(u)' <=> Appending(u))
  BY <1>2 DEF OpenFile, Appending
<1>5. Known' \subseteq Known
  BY <1>2, <1>4 DEF Known, UserCopies
<1> QED
  BY <1>2, <1>3, <1>4, <1>5, OwnedKept

\* db_init sets the counter to the largest id on file.
LEMMA OwnedByStart ==
  ASSUME IInv, NEW p \in Procs, InitCounter(p), NEW i \in Nat, NEW a, Owned(i, a)
  PROVE  Owned(i, a)'
<1>1. /\ TypeInv /\ KernelOK /\ UNCHANGED <<file, pc, op, stage, iter>>
      /\ \A u \in Threads : Proc(u) \in Procs
  BY Located DEF IInv, TypeInv, TypeOK, InitCounter, local
<1>2. Known' = Known /\ \A u \in Threads : /\ Appending(u)' <=> Appending(u)
                                           /\ OpenFile(u)' = OpenFile(u)
  BY <1>1 DEF Known, UserCopies, Appending, OpenFile
<1>3. PICK m \in Ids(file[boot[p]]) \cup {0} :
        IsLargest(m, file[boot[p]]) /\ ctr' = [ctr EXCEPT ![p][boot[p]] = m]
  BY DEF InitCounter
<1>4. boot[p] \in Files /\ boot' = [boot EXCEPT ![p] = BootAfter(boot[p])]
  BY <1>1 DEF InitCounter, KernelOK
<1>5. ASSUME NEW u \in Threads
      PROVE  /\ Booted(Proc(u), "user")' => i <= ctr'[Proc(u)]["user"]
             /\ ~Booted(Proc(u), "user")' =>
                  i = 0 \/ \E v \in Range(file'["user"]) : i <= v.id
  <2>1. CASE Proc(u) # p
    BY <1>1, <1>3, <1>4, <2>1 DEF Owned, Booted, KernelOK, Proc
  <2>2. CASE Proc(u) = p /\ boot[p] = "user"
    <3>1. ctr'[p]["user"] = m /\ "user" \in Files
      BY <1>1, <1>3, <2>2 DEF KernelOK, Files
    <3>2. i = 0 \/ \E v \in Range(file["user"]) : i <= v.id
      BY <2>2 DEF Owned, Booted
    <3>3. file["user"] \in Seq(UserRec)
      BY <1>1, Tables, FileSeq, <3>1
    <3>4. \A v \in Range(file["user"]) : v.id \in Nat /\ v.id \in Ids(file["user"])
      <4>1. \A j \in DOMAIN file["user"] : file["user"][j] \in UserRec
        BY <3>3
      <4>2. \A r \in UserRec : r.id \in Nat
        BY DEF UserRec
      <4> QED
        BY <4>1, <4>2 DEF Range, Ids
    <3>5. m \in Nat /\ \A v \in Range(file["user"]) : v.id <= m
      <4>1. Ids(file["user"]) \subseteq Nat
        BY <3>4 DEF Ids, Range
      <4> QED
        BY <1>3, <2>2, <3>4, <4>1 DEF IsLargest
    <3>6. i <= m
      BY <3>2, <3>4, <3>5
    <3>7. Booted(Proc(u), "user")'
      BY <1>1, <1>4, <2>2 DEF Booted, BootAfter, KernelOK, Proc
    <3> QED
      BY <2>2, <3>1, <3>6, <3>7 DEF Proc
  <2>3. CASE Proc(u) = p /\ boot[p] # "user"
    <3>1. ctr'[p]["user"] = ctr[p]["user"] /\ Booted(p, "user")
      BY <1>1, <1>3, <1>4, <2>3 DEF KernelOK, Booted, Files
    <3>2. boot'[p] \in {"trans", "up"}
      BY <1>1, <1>4, <2>3 DEF BootAfter, KernelOK, Files
    <3>3. Booted(p, "user")'
      BY <3>2 DEF Booted
    <3> QED
      BY <2>3, <3>1, <3>3 DEF Owned, Proc
  <2> QED
    BY <2>1, <2>2, <2>3
<1> QED
  BY <1>1, <1>2, <1>5 DEF Owned

\* A user that has been looked up owns his account.
LEMMA FoundIsOwned ==
  ASSUME SInv, IInv, NEW t \in Threads, pc[t] = "done", ret[t] >= 0,
         op[t].fn \in {"get_user_from_id", "get_user_from_uname"}
  PROVE  Owned(iter[t].id, iter[t].aid)
<1>1. /\ InHandBounded(t) /\ \A u \in Threads : Proc(u) = Proc(t)
      /\ OpenFile(t) = "user"
  BY Tables DEF IInv, IdInv, SingleProcess, OpenFile, FileAt
<1>2. iter[t] \in UserRec
  BY FoundType, Tables DEF Gets
<1>3. iter[t] # NoRec
  BY <1>2, NoRecAssumption, Tables DEF Files
<1>4. iter[t] \in Known
  BY <1>1, <1>3 DEF Known, UserCopies
<1>5. \A v \in Known : v.id = iter[t].id => v.aid = iter[t].aid
  BY <1>4 DEF IInv, IdInv, Consistent
<1>6. \A u \in Threads : Appending(u) /\ OpenFile(u) = "user" => op[u].rec.id # iter[t].id
  <2> TAKE u \in Threads
  <2>1. CASE u = t
    BY <2>1 DEF Appending
  <2>2. CASE u # t
    BY <1>1, <1>3, <2>2 DEF IInv, IdInv, Unused
  <2> QED
    BY <2>1, <2>2
<1>7. boot[Proc(t)] = "up" /\ iter[t].id <= ctr[Proc(t)]["user"]
  BY <1>1, <1>3 DEF InHandBounded
<1> QED
  BY <1>1, <1>5, <1>6, <1>7 DEF Owned, Booted

\* The only entry that a controller makes in the journal is that of the user
\* it has looked up.
LEMMA EntryOfUser ==
  ASSUME SInv, NEW t \in Threads, ServerCall(t), op'[t].fn = "append_transaction"
  PROVE  op'[t].rec.uid = user[t].id /\ op'[t].rec.aid = user[t].aid
<1>1. /\ Waiting(t) /\ ThreadsOK
  BY DEF SInv, TypeInv, TypeOK
<1>2. ASSUME NEW o, Invoke(t, o) PROVE op'[t] = o
  BY <1>1, <1>2 DEF Invoke, Begin, ThreadsOK
<1>3. \A fn, r, n : On(fn, r, n).fn = fn /\ On(fn, r, n).rec = r
  BY DEF On
<1>4. CASE LogTransaction(t)
  <2>1. op'[t].rec = LogEntry(t)
    BY <1>2, <1>3, <1>4 DEF LogTransaction, LastCall
  <2> QED
    BY <2>1 DEF LogEntry
<1>5. CASE FindLogin(t) \/ FindUser(t) \/ FindAccount(t) \/ StoreBalance(t)
           \/ ChangePassword(t) \/ ModifyUser(t) \/ CreateJointUser(t)
           \/ CreateAccount(t) \/ CreateUser(t) \/ Delete(t) \/ Count(t)
           \/ CountTransactions(t)
  BY <1>2, <1>3, <1>5
     DEF FindLogin, FindUser, FindAccount, StoreBalance, ChangePassword,
         ModifyUser, CreateJointUser, CreateAccount, CreateUser, Delete, Count,
         CountTransactions, LastCall
<1>6. CASE Announce(t)
  <2>1. op'[t].fn = Listing(req[t].action) /\ at[t] = "count"
    BY <1>2, <1>3, <1>6 DEF Announce, Returned
  <2>2. req[t].action \in {"GetUsers", "GetAccounts", "ViewDetails"}
    BY <1>1, <2>1 DEF Waiting, Listed
  <2> QED
    BY <2>1, <2>2 DEF Listing
<1> QED
  BY <1>4, <1>5, <1>6 DEF ServerCall

\* A controller's user is the one it had, or the one just looked up.
LEMMA UserOfThread ==
  ASSUME SInv, NEW t \in Threads, ServerCall(t) \/ ServerReply(t)
  PROVE  /\ \A u \in Threads \ {t} : user'[u] = user[u]
         /\ \/ user'[t] = user[t]
            \/ /\ user'[t] = iter[t] /\ pc[t] = "done" /\ ret[t] >= 0
               /\ op[t].fn \in {"get_user_from_id", "get_user_from_uname"}
               /\ ~LogTransaction(t)
<1>1. ServerTypeOK /\ Waiting(t)
  BY DEF SInv
<1>2. CASE Permitted(t)
  <2>1. user' = [user EXCEPT ![t] = iter[t]]
    BY <1>2 DEF Permitted
  <2>2. pc[t] = "done" /\ ret[t] >= 0 /\ op[t].fn = "get_user_from_id" /\ at[t] = "user"
    BY <1>1, <1>2 DEF Permitted, Returned, Waiting
  <2>3. ~LogTransaction(t)
    BY <2>2 DEF LogTransaction, Returned
  <2> QED
    BY <1>1, <2>1, <2>2, <2>3 DEF ServerTypeOK
<1>3. CASE OpenSession(t)
  <2>1. user' = [user EXCEPT ![t] = iter[t]]
    BY <1>3 DEF OpenSession
  <2>2. pc[t] = "done" /\ ret[t] >= 0 /\ op[t].fn = "get_user_from_uname"
        /\ at[t] = "password"
    BY <1>1, <1>3 DEF OpenSession, Returned, Waiting
  <2>3. ~LogTransaction(t)
    BY <2>2 DEF LogTransaction, Returned
  <2> QED
    BY <1>1, <2>1, <2>2, <2>3 DEF ServerTypeOK
<1>4. CASE ~Permitted(t) /\ ~OpenSession(t)
  BY <1>4 DEF ServerCall, ServerReply, FindLogin, FindUser, FindAccount,
     StoreBalance, LogTransaction, ChangePassword, ModifyUser, CreateJointUser,
     CreateAccount, CreateUser, Delete, Count, CountTransactions, Announce,
     Request, Leave, RejectLogin, Logout, Refuse, Finish, AnswerAccount,
     StoreFails, CountFails, SendItems, locals
<1> QED
  BY <1>2, <1>3, <1>4

LEMMA OwnerByStep ==
  ASSUME SInv, IInv, OwnerInv, crashes = 0, NEW t \in Threads, Step(t), UNCHANGED svars
  PROVE  OwnerInv'
<1>1. /\ TypeInv /\ ServerTypeOK /\ FilesOK /\ CallOK(t) /\ ThreadsOK
      /\ \A i \in Nat : \A a : Owned(i, a) => Owned(i, a)'
  BY OwnedByStep DEF SInv, TypeInv, TypeOK
<1>2. \A r \in TransRec : r.uid \in Nat
  BY DEF TransRec
<1>3. ASSUME NEW u \in Threads, op[u].fn = "append_transaction"
      PROVE  op[u].rec \in TransRec
  BY <1>1, <1>3, Tables DEF TypeInv, TypeOK, CallOK, OpOk
<1>4. ASSUME op[t].fn = "append_transaction"
      PROVE  op'[t].rec.uid = op[t].rec.uid /\ op'[t].rec.aid = op[t].rec.aid
  <2>1. CASE NewId(t)
    <3>1. op'[t].rec = [op[t].rec EXCEPT !.id = NextId(Proc(t), OpenFile(t))]
      BY <1>1, <2>1 DEF NewId, WithRec, ThreadsOK
    <3> QED
      BY <1>3, <1>4, <3>1 DEF TransRec
  <2>2. CASE ~NewId(t)
    BY <1>1, <1>4, <2>2, NewIdOnly, StructsAreKept
  <2> QED
    BY <2>1, <2>2
<1>5. ASSUME NEW r \in Range(file'["trans"]) PROVE Owned(r.uid, r.aid)'
  <2>1. "trans" \in Files /\ file["trans"] \in Seq(TransRec)
    BY <1>1, Tables, FileSeq DEF Files
  <2>2. CASE r \in Range(file["trans"])
    <3>1. r \in TransRec
      BY <2>1, <2>2 DEF Range
    <3> QED
      BY <1>1, <1>2, <2>2, <3>1 DEF OwnerInv
  <2>3. CASE r \notin Range(file["trans"])
    <3>1. op[t].fn = "append_transaction"
          /\ file'["trans"] = Append(file["trans"], op[t].rec)
      BY <1>1, <1>5, <2>3, JournalGrows
    <3>2. op[t].rec \in RecOf("trans") /\ op[t].rec.uid \in Nat
      BY <1>2, <1>3, <3>1, Tables
    <3>3. r = op[t].rec
      BY <1>5, <2>1, <2>3, <3>1, <3>2, Tables, AppendRange
    <3> QED
      BY <1>1, <3>1, <3>2, <3>3 DEF OwnerInv
  <2> QED
    BY <2>2, <2>3
<1>6. ASSUME NEW u \in Threads PROVE Owned(user[u].id, user[u].aid)'
  <2>1. Owned(user[u].id, user[u].aid) /\ user[u].id \in Nat
    BY <1>1 DEF OwnerInv, ServerTypeOK, UserRec
  <2>2. user' = user
    BY DEF svars, locals
  <2> DEFINE i == user[u].id
             a == user[u].aid
  <2>3. i \in Nat /\ Owned(i, a)
    BY <2>1
  <2>4. user'[u].id = i /\ user'[u].aid = a
    BY <2>2
  <2> QED
    BY <1>1, <2>1, <2>2 DEF OwnerInv
<1>7. ASSUME NEW u \in Threads, op'[u].fn = "append_transaction"
      PROVE  Owned(op[u].rec.uid, op[u].rec.aid)'
  <2>1. /\ op[u].fn = "append_transaction"
        /\ op'[u].rec.uid = op[u].rec.uid /\ op'[u].rec.aid = op[u].rec.aid
    BY <1>1, <1>4, <1>7, OthersStandStill, StructsAreKept
  <2>2. Owned(op[u].rec.uid, op[u].rec.aid) /\ op[u].rec.uid \in Nat
    BY <1>2, <1>3, <2>1 DEF OwnerInv
  <2> QED
    BY <1>1, <2>1, <2>2
<1> QED
  BY <1>5, <1>6, <1>7 DEF OwnerInv

LEMMA OwnerNext ==
  ASSUME SInv, IInv, OwnerInv, [ServerNext]_allvars PROVE OwnerInv'
<1>1. /\ TypeInv /\ ServerTypeOK /\ ThreadsOK /\ FilesOK /\ crashes \in Nat
      /\ \A t \in Threads : CallOK(t)
  BY DEF SInv, TypeInv, TypeOK
<1>2. SUFFICES ASSUME crashes' = 0 PROVE OwnerInv'
  BY DEF OwnerInv
<1>3. /\ \A r \in Range(file["trans"]) : r.uid \in Nat
      /\ \A t \in Threads : user[t].id \in Nat
      /\ \A t \in Threads : op[t].fn = "append_transaction" => op[t].rec.uid \in Nat
  <2>1. \A r \in TransRec : r.uid \in Nat
    BY DEF TransRec
  <2>2. file["trans"] \in Seq(TransRec)
    BY <1>1, Tables, FileSeq DEF Files
  <2>3. \A t \in Threads : user[t] \in UserRec
    BY <1>1 DEF ServerTypeOK
  <2>4. \A t \in Threads : op[t].fn = "append_transaction" => op[t].rec \in TransRec
    BY <1>1, Tables DEF CallOK, OpOk
  <2>5. \A r \in Range(file["trans"]) : r \in TransRec
    BY <2>2 DEF Range
  <2> QED
    BY <2>1, <2>3, <2>4, <2>5 DEF UserRec
<1>4. ASSUME crashes = 0, UNCHANGED <<file, op, user>>,
             \A i \in Nat : \A a : Owned(i, a) => Owned(i, a)'
      PROVE  OwnerInv'
  <2>1. \A r \in Range(file["trans"]) : Owned(r.uid, r.aid)'
    BY <1>3, <1>4 DEF OwnerInv
  <2>2. \A t \in Threads : Owned(user[t].id, user[t].aid)'
    BY <1>3, <1>4 DEF OwnerInv
  <2>3. \A t \in Threads : op[t].fn = "append_transaction" =>
          Owned(op[t].rec.uid, op[t].rec.aid)'
    BY <1>3, <1>4 DEF OwnerInv
  <2> QED
    BY <1>4, <2>1, <2>2, <2>3 DEF OwnerInv
<1>5. ASSUME UNCHANGED vars, NEW i, NEW a, Owned(i, a) PROVE Owned(i, a)'
  BY <1>5, OwnedKept DEF vars, disk, local, Known, UserCopies, Appending, OpenFile
<1>6. ASSUME NEW t \in Threads, ServerCall(t) PROVE OwnerInv'
  <2>1. PICK o : OpOk(o) /\ Invoke(t, o)
    BY <1>6, ServerCalls DEF Calls
  <2>2. /\ \A u \in Threads \ {t} : op'[u] = op[u]
        /\ file' = file /\ crashes = 0
    BY <1>2, <2>1, CallBegins
  <2>3. ASSUME NEW i, NEW a, Owned(i, a) PROVE Owned(i, a)'
    BY <1>6, <2>3, OwnedByCall
  <2>4. \A r \in Range(file["trans"]) : Owned(r.uid, r.aid)'
    BY <2>2, <2>3 DEF OwnerInv
  <2>5. ASSUME NEW u \in Threads PROVE Owned(user[u].id, user[u].aid)'
    <3>1. Owned(user'[u].id, user'[u].aid)
      BY <1>6, <2>2, UserOfThread, FoundIsOwned DEF OwnerInv
    <3> QED
      BY <2>3, <3>1
  <2>6. ASSUME NEW u \in Threads, op'[u].fn = "append_transaction"
        PROVE  Owned(op[u].rec.uid, op[u].rec.aid)'
    <3>1. Owned(op'[u].rec.uid, op'[u].rec.aid)
      <4>1. CASE u = t
        BY <1>6, <2>2, <2>6, <4>1, EntryOfUser DEF OwnerInv
      <4>2. CASE u # t
        BY <2>2, <2>6, <4>2 DEF OwnerInv
      <4> QED
        BY <4>1, <4>2
    <3> QED
      BY <2>3, <3>1
  <2> QED
    BY <2>2, <2>4, <2>5, <2>6 DEF OwnerInv
<1>7. ASSUME NEW t \in Threads, ServerReply(t) PROVE OwnerInv'
  <2>1. UNCHANGED vars
    BY <1>7, ReplyKeepsServer
  <2>2. file' = file /\ op' = op /\ crashes = 0
    BY <1>2, <2>1 DEF vars, disk, local, bounds
  <2>3. ASSUME NEW i, NEW a, Owned(i, a) PROVE Owned(i, a)'
    BY <1>5, <2>1, <2>3
  <2>4. \A r \in Range(file["trans"]) : Owned(r.uid, r.aid)'
    BY <2>2, <2>3 DEF OwnerInv
  <2>5. ASSUME NEW u \in Threads PROVE Owned(user[u].id, user[u].aid)'
    <3>1. Owned(user'[u].id, user'[u].aid)
      BY <1>7, <2>2, UserOfThread, FoundIsOwned DEF OwnerInv
    <3> QED
      BY <2>3, <3>1
  <2>6. ASSUME NEW u \in Threads, op'[u].fn = "append_transaction"
        PROVE  Owned(op[u].rec.uid, op[u].rec.aid)'
    <3>1. Owned(op'[u].rec.uid, op'[u].rec.aid)
      BY <2>2, <2>6 DEF OwnerInv
    <3> QED
      BY <2>3, <3>1
  <2> QED
    BY <2>2, <2>4, <2>5, <2>6 DEF OwnerInv
<1>8. ASSUME NEW t \in Threads, Step(t), UNCHANGED svars PROVE OwnerInv'
  <2>1. crashes' = crashes
    BY <1>8 DEF Step, BeginScan, ReadHit, ReadMiss, ReadInto, ReadEOF, EndScan,
           LockRecord, Overwrite, OverwriteFails, LockTail, ShiftRead, ShiftWrite,
           ShiftWriteFails, ShiftEOF, SeekLast, Truncate, EndWrite, NewId,
           OpenForAppend, LockEnd, AppendRecord, AppendFails, UnlockEnd,
           SeekSize, Close, OpenFails, bounds
  <2> QED
    BY <1>2, <1>8, <2>1, OwnerByStep
<1>9. ASSUME NEW p \in Procs, Stop(p) PROVE FALSE
  BY <1>1, <1>2, <1>9 DEF Stop, Crash
<1>10. ASSUME NEW p \in Procs, Start(p) PROVE OwnerInv'
  <2>1. InitCounter(p) /\ UNCHANGED <<file, op, user>> /\ crashes = 0
    BY <1>2, <1>10 DEF Start, InitCounter, local, bounds, svars, locals
  <2>2. \A i \in Nat : \A a : Owned(i, a) => Owned(i, a)'
    BY <2>1, OwnedByStart
  <2> QED
    BY <1>4, <2>1, <2>2
<1>11. ASSUME UNCHANGED allvars PROVE OwnerInv'
  <2>1. UNCHANGED vars /\ UNCHANGED <<file, op, user>> /\ crashes = 0
    BY <1>2, <1>11 DEF allvars, vars, disk, local, bounds, svars, locals
  <2> QED
    BY <1>4, <1>5, <2>1
<1> QED
  BY <1>6, <1>7, <1>8, <1>9, <1>10, <1>11, ServerSteps

LEMMA InitOwners ==
  ASSUME SingleProcess, KnownOwners, ServerInit PROVE OwnerInv
<1>1. SInv /\ IInv /\ Init
  BY ServerInitTypes, InitIds DEF ServerInit
<1>2. /\ file \in InitFiles /\ \A t \in Threads : ~Appending(t) /\ iter[t] = NoRec
      /\ \A t \in Threads : ~Booted(Proc(t), "user") /\ op[t].fn # "append_transaction"
  <2>1. \A t \in Threads : Proc(t) \in Procs
    BY Located
  <2>2. \A t \in Threads : ~Booted(Proc(t), "user")
    BY <1>1, <2>1 DEF Init, Booted
  <2> QED
    BY <1>1, <2>2 DEF Init, NoOp, Appending
<1>3. Known = Range(file["user"]) \cup {ZeroRec("user")} /\ Consistent(Known)
  BY <1>1, <1>2 DEF Known, UserCopies, IInv, IdInv
<1>4. ASSUME NEW r \in Range(file["trans"]) PROVE Owned(r.uid, r.aid)
  <2>1. /\ r.uid # 0
        /\ \A u \in Range(file["user"]) : u.id = r.uid => u.aid = r.aid
        /\ \E u \in Range(file["user"]) : r.uid <= u.id
    BY <1>2, <1>4 DEF KnownOwners
  <2> QED
    BY <1>2, <1>3, <2>1 DEF Owned, ZeroRec
<1>5. ASSUME NEW t \in Threads PROVE Owned(user[t].id, user[t].aid)
  <2>1. user[t] = ZeroRec("user") /\ ZeroRec("user").id = 0
    BY DEF ServerInit, ZeroRec
  <2> QED
    BY <1>2, <1>3, <2>1 DEF Owned, Consistent
<1> QED
  BY <1>2, <1>4, <1>5 DEF OwnerInv

\* Until a restart gives ids out again, the journal never charges a
\* transaction to an account that is not that of the user who made it,
\* whatever users come and go meanwhile.
THEOREM EntriesNameTheirOwner ==
  SingleProcess /\ KnownOwners /\ ServerSpec => [](crashes = 0 => JournalNamesOwner)
<1> DEFINE Inv == SInv /\ IInv /\ OwnerInv
<1>1. SingleProcess /\ KnownOwners /\ ServerInit => Inv
  BY ServerInitTypes, InitIds, InitOwners DEF ServerInit
<1>2. Inv /\ [ServerNext]_allvars => Inv'
  BY ServerNextTypes, ServerNextIds, OwnerNext
<1>3. Inv => (crashes = 0 => JournalNamesOwner)
  BY DEF OwnerInv, Owned, JournalNamesOwner, Known
<1> HIDE DEF Inv
<1> QED
  BY <1>1, <1>2, <1>3, PTL DEF ServerSpec

(***************************************************************************)
(* Lists.  A count is announced, then that many items are read and sent,   *)
(* while other threads append.                                             *)
(***************************************************************************)

\* How much there is to list for a call.
Available(t) == IF op[t].fn \in TransFns THEN Len(History(op[t].rec.aid))
                ELSE Len(Contents(t))

\* A count is never more than there is.
Counted(t) ==
  op[t].fn \in Counts =>
    /\ pc[t] \in {"idle", "size", "close", "done"}
    /\ NoDeleteRequests /\ pc[t] \in {"close", "done"} => ret[t] <= Len(Contents(t))

ListRead(t) == pc[t] \in {"unlock", "close"} \/ (pc[t] = "done" /\ ret[t] >= 0)

\* As many items are asked for as were announced, no more than there are; and
\* when the list has been read they are there.
Announced(t) ==
  /\ at[t] \in {"count", "list"} /\ req[t].action = "ViewDetails" =>
       op[t].rec.aid = user[t].aid
  /\ at[t] = "list" =>
       /\ resp[t] = [stat |-> "Success", num |-> op[t].limit, items |-> <<>>]
       /\ op[t].fn \in TransFns \/ NoDeleteRequests =>
            /\ op[t].limit <= Available(t)
            /\ ListRead(t) => op[t].limit <= Len(out[t])

\* What has been sent is full, and an account's history as it was.
Sent(t) ==
  /\ NoDeleteRequests => NoRec \notin Range(resp[t].items)
  /\ Answered(t, "ViewDetails") =>
       /\ resp[t].items \in Seq(TransRec)
       /\ Len(resp[t].items) = resp[t].num
       /\ Starts(resp[t].items, History(user[t].aid))

ListInv ==
  /\ NoDeleteRequests => GrowInv
  /\ \A t \in Threads : Gathered(t) /\ Counted(t) /\ Announced(t) /\ Sent(t)

\* The history of an account in a journal.
Whole(s, a) == HistoryIn(s, a)[Len(s)]

LEMMA WholeSeq ==
  ASSUME NEW s \in Seq(TransRec), NEW a
  PROVE  Whole(s, a) \in Seq(TransRec) /\ Len(Whole(s, a)) \in Nat
<1>1. Len(s) \in 0 .. Len(s)
  OBVIOUS
<1>2. Whole(s, a) \in Seq(TransRec)
  BY <1>1, HistoryType DEF Whole
<1> QED
  BY <1>2

LEMMA StartsAfter ==
  ASSUME NEW R, NEW x \in Seq(R), NEW y \in Seq(R), NEW z \in Seq(R),
         Starts(x, y), Starts(y, z)
  PROVE  Starts(x, z)
<1>1. /\ Len(x) <= Len(y) /\ \A i \in 1 .. Len(x) : x[i] = y[i]
      /\ Len(y) <= Len(z) /\ \A i \in 1 .. Len(y) : y[i] = z[i]
  BY StartsByPlace
<1>2. Len(x) <= Len(z) /\ \A i \in 1 .. Len(x) : x[i] = z[i]
  BY <1>1
<1> QED
  BY <1>2, StartsByPlace

\* Every history only grows, and without deletions every file does.
LEMMA HistoryGrows ==
  ASSUME SInv, [ServerNext]_allvars, NEW a
  PROVE  /\ Whole(file["trans"], a) \in Seq(TransRec)
         /\ Whole(file'["trans"], a) \in Seq(TransRec)
         /\ Starts(Whole(file["trans"], a), Whole(file'["trans"], a))
<1>1. TypeInv /\ TypeInv'
  BY ServerNextTypes DEF SInv
<1>2. file["trans"] \in Seq(TransRec) /\ file'["trans"] \in Seq(TransRec)
  BY <1>1, Tables DEF TypeInv, TypeOK, FilesOK, Files
<1>3. /\ Whole(file["trans"], a) \in Seq(TransRec)
      /\ Whole(file'["trans"], a) \in Seq(TransRec)
  BY <1>2, WholeSeq
<1>4. ASSUME NEW r \in TransRec, file'["trans"] = Append(file["trans"], r)
      PROVE  Starts(Whole(file["trans"], a), Whole(file'["trans"], a))
  <2> DEFINE s == file["trans"]
             n == Len(s)
             q == Append(s, r)
  <2>1. /\ q \in Seq(TransRec) /\ Len(q) = n + 1 /\ n \in 0 .. Len(q)
        /\ n + 1 \in n .. Len(q) /\ n \in 0 .. n
    BY <1>2
  <2>2. Starts(HistoryIn(q, a)[n], HistoryIn(q, a)[n + 1])
    BY <2>1, HistoryStarts
  <2>3. HistoryIn(q, a)[n] = HistoryIn(s, a)[n]
    BY <1>2, <2>1, HistoryAppend
  <2>4. Whole(s, a) = HistoryIn(s, a)[n] /\ Whole(q, a) = HistoryIn(q, a)[n + 1]
    BY <2>1 DEF Whole
  <2> QED
    BY <1>4, <2>2, <2>3, <2>4
<1>5. ASSUME NEW t \in Threads, Step(t)
      PROVE  \/ file'["trans"] = file["trans"]
             \/ \E r \in TransRec : file'["trans"] = Append(file["trans"], r)
  <2>1. op[t].fn = "append_transaction" => op[t].rec \in TransRec
    BY <1>1, Tables DEF TypeInv, TypeOK, CallOK, OpOk
  <2> QED
    BY <1>1, <1>5, <2>1, JournalGrows
<1>6. \/ file'["trans"] = file["trans"]
      \/ \E r \in TransRec : file'["trans"] = Append(file["trans"], r)
  <2>1. ASSUME NEW t \in Threads, ServerCall(t) PROVE UNCHANGED file
    BY <2>1, ServerCalls DEF Calls, Invoke, disk
  <2>2. ASSUME NEW t \in Threads, ServerReply(t) PROVE UNCHANGED file
    BY <2>2, ReplyKeepsServer DEF vars, disk
  <2>3. ASSUME NEW p \in Procs, Start(p) \/ Stop(p) PROVE UNCHANGED file
    BY <2>3 DEF Start, Stop, InitCounter, Crash
  <2>4. ASSUME UNCHANGED allvars PROVE UNCHANGED file
    BY <2>4 DEF allvars, vars, disk
  <2> QED
    BY <1>5, <2>1, <2>2, <2>3, <2>4, ServerSteps
<1>7. Starts(Whole(file["trans"], a), Whole(file'["trans"], a))
  BY <1>3, <1>4, <1>6, StartsByPlace
<1> QED
  BY <1>3, <1>7

LEMMA FilesGrow ==
  ASSUME SInv, GrowInv, [ServerNext]_allvars, NEW f \in Files
  PROVE  Len(file[f]) \in Nat /\ Len(file'[f]) \in Nat /\ Len(file[f]) <= Len(file'[f])
<1>1. Stays /\ TypeInv /\ TypeInv'
  BY ServerStays, ServerNextTypes DEF SInv
<1>2. Len(file[f]) \in Nat /\ Len(file'[f]) \in Nat
  BY <1>1, FileSeq
<1>3. Len(file[f]) > 0 => Len(file[f]) \in 1 .. Len(file'[f])
  BY <1>1, <1>2 DEF Stays
<1> QED
  BY <1>2, <1>3

\* What stays true of a thread because nothing it looks at is taken away.
LEMMA SentKept ==
  ASSUME SInv, [ServerNext]_allvars, NEW t \in Threads, Sent(t),
         at'[t] = at[t], req'[t] = req[t], user'[t] = user[t], resp'[t] = resp[t]
  PROVE  Sent(t)'
<1>1. SInv'
  BY ServerNextTypes
<1>2. ASSUME Answered(t, "ViewDetails")
      PROVE  Starts(resp[t].items, Whole(file'["trans"], user[t].aid))
  <2>1. /\ resp[t].items \in Seq(TransRec)
        /\ Starts(resp[t].items, Whole(file["trans"], user[t].aid))
    BY <1>2 DEF Sent, History, Whole
  <2> QED
    BY <2>1, HistoryGrows, StartsAfter
<1> QED
  BY <1>2 DEF Sent, Answered, History, Whole

LEMMA AvailableGrows ==
  ASSUME SInv, ListInv, [ServerNext]_allvars, NEW t \in Threads,
         op'[t] = op[t], stage'[t] = stage[t]
  PROVE  /\ Available(t) \in Nat /\ Available(t)' \in Nat
         /\ op[t].fn \in TransFns \/ NoDeleteRequests => Available(t) <= Available(t)'
         /\ NoDeleteRequests => Len(Contents(t)) <= Len(Contents(t)')
         /\ Len(Contents(t)) \in Nat /\ Len(Contents(t)') \in Nat
<1>1. SInv' /\ TypeInv /\ TypeInv'
  BY ServerNextTypes DEF SInv
<1>2. OpenFile(t)' = OpenFile(t) /\ OpenFile(t) \in Files
  BY <1>1, Located DEF OpenFile, TypeInv
<1>3. Contents(t) = file[OpenFile(t)] /\ Contents(t)' = file'[OpenFile(t)]
  BY <1>2 DEF Contents
<1>4. Len(Contents(t)) \in Nat /\ Len(Contents(t)') \in Nat
  BY <1>1, <1>2, <1>3, FileSeq
<1>5. NoDeleteRequests => Len(Contents(t)) <= Len(Contents(t)')
  BY <1>2, <1>3, FilesGrow DEF ListInv
<1> DEFINE now   == Whole(file["trans"], op[t].rec.aid)
           later == Whole(file'["trans"], op[t].rec.aid)
<1>6. Len(now) \in Nat /\ Len(later) \in Nat /\ Len(now) <= Len(later)
  BY HistoryGrows DEF Starts
<1>7. /\ Available(t) = IF op[t].fn \in TransFns THEN Len(now) ELSE Len(Contents(t))
      /\ Available(t)' = IF op[t].fn \in TransFns THEN Len(later) ELSE Len(Contents(t)')
  BY DEF Available, History, Whole
<1> HIDE DEF now, later
<1> QED
  BY <1>4, <1>5, <1>6, <1>7

\* A thread that does nothing is not disturbed by the others.
LEMMA ListsUntouched ==
  ASSUME SInv, ListInv, [ServerNext]_allvars, NEW t \in Threads,
         pc'[t] = pc[t], op'[t] = op[t], stage'[t] = stage[t], out'[t] = out[t],
         ret'[t] = ret[t], at'[t] = at[t], req'[t] = req[t], user'[t] = user[t],
         resp'[t] = resp[t]
  PROVE  Counted(t)' /\ Announced(t)' /\ Sent(t)'
<1>1. Counted(t) /\ Announced(t) /\ Sent(t)
  BY DEF ListInv
<1>2. ServerTypeOK /\ CallOK(t) /\ ThreadsOK /\ ret[t] \in Int /\ op[t].limit \in Nat
  BY DEF SInv, TypeInv, TypeOK, ThreadsOK, CallOK, OpOk
<1>3. Counted(t)'
  BY <1>1, <1>2, AvailableGrows DEF Counted
<1>4. Announced(t)'
  BY <1>1, <1>2, AvailableGrows DEF Announced, ListRead
<1> QED
  BY <1>1, <1>3, <1>4, SentKept

LEMMA ServerGathers ==
  SInv /\ (\A t \in Threads : Gathered(t)) /\ [ServerNext]_allvars =>
    \A t \in Threads : Gathered(t)'
<1> SUFFICES ASSUME SInv, \A t \in Threads : Gathered(t), [ServerNext]_allvars
             PROVE  \A t \in Threads : Gathered(t)'
  OBVIOUS
<1>1. TypeInv
  BY DEF SInv
<1>2. ASSUME NEW t \in Threads, ServerCall(t) PROVE \A u \in Threads : Gathered(u)'
  <2>1. PICK o : OpOk(o) /\ Invoke(t, o)
    BY <1>2, ServerCalls DEF Calls
  <2> QED
    BY <1>1, <2>1, GatheredByCall
<1>3. ASSUME NEW t \in Threads, ServerReply(t) PROVE \A u \in Threads : Gathered(u)'
  BY <1>3, ReplyKeepsServer, GatheredQuiet DEF vars, disk, local
<1>4. ASSUME NEW t \in Threads, Step(t) PROVE \A u \in Threads : Gathered(u)'
  BY <1>1, <1>4, GatheredByStep, GatheredOthers
<1>5. ASSUME NEW p \in Procs, Start(p) PROVE \A u \in Threads : Gathered(u)'
  BY <1>5, GatheredQuiet DEF Start, InitCounter, local
<1>6. ASSUME NEW p \in Procs, Stop(p) PROVE \A u \in Threads : Gathered(u)'
  BY <1>1, <1>6, GatheredByCrash DEF Stop
<1>7. ASSUME UNCHANGED allvars PROVE \A u \in Threads : Gathered(u)'
  BY <1>7, GatheredQuiet DEF allvars, vars, disk, local
<1> QED
  BY <1>2, <1>3, <1>4, <1>5, <1>6, <1>7, ServerSteps

\* The steps of the database that count and list.
LEMMA CountedByStep ==
  ASSUME SInv, ListInv, [ServerNext]_allvars, NEW t \in Threads, Step(t)
  PROVE  Counted(t)'
<1>1. ThreadsOK /\ Counted(t) /\ op'[t].fn = op[t].fn
  BY StructsAreKept DEF SInv, TypeInv, TypeOK, ListInv
<1>2. CASE op[t].fn \notin Counts
  BY <1>1, <1>2 DEF Counted
<1>3. CASE op[t].fn \in Counts
  <2>1. SeekSize(t) \/ Close(t) \/ OpenFails(t)
    BY <1>1, <1>3
       DEF Counted, Step, Goto, BeginScan, ReadHit, ReadMiss, ReadInto, ReadEOF,
           EndScan, LockRecord, Overwrite, OverwriteFails, LockTail, ShiftRead,
           ShiftWrite, ShiftWriteFails, ShiftEOF, SeekLast, Truncate, EndWrite,
           NewId, OpenForAppend, LockEnd, AppendRecord, AppendFails, UnlockEnd
  <2>2. /\ op'[t] = op[t] /\ stage'[t] = stage[t]
        /\ pc'[t] \in {"close", "done"} /\ file' = file
    BY <1>1, <1>3, <2>1
       DEF SeekSize, Close, OpenFails, Goto, NextStage, HasNext, Counts, ThreadsOK, disk
  <2>3. Contents(t)' = Contents(t)
    BY <2>2 DEF Contents, OpenFile
  <2>4. Len(Contents(t)) \in Nat
    BY FileSeq DEF SInv
  <2>5. NoDeleteRequests => ret'[t] <= Len(Contents(t))
    <3>1. CASE SeekSize(t)
      BY <1>1, <2>4, <3>1 DEF SeekSize, ThreadsOK
    <3>2. CASE Close(t)
      BY <1>1, <1>3, <3>2 DEF Close, Goto, Counted
    <3>3. CASE OpenFails(t)
      BY <1>1, <1>3, <2>4, <3>3 DEF OpenFails, ThreadsOK, Counts, EFAIL
    <3> QED
      BY <2>1, <3>1, <3>2, <3>3
  <2> QED
    BY <1>3, <2>2, <2>3, <2>5 DEF Counted
<1> QED
  BY <1>2, <1>3

\* What a bulk getter has when it is done with its scan.
LEMMA ListIsRead ==
  ASSUME TypeInv, NEW t \in Threads, Step(t), Gathered(t),
         op[t].fn \in {"get_users", "get_accounts", "get_transactions"},
         op[t].limit <= Available(t),
         ListRead(t) => op[t].limit <= Len(out[t]),
         ListRead(t)'
  PROVE  op[t].limit <= Len(out'[t])
<1>1. /\ ThreadsOK /\ op[t].fn \in Bulk /\ op[t].fn # "get_num_transactions"
      /\ op[t].limit \in Nat /\ Len(Contents(t)) \in Nat
  BY FileSeq DEF TypeInv, TypeOK, CallOK, OpOk, Bulk
<1>2. GatherStep(t)
  BY <1>1, StepsOfBulk
<1>3. CASE ReadInto(t)
  <2>1. pc'[t] = "unlock"
    BY <1>1, <1>3 DEF ReadInto, ListRead, ThreadsOK
  <2> QED
    BY <1>1, <1>3, <2>1 DEF ReadInto, ThreadsOK
<1>4. CASE ReadEOF(t)
  <2>1. out' = out /\ pc[t] = "scan" /\ cur[t] \in Nat /\ cur[t] >= Len(Contents(t))
    BY <1>1, <1>4 DEF ReadEOF, Goto, local, Gathered
  <2>2. CASE op[t].fn \in TransFns
    <3>1. Contents(t) = file["trans"]
      BY <1>1, <2>2 DEF Contents, OpenFile, FileAt, TableOf, Bulk, TransFns, UserFns
    <3>2. cur[t] = Len(file["trans"])
      BY <1>1, <2>1, <2>2, <3>1 DEF Gathered
    <3> QED
      BY <1>1, <2>1, <2>2, <3>2 DEF Gathered, Available, History
  <2>3. CASE op[t].fn \notin TransFns
    BY <1>1, <2>1, <2>3 DEF Gathered, Available
  <2> QED
    BY <2>2, <2>3
<1>5. CASE BeginScan(t)
  BY <1>1, <1>5 DEF BeginScan, Goto, ListRead, ThreadsOK
<1>6. CASE OpenFails(t)
  BY <1>1, <1>6 DEF OpenFails, ListRead, ThreadsOK, Bulk, EFAIL
<1>7. CASE EndScan(t)
  BY <1>7 DEF EndScan, Goto, ListRead
<1>8. CASE Close(t)
  BY <1>8 DEF Close, Goto, ListRead
<1> QED
  BY <1>2, <1>3, <1>4, <1>5, <1>6, <1>7, <1>8 DEF GatherStep

LEMMA AnnouncedByStep ==
  ASSUME SInv, ListInv, [ServerNext]_allvars, NEW t \in Threads, Step(t),
         UNCHANGED svars
  PROVE  Announced(t)'
<1>1. /\ ThreadsOK /\ Announced(t) /\ Gathered(t) /\ Waiting(t) /\ TypeInv
      /\ op'[t].fn = op[t].fn
      /\ pc[t] # "newid" /\ op[t].fn # "update_user" => op'[t] = op[t]
  BY StructsAreKept DEF SInv, TypeInv, TypeOK, ListInv
<1>2. at' = at /\ req' = req /\ user' = user /\ resp' = resp
  BY DEF svars, locals
<1>3. CASE at[t] \notin {"count", "list"}
  BY <1>2, <1>3 DEF Announced
<1>4. ASSUME at[t] \in {"count", "list"}
      PROVE  /\ op[t].fn \in {"get_num_users", "get_num_accounts",
                   "get_num_transactions", "get_users", "get_accounts",
                   "get_transactions"}
             /\ op'[t] = op[t]
             /\ at[t] = "list" =>
                  op[t].fn \in {"get_users", "get_accounts", "get_transactions"}
  <2>1. /\ op[t].fn \in {"get_num_users", "get_num_accounts",
                   "get_num_transactions", "get_users", "get_accounts",
                   "get_transactions"}
        /\ at[t] = "list" =>
             op[t].fn \in {"get_users", "get_accounts", "get_transactions"}
    BY <1>1, <1>4 DEF Waiting, Listed, Listing
  <2>2. pc[t] # "newid"
    BY <1>1, <2>1 DEF TypeInv, Control, AppendPCs, Creates
  <2> QED
    BY <1>1, <2>1, <2>2
<1>5. CASE at[t] = "count"
  BY <1>1, <1>2, <1>4, <1>5 DEF Announced
<1>6. CASE at[t] = "list"
  <2>1. /\ op'[t] = op[t] /\ op[t].fn \in {"get_users", "get_accounts", "get_transactions"}
        /\ op[t].limit \in Nat
    BY <1>1, <1>4, <1>6 DEF TypeInv, TypeOK, CallOK, OpOk
  <2>2. stage'[t] = stage[t]
    <3>1. GatherStep(t)
      BY <1>1, <2>1, StepsOfBulk DEF Bulk
    <3> QED
      BY <1>1, <2>1, <3>1
         DEF GatherStep, BeginScan, ReadInto, ReadEOF, EndScan, Close, OpenFails,
             NextStage, HasNext, ThreadsOK, local
  <2>3. op[t].fn \in TransFns \/ NoDeleteRequests =>
          /\ op[t].limit <= Available(t)
          /\ op[t].limit <= Available(t)'
          /\ ListRead(t)' => op[t].limit <= Len(out'[t])
    <3>1. op[t].fn \in TransFns \/ NoDeleteRequests =>
            /\ op[t].limit <= Available(t)
            /\ ListRead(t) => op[t].limit <= Len(out[t])
      BY <1>1, <1>6 DEF Announced
    <3> QED
      BY <1>1, <2>1, <2>2, <3>1, AvailableGrows, ListIsRead
  <2> QED
    BY <1>1, <1>2, <1>6, <2>1, <2>3 DEF Announced
<1> QED
  BY <1>3, <1>5, <1>6

LEMMA ListStep ==
  ASSUME SInv, ListInv, [ServerNext]_allvars, NEW t \in Threads, Step(t),
         UNCHANGED svars, NEW u \in Threads
  PROVE  Counted(u)' /\ Announced(u)' /\ Sent(u)'
<1>1. at' = at /\ req' = req /\ user' = user /\ resp' = resp /\ ThreadsOK
  BY DEF svars, locals, SInv, TypeInv, TypeOK
<1>2. CASE u = t
  <2>1. Sent(t)'
    BY <1>1, SentKept DEF ListInv
  <2> QED
    BY <1>2, <2>1, CountedByStep, AnnouncedByStep
<1>3. CASE u # t
  <2>1. /\ pc'[u] = pc[u] /\ op'[u] = op[u] /\ stage'[u] = stage[u] /\ ret'[u] = ret[u]
    BY <1>3, OthersStandStill DEF SInv
  <2>2. out'[u] = out[u]
    BY <1>1, <1>3
       DEF ThreadsOK, Step, BeginScan, ReadHit, ReadMiss, ReadInto, ReadEOF, EndScan,
         LockRecord, Overwrite, OverwriteFails, LockTail, ShiftRead, ShiftWrite,
         ShiftWriteFails, ShiftEOF, SeekLast, Truncate, EndWrite, NewId,
         OpenForAppend, LockEnd, AppendRecord, AppendFails, UnlockEnd, SeekSize,
         Close, OpenFails, local
  <2> QED
    BY <1>1, <2>1, <2>2, ListsUntouched
<1> QED
  BY <1>2, <1>3

\* Calling: of all the controllers only these three count or list.
LEMMA AnnouncedByCall ==
  ASSUME SInv, ListInv, NEW t \in Threads, ServerCall(t)
  PROVE  Announced(t)'
<1> USE DEF clients, locals, Await, LastCall
<1>1. /\ ServerTypeOK /\ Waiting(t) /\ ThreadsOK /\ TypeInv /\ ret[t] \in Int
      /\ Gathered(t) /\ Counted(t) /\ Announced(t)
  BY DEF SInv, TypeInv, TypeOK, ThreadsOK, ListInv
<1>2. ASSUME NEW o, Invoke(t, o)
      PROVE  /\ op'[t] = o /\ pc'[t] = FirstCall(o.fn) /\ stage'[t] = FirstStage(o.fn)
             /\ file' = file
  BY <1>1, <1>2 DEF Invoke, Begin, ThreadsOK, disk
<1>3. \A fn, r, n : On(fn, r, n).fn = fn /\ On(fn, r, n).rec = r /\ On(fn, r, n).limit = n
  BY DEF On
<1>4. CASE ~(Count(t) \/ CountTransactions(t) \/ Announce(t))
  <2>1. at'[t] \notin {"count", "list"}
    BY <1>1, <1>4
       DEF ServerTypeOK, ServerCall, FindLogin, FindUser, FindAccount, StoreBalance,
           LogTransaction, ChangePassword, ModifyUser, CreateJointUser,
           CreateAccount, CreateUser, Delete
  <2> QED
    BY <2>1 DEF Announced
<1>5. CASE Count(t)
  <2>1. at'[t] = "count" /\ req'[t] = req[t] /\ req[t].action # "ViewDetails"
    BY <1>1, <1>5 DEF Count, Permitted, ServerTypeOK
  <2> QED
    BY <2>1 DEF Announced
<1>6. CASE CountTransactions(t)
  <2>1. /\ at'[t] = "count" /\ user'[t] = user[t]
        /\ op'[t].rec = [ZeroRec("trans") EXCEPT !.aid = user[t].aid]
    BY <1>1, <1>2, <1>3, <1>6 DEF CountTransactions, ServerTypeOK
  <2>2. op'[t].rec.aid = user[t].aid
    BY <2>1 DEF ZeroRec
  <2> QED
    BY <2>1, <2>2 DEF Announced
<1>7. CASE Announce(t)
  <2>1. /\ at[t] = "count" /\ at'[t] = "list" /\ user'[t] = user[t] /\ req'[t] = req[t]
        /\ pc[t] = "done" /\ ret[t] >= 0
        /\ resp' = [resp EXCEPT ![t] = [Respond("Success") EXCEPT !.num = ret[t]]]
        /\ Invoke(t, On(Listing(req[t].action), op[t].rec, ret[t]))
    BY <1>1, <1>7 DEF Announce, Returned, ServerTypeOK
  <2>2. /\ op'[t].fn = Listing(req[t].action) /\ op'[t].rec = op[t].rec
        /\ op'[t].limit = ret[t]
        /\ pc'[t] = FirstCall(op'[t].fn) /\ stage'[t] = FirstStage(op'[t].fn)
        /\ file' = file
    BY <1>2, <1>3, <2>1
  <2>3. resp'[t] = [stat |-> "Success", num |-> op'[t].limit, items |-> <<>>]
    <3>1. [Respond("Success") EXCEPT !.num = ret[t]]
            = [stat |-> "Success", num |-> ret[t], items |-> <<>>]
      BY DEF Respond
    <3> QED
      BY <1>1, <2>1, <2>2, <3>1 DEF ServerTypeOK
  <2>4. <<req[t].action, op[t].fn>> \in Listed
    BY <1>1, <2>1 DEF Waiting
  <2>5. /\ op'[t].fn \in {"get_users", "get_accounts", "get_transactions"}
        /\ pc'[t] = "lock" /\ stage'[t] = 1
        /\ op'[t].fn = "get_users" => op[t].fn = "get_num_users"
        /\ op'[t].fn = "get_accounts" => op[t].fn = "get_num_accounts"
        /\ op'[t].fn = "get_transactions" => op[t].fn = "get_num_transactions"
    <3>1. /\ op'[t].fn \in {"get_users", "get_accounts", "get_transactions"}
          /\ op'[t].fn = "get_users" => op[t].fn = "get_num_users"
          /\ op'[t].fn = "get_accounts" => op[t].fn = "get_num_accounts"
          /\ op'[t].fn = "get_transactions" => op[t].fn = "get_num_transactions"
      BY <2>2, <2>4 DEF Listed, Listing
    <3>2. FirstCall(op'[t].fn) = "lock" /\ FirstStage(op'[t].fn) = 1
      BY <3>1 DEF FirstCall, FirstStage, Creates, Counts
    <3> QED
      BY <2>2, <3>1, <3>2
  <2>6. ~ListRead(t)'
    BY <2>5 DEF ListRead
  <2>7. op'[t].fn \in TransFns \/ NoDeleteRequests => op'[t].limit <= Available(t)'
    <3>1. CASE op[t].fn = "get_num_transactions"
      <4>1. op'[t].fn \in TransFns /\ op[t].fn \in Bulk \cap TransFns
        BY <2>5, <3>1 DEF TransFns, Bulk
      <4>2. ret[t] = Len(out[t])
        BY <1>1, <2>1, <4>1 DEF Gathered, EFAIL
      <4>3. Len(out[t]) <= Len(History(op[t].rec.aid))
        BY <1>1, <4>1, GatheredIsHistory DEF Starts
      <4>4. Available(t)' = Len(History(op[t].rec.aid))
        BY <2>2, <4>1 DEF Available, History
      <4> QED
        BY <2>2, <4>2, <4>3, <4>4
    <3>2. CASE op[t].fn \in Counts
      <4>1. op'[t].fn \notin TransFns
        BY <2>5, <3>2 DEF Counts, TransFns
      <4>2. NoDeleteRequests => ret[t] <= Len(Contents(t))
        BY <1>1, <2>1, <3>2 DEF Counted
      <4>3. OpenFile(t)' = OpenFile(t)
        BY <2>5, <3>2 DEF OpenFile, FileAt, TableOf, Counts, UserFns, TransFns
      <4>4. Available(t)' = Len(Contents(t))
        BY <2>2, <4>1, <4>3 DEF Available, Contents
      <4> QED
        BY <2>2, <4>1, <4>2, <4>4
    <3> QED
      BY <2>5, <3>1, <3>2 DEF Counts
  <2>8. req[t].action = "ViewDetails" => op'[t].rec.aid = user[t].aid
    BY <1>1, <2>1, <2>2 DEF Announced
  <2> QED
    BY <2>1, <2>3, <2>6, <2>7, <2>8 DEF Announced
<1> QED
  BY <1>4, <1>5, <1>6, <1>7

LEMMA ListCall ==
  ASSUME SInv, ListInv, [ServerNext]_allvars, NEW t \in Threads, ServerCall(t),
         NEW u \in Threads
  PROVE  Counted(u)' /\ Announced(u)' /\ Sent(u)'
<1>1. ThreadsOK /\ ServerTypeOK
  BY DEF SInv, TypeInv, TypeOK
<1>2. PICK o : OpOk(o) /\ Invoke(t, o)
  BY ServerCalls DEF Calls
<1>3. CASE u # t
  <2>1. /\ pc'[u] = pc[u] /\ op'[u] = op[u] /\ stage'[u] = stage[u] /\ ret'[u] = ret[u]
    BY <1>2, <1>3, CallBegins
  <2>2. out'[u] = out[u]
    BY <1>1, <1>2, <1>3 DEF Invoke, Begin, ThreadsOK
  <2>3. at'[u] = at[u] /\ req'[u] = req[u] /\ user'[u] = user[u]
    BY <1>3, CallKeepsTypes
  <2>4. resp'[u] = resp[u]
    BY <1>1, <1>3
       DEF ServerTypeOK, ServerCall, FindLogin, FindUser, FindAccount, StoreBalance,
           LogTransaction, ChangePassword, ModifyUser, CreateJointUser,
           CreateAccount, CreateUser, Delete, Count, CountTransactions, Announce,
           Permitted, locals
  <2> QED
    BY <2>1, <2>2, <2>3, <2>4, ListsUntouched
<1>4. CASE u = t
  <2>1. at'[t] # "ready" /\ (resp'[t] = resp[t] \/ resp'[t].items = <<>>)
    <3>1. at'[t] # "ready"
      BY <1>1
         DEF ServerTypeOK, ServerCall, FindLogin, FindUser, FindAccount, StoreBalance,
             LogTransaction, ChangePassword, ModifyUser, CreateJointUser,
             CreateAccount, CreateUser, Delete, Count, CountTransactions, Announce,
             Await, LastCall
    <3>2. CASE Announce(t)
      <4>1. [Respond("Success") EXCEPT !.num = ret[t]]
              = [stat |-> "Success", num |-> ret[t], items |-> <<>>]
        BY DEF Respond
      <4> QED
        BY <1>1, <3>1, <3>2, <4>1 DEF ServerTypeOK, Announce
    <3>3. CASE ~Announce(t)
      BY <1>1, <3>1, <3>3
         DEF ServerCall, FindLogin, FindUser, FindAccount, StoreBalance,
             LogTransaction, ChangePassword, ModifyUser, CreateJointUser,
             CreateAccount, CreateUser, Delete, Count, CountTransactions,
             Permitted, locals
    <3> QED
      BY <3>2, <3>3
  <2>2. Sent(t)'
    <3>1. Range(<<>>) = {}
      BY DEF Range
    <3> QED
      BY <2>1, <3>1 DEF ListInv, Sent, Answered
  <2>3. Counted(t)'
    <3>1. op'[t] = o /\ pc'[t] = FirstCall(o.fn)
      BY <1>2, CallBegins
    <3>2. o.fn \in Counts => FirstCall(o.fn) = "size"
      BY DEF FirstCall, Counts, Creates
    <3> QED
      BY <3>1, <3>2 DEF Counted
  <2> QED
    BY <1>4, <2>2, <2>3, AnnouncedByCall
<1> QED
  BY <1>3, <1>4

LEMMA NothingStarts ==
  ASSUME NEW R, NEW w \in Seq(R) PROVE Starts(<<>>, w)
<1>1. SubSeq(w, 1, 0) = <<>> /\ Len(<<>>) = 0
  OBVIOUS
<1>2. Len(w) \in Nat
  OBVIOUS
<1> QED
  BY <1>1, <1>2 DEF Starts

\* No items are as good as any.
LEMMA NothingSent ==
  ASSUME NEW t \in Threads, TypeInv', resp'[t].items = <<>>, resp'[t].num = 0
  PROVE  Sent(t)'
<1>1. file'["trans"] \in Seq(TransRec)
  BY Tables DEF TypeInv, TypeOK, FilesOK, Files
<1>2. Whole(file'["trans"], user'[t].aid) \in Seq(TransRec)
  BY <1>1, WholeSeq
<1>3. Starts(<<>>, Whole(file'["trans"], user'[t].aid))
  BY <1>2, NothingStarts
<1>4. Range(<<>>) = {}
  BY DEF Range
<1> QED
  BY <1>3, <1>4 DEF Sent, History, Whole

\* The items are what the list was read into.
LEMMA ItemsAreRead ==
  ASSUME SInv, ListInv, NEW t \in Threads, SendItems(t) PROVE Sent(t)'
<1>1. /\ ServerTypeOK /\ Waiting(t) /\ TypeInv /\ ThreadsOK /\ CallOK(t)
      /\ Gathered(t) /\ Announced(t) /\ Sent(t)
  BY DEF SInv, TypeInv, TypeOK, ListInv
<1>2. /\ at[t] = "list" /\ pc[t] = "done" /\ req' = req /\ user' = user /\ file' = file
      /\ resp[t] = [stat |-> "Success", num |-> op[t].limit, items |-> <<>>]
      /\ op[t].limit \in Nat
  BY <1>1 DEF SendItems, Returned, clients, locals, vars, disk, Announced, CallOK, OpOk
<1>3. CASE ret[t] < 0
  <2>1. resp'[t].items = <<>> /\ resp'[t].stat = "ItemFailure"
    <3>1. [resp[t] EXCEPT !.stat = "ItemFailure"]
            = [stat |-> "ItemFailure", num |-> op[t].limit, items |-> <<>>]
      BY <1>2
    <3> QED
      BY <1>1, <1>3, <3>1 DEF SendItems, Reply, ServerTypeOK
  <2>2. Range(<<>>) = {}
    BY DEF Range
  <2> QED
    BY <2>1, <2>2 DEF Sent, Answered
<1>4. CASE ret[t] >= 0
  <2>1. resp'[t] = [stat |-> "Success", num |-> op[t].limit, items |-> Items(t)]
    <3>1. ~(ret[t] < 0)
      BY <1>1, <1>4 DEF ThreadsOK
    <3>2. [resp[t] EXCEPT !.items = Items(t)]
            = [stat |-> "Success", num |-> op[t].limit, items |-> Items(t)]
      BY <1>2
    <3> QED
      BY <1>1, <3>1, <3>2 DEF SendItems, Reply, ServerTypeOK
  <2>2. op[t].fn \in TransFns \/ NoDeleteRequests => op[t].limit <= Len(out[t])
    BY <1>1, <1>2, <1>4 DEF Announced, ListRead
  <2>3. out[t] \in Seq(Rec)
    BY <1>1 DEF CallOK
  <2>4. op[t].limit <= Len(out[t]) =>
          Items(t) = [i \in 1 .. op[t].limit |-> out[t][i]]
    BY <1>2, <2>3 DEF Items
  <2>5. NoDeleteRequests => NoRec \notin Range(Items(t))
    <3> SUFFICES ASSUME NoDeleteRequests PROVE NoRec \notin Range(Items(t))
      OBVIOUS
    <3>1. Items(t) = [i \in 1 .. op[t].limit |-> out[t][i]]
      BY <2>2, <2>4
    <3>2. \A i \in 1 .. op[t].limit : out[t][i] \in Rec
      BY <1>2, <2>2, <2>3
    <3>3. NoRec \notin Rec
      BY NoRecAssumption, Tables DEF Rec, Files
    <3> QED
      BY <3>1, <3>2, <3>3 DEF Range
  <2>6. ASSUME req[t].action = "ViewDetails"
        PROVE  /\ Items(t) \in Seq(TransRec) /\ Len(Items(t)) = op[t].limit
               /\ Starts(Items(t), Whole(file["trans"], user[t].aid))
    <3>1. op[t].fn = "get_transactions" /\ op[t].fn \in Bulk \cap TransFns
          /\ op[t].rec.aid = user[t].aid
      BY <1>1, <1>2, <2>6 DEF Waiting, Listing, Announced, Bulk, TransFns
    <3> DEFINE w == Whole(file["trans"], user[t].aid)
    <3>2. w \in Seq(TransRec)
      <4>1. file["trans"] \in Seq(TransRec)
        BY <1>1, Tables DEF TypeInv, TypeOK, FilesOK, Files
      <4> QED
        BY <4>1, WholeSeq
    <3>3. Starts(out[t], w)
      BY <1>1, <3>1, GatheredIsHistory DEF History, Whole
    <3> HIDE DEF w
    <3>4. /\ Len(out[t]) <= Len(w) /\ out[t] = SubSeq(w, 1, Len(out[t]))
      BY <3>3 DEF Starts
    <3>5. out[t] \in Seq(TransRec)
      BY <2>3, <3>2, <3>4
    <3>6. \A i \in 1 .. Len(out[t]) : out[t][i] = w[i]
      BY <3>2, <3>3, <3>5, StartsByPlace
    <3>7. Items(t) = [i \in 1 .. op[t].limit |-> out[t][i]] /\ op[t].limit <= Len(out[t])
      BY <2>2, <2>4, <3>1
    <3>8. Items(t) \in Seq(TransRec) /\ Len(Items(t)) = op[t].limit
      <4>1. op[t].limit \in Nat /\ \A i \in 1 .. op[t].limit : out[t][i] \in TransRec
        BY <1>2, <3>5, <3>7
      <4> QED
        BY <3>7, <4>1
    <3>9. Starts(Items(t), w)
      <4>1. Len(Items(t)) <= Len(w) /\ \A i \in 1 .. Len(Items(t)) : Items(t)[i] = w[i]
        BY <1>2, <3>2, <3>4, <3>5, <3>6, <3>7, <3>8
      <4> QED
        BY <3>2, <3>8, <4>1, StartsByPlace
    <3> QED
      BY <3>8, <3>9 DEF w
  <2> QED
    BY <1>2, <2>1, <2>5, <2>6 DEF Sent, Answered, History, Whole
<1> QED
  BY <1>1, <1>3, <1>4 DEF ThreadsOK

LEMMA SentByReply ==
  ASSUME SInv, ListInv, [ServerNext]_allvars, NEW t \in Threads, ServerReply(t)
  PROVE  Sent(t)'
<1> USE DEF Reply, clients, locals
<1>1. /\ ServerTypeOK /\ Waiting(t) /\ TypeInv' /\ ThreadsOK /\ Sent(t)
  BY ServerNextTypes DEF SInv, ListInv, TypeInv, TypeOK
<1>2. \A s : Respond(s).items = <<>> /\ Respond(s).num = 0
  BY DEF Respond
<1>3. CASE Leave(t)
  BY <1>1, <1>3, SentKept DEF Leave
<1>4. CASE \E s : resp'[t] = Respond(s)
  BY <1>1, <1>2, <1>4, NothingSent
<1>5. CASE Request(t) \/ RejectLogin(t) \/ OpenSession(t) \/ Logout(t) \/ Refuse(t)
           \/ Finish(t) \/ StoreFails(t) \/ CountFails(t)
  <2>1. \E s : resp'[t] = Respond(s)
    BY <1>1, <1>5
       DEF ServerTypeOK, Request, RejectLogin, OpenSession, Logout, Refuse, Finish,
           StoreFails, CountFails
  <2> QED
    BY <1>4, <2>1
<1>6. CASE AnswerAccount(t)
  <2>1. CASE req[t].action = "BalanceEnquiry" /\ ret[t] >= 0
                /\ resp'[t] = [Respond("Success") EXCEPT !.items = <<iter[t]>>]
    <3>1. iter[t] \in AccountRec
      <4>1. op[t].fn = "get_account_from_id" /\ pc[t] = "done"
        BY <1>1, <1>6 DEF AnswerAccount, Returned, Waiting
      <4> QED
        BY <2>1, <4>1, FoundType, Tables DEF Gets
    <3>2. iter[t] # NoRec
      BY <3>1, NoRecAssumption, Tables DEF Files
    <3>3. resp'[t].items = <<iter[t]>>
      BY <2>1 DEF Respond
    <3>4. Range(<<iter[t]>>) = {iter[t]}
      BY DEF Range
    <3>5. req'[t] = req[t]
      BY <1>6 DEF AnswerAccount
    <3> QED
      BY <2>1, <3>2, <3>3, <3>4, <3>5 DEF Sent, Answered
  <2>2. \/ \E s : resp'[t] = Respond(s)
        \/ req[t].action = "BalanceEnquiry" /\ ret[t] >= 0
              /\ resp'[t] = [Respond("Success") EXCEPT !.items = <<iter[t]>>]
    BY <1>1, <1>6 DEF AnswerAccount, ServerTypeOK
  <2> QED
    BY <1>4, <2>1, <2>2
<1> QED
  BY <1>3, <1>5, <1>6, ItemsAreRead DEF ServerReply

LEMMA ListReply ==
  ASSUME SInv, ListInv, [ServerNext]_allvars, NEW t \in Threads, ServerReply(t),
         NEW u \in Threads
  PROVE  Counted(u)' /\ Announced(u)' /\ Sent(u)'
<1> USE DEF Reply, clients, locals
<1>1. /\ ServerTypeOK /\ Waiting(t) /\ UNCHANGED <<file, pc, op, stage, out, ret>>
  BY ReplyKeepsServer DEF SInv, vars, disk, local
<1>2. CASE u # t
  <2>1. at'[u] = at[u] /\ req'[u] = req[u] /\ user'[u] = user[u] /\ resp'[u] = resp[u]
    BY <1>1, <1>2
       DEF ServerTypeOK, ServerReply, Request, Leave, RejectLogin, OpenSession, Logout,
           Refuse, Finish, AnswerAccount, StoreFails, CountFails, SendItems
  <2> QED
    BY <1>1, <2>1, ListsUntouched
<1>3. CASE u = t
  <2>1. Counted(t)'
    BY <1>1 DEF ListInv, Counted, Contents, OpenFile
  <2>2. at'[t] \notin {"count", "list"}
    BY <1>1
       DEF ServerTypeOK, ServerReply, Request, Leave, RejectLogin, OpenSession, Logout,
           Refuse, Finish, AnswerAccount, StoreFails, CountFails, SendItems, Awaited
  <2>3. Announced(t)'
    BY <2>2 DEF Announced
  <2> QED
    BY <1>3, <2>1, <2>3, SentByReply
<1> QED
  BY <1>2, <1>3

LEMMA ListNext == SInv /\ ListInv /\ [ServerNext]_allvars => ListInv'
<1> SUFFICES ASSUME SInv, ListInv, [ServerNext]_allvars PROVE ListInv'
  OBVIOUS
<1>1. /\ NoDeleteRequests => GrowInv'
      /\ \A t \in Threads : Gathered(t)'
      /\ TypeInv'
  BY ServerNextGrows, ServerGathers, ServerNextTypes DEF ListInv, SInv
<1>2. ASSUME UNCHANGED <<pc, op, stage, out, ret, at, req, user, resp>>, NEW t \in Threads
      PROVE  Counted(t)' /\ Announced(t)' /\ Sent(t)'
  BY <1>2, ListsUntouched
<1>3. ASSUME NEW p \in Procs, Start(p), NEW t \in Threads
      PROVE  Counted(t)' /\ Announced(t)' /\ Sent(t)'
  BY <1>2, <1>3 DEF Start, InitCounter, local, svars, locals
<1>4. ASSUME UNCHANGED allvars, NEW t \in Threads
      PROVE  Counted(t)' /\ Announced(t)' /\ Sent(t)'
  BY <1>2, <1>4 DEF allvars, vars, local, svars, locals
<1>5. ASSUME NEW p \in Procs, Stop(p), NEW t \in Threads
      PROVE  Counted(t)' /\ Announced(t)' /\ Sent(t)'
  <2>1. CASE Proc(t) = p
    <3>1. /\ pc'[t] = "idle" /\ at'[t] = "ready" /\ resp'[t] = Respond("None")
      BY <1>5, <2>1 DEF Stop, Crash
    <3>2. Counted(t)' /\ Announced(t)'
      BY <3>1 DEF Counted, Announced
    <3>3. Sent(t)'
      BY <1>1, <3>1, NothingSent DEF Respond
    <3> QED
      BY <3>2, <3>3
  <2>2. CASE Proc(t) # p
    <3>1. /\ pc'[t] = pc[t] /\ op'[t] = op[t] /\ stage'[t] = stage[t]
          /\ out'[t] = out[t] /\ ret'[t] = ret[t] /\ at'[t] = at[t]
          /\ req'[t] = req[t] /\ user'[t] = user[t] /\ resp'[t] = resp[t]
      BY <1>5, <2>2 DEF Stop, Crash
    <3> QED
      BY <3>1, ListsUntouched
  <2> QED
    BY <2>1, <2>2
<1>6. \A t \in Threads : Counted(t)' /\ Announced(t)' /\ Sent(t)'
  BY <1>3, <1>4, <1>5, ListCall, ListReply, ListStep, ServerSteps
<1> QED
  BY <1>1, <1>6 DEF ListInv, NoDeleteRequests

LEMMA ListInit == ServerInit => ListInv
<1> SUFFICES ASSUME ServerInit PROVE ListInv
  OBVIOUS
<1>1. NoDeleteRequests => GrowInv
  BY InitGrows DEF ServerInit
<1>2. ASSUME NEW t \in Threads PROVE Gathered(t) /\ Counted(t) /\ Announced(t)
  BY DEF ServerInit, Init, NoOp, Gathered, Counted, Announced, Bulk
<1>3. ASSUME NEW t \in Threads PROVE Sent(t)
  <2>1. resp[t].items = <<>> /\ ~Answered(t, "ViewDetails")
    BY DEF ServerInit, Respond, Answered
  <2>2. Range(<<>>) = {}
    BY DEF Range
  <2> QED
    BY <2>1, <2>2 DEF Sent
<1> QED
  BY <1>1, <1>2, <1>3 DEF ListInv

\* view_details sends as many items as it has announced, and they are the start
\* of the account's journal, though others append between the count, the list
\* and the answer, and whoever deletes users and accounts meanwhile.
THEOREM DetailsAreSentWhole == ServerSpec => []DetailsAreComplete
<1> DEFINE Inv == SInv /\ ListInv
<1>1. ServerInit => Inv
  BY ServerInitTypes, ListInit
<1>2. Inv /\ [ServerNext]_allvars => Inv'
  BY ServerNextTypes, ListNext
<1>3. Inv => DetailsAreComplete
  BY DEF ListInv, Sent, DetailsAreComplete, Starts
<1> HIDE DEF Inv
<1> QED
  BY <1>1, <1>2, <1>3, PTL DEF ServerSpec

\* As long as nobody asks to delete, no list that is sent has a place that was
\* not filled.
THEOREM ListsAreSentFilled == NoDeleteRequests /\ ServerSpec => []ListsAreFilled
<1> DEFINE Inv == NoDeleteRequests /\ SInv /\ ListInv
<1>1. NoDeleteRequests /\ ServerInit => Inv
  BY ServerInitTypes, ListInit
<1>2. Inv /\ [ServerNext]_allvars => Inv'
  BY ServerNextTypes, ListNext DEF NoDeleteRequests
<1>3. Inv => ListsAreFilled
  BY DEF ListInv, Sent, ListsAreFilled
<1> HIDE DEF Inv
<1> QED
  BY <1>1, <1>2, <1>3, PTL DEF ServerSpec

(***************************************************************************)
(* One request at a time: a server with one client.                        *)
(***************************************************************************)

OneClient  == \E t : Threads = {t}
NoRestarts == MaxCrashes = 0

\* The copy that a delete leaves behind while it copies the tail down.
SpareSlot(t) ==
  IF pc[t] = "shift" THEN cur[t]
  ELSE IF pc[t] = "shiftw" THEN cur[t] - 1 ELSE Len(Contents(t))

Proper(t, f, i) ==
  i \in DOMAIN file[f] /\ ~(Copied(t) /\ f = OpenFile(t) /\ i = SpareSlot(t))

\* No id is twice in a file, but for that copy.
NoTwins(t) ==
  \A f \in Files : \A i, j \in DOMAIN file[f] :
    Proper(t, f, i) /\ Proper(t, f, j) /\ file[f][i].id = file[f][j].id => i = j

\* What a look-up of the server has brought back is what is stored.
Current(t) ==
  op[t].fn \in Gets /\ iter[t] # NoRec =>
    \A i \in DOMAIN Contents(t) : Contents(t)[i].id = iter[t].id => Contents(t)[i] = iter[t]

\* A controller that has not called the database yet.
Still(t) == at[t] \in {"ready", "login", "logout", "session"} => ~Calling(t)

OneInv ==
  /\ SInv /\ IInv
  /\ \A t \in Threads : Standing(t) /\ NoTwins(t) /\ Current(t) /\ Still(t)

\* A user is updated by modify_user, or with the rights that are on file.
RightsOf(t) ==
  op[t].fn = "update_user" /\ Calling(t) =>
    \/ req[t].action = "ModifyUser" /\ op[t].rec.id = req[t].uid
    \/ /\ req[t].action = "PasswordChange"
       /\ pc[t] \in {"lock", "scan", "unlock", "wlock", "write"} =>
            \A i \in DOMAIN file["user"] :
              file["user"][i].id = op[t].rec.id =>
                file["user"][i].info.is_admin = op[t].rec.info.is_admin

RightsInv == OneInv /\ \A t \in Threads : RightsOf(t)

\* A transaction has changed a balance and is not in the journal yet.
Owing(t) ==
  \/ /\ at[t] = "stored"
     /\ \/ pc[t] = "wunlock"
        \/ pc[t] \in {"close", "done"} /\ ret[t] >= 0
  \/ /\ at[t] = "last" /\ op[t].fn = "append_transaction"
     /\ pc[t] \in {"newid", "aopen", "alock", "append"}

Due(t, aid) == IF Owing(t) /\ user[t].aid = aid THEN req[t].amt ELSE 0

LastId(t) == ctr[Proc(t)]["account"]

\* No entry is on an account that is still to be created.
EntriesKnown(t) ==
  \A r \in Range(file["trans"]) :
    IF Booted(Proc(t), "account") THEN r.aid <= LastId(t)
    ELSE \E a \in Range(file["account"]) : r.aid <= a.id

NewIsEmpty(t) ==
  op[t].fn = "create_account" =>
    /\ op[t].rec.balance = 0
    /\ Appending(t) => \A r \in Range(file["trans"]) : r.aid # op[t].rec.id

\* The amount of a transaction on its way from the request to the journal.
AmountKept(t) ==
  /\ at[t] = "stored" =>
       /\ op[t].rec.id = user[t].aid /\ user[t].aid <= LastId(t)
       /\ op[t].rec.balance = acc[t].balance + req[t].amt
       /\ pc[t] \in {"lock", "scan", "unlock", "wlock", "write", "wunlock", "close", "done"}
       /\ pc[t] \in {"wlock", "write", "wunlock"} => ret[t] >= 0
       /\ pc[t] \in {"lock", "scan", "unlock", "wlock", "write"} =>
            \A i \in DOMAIN file["account"] :
              file["account"][i].id = user[t].aid =>
                file["account"][i].balance = acc[t].balance
  /\ at[t] = "last" => pc[t] # "idle" /\ op[t].fn # "update_account"
  /\ at[t] = "last" /\ op[t].fn = "append_transaction" =>
       /\ op[t].rec.aid = user[t].aid /\ user[t].aid <= LastId(t)
       /\ op[t].rec.new = op[t].rec.old + req[t].amt

Balanced(t) ==
  \A i \in DOMAIN file["account"] :
    LET a == file["account"][i] IN a.balance = Booked(a.id) + Due(t, a.id)

BooksInv ==
  /\ OneInv
  /\ \A t \in Threads : EntriesKnown(t) /\ NewIsEmpty(t) /\ AmountKept(t) /\ Balanced(t)

(***************************************************************************)
(* Ids are not twice in a file.                                            *)
(***************************************************************************)

\* A step that writes nothing makes no other copy spare.
LEMMA SpareStays ==
  ASSUME IInv, NEW t \in Threads, Standing(t), Step(t),
         ~(Overwrite(t) \/ ShiftWrite(t) \/ Truncate(t) \/ AppendRecord(t))
  PROVE  /\ file' = file
         /\ \A f \in Files : \A i : Proper(t, f, i)' <=> Proper(t, f, i)
<1>1. /\ TypeInv /\ ThreadsOK /\ SpareIsNext(t) /\ file' = file
      /\ cur[t] \in Int /\ Len(Contents(t)) \in Nat
  BY OnlyWrites, FileSeq DEF Standing, IInv, TypeInv, TypeOK, ThreadsOK
<1>2. CASE ShiftStep(t)
  <2>1. /\ Copied(t)' <=> Copied(t)
        /\ OpenFile(t)' = OpenFile(t) /\ Contents(t)' = Contents(t)
    BY <1>1, <1>2, ShiftAlone
       DEF ShiftStep, LockTail, ShiftRead, ShiftWriteFails, ShiftEOF, SeekLast, disk,
           local, Contents, OpenFile
  <2>2. Copied(t) => SpareSlot(t)' = SpareSlot(t)
    BY <1>1, <1>2, <2>1
       DEF ShiftStep, LockTail, ShiftRead, ShiftWriteFails, ShiftEOF, SeekLast, Goto,
           ThreadsOK, SpareSlot, SpareIsNext, Spare, Copied, local
  <2> QED
    BY <1>1, <2>1, <2>2 DEF Proper
<1>3. CASE ~ShiftStep(t)
  <2>1. ~Copied(t) /\ ~Copied(t)'
    <3>1. ~Shifting(t) /\ ~Shifting(t)'
      BY <1>1, <1>3, ScanAlone, ElsewhereAlone
    <3> QED
      BY <3>1 DEF Copied, Shifting
  <2> QED
    BY <1>1, <2>1 DEF Proper
<1> QED
  BY <1>2, <1>3

\* An update leaves every record its id.
LEMMA OverwriteSlots ==
  ASSUME IInv, NEW t \in Threads, Standing(t), Overwrite(t), NEW f \in Files
  PROVE  /\ DOMAIN file'[f] = DOMAIN file[f]
         /\ f # OpenFile(t) => file'[f] = file[f]
         /\ f = OpenFile(t) => cur[t] \in DOMAIN file[f]
                               /\ file[f][cur[t]].id = op[t].rec.id
         /\ \A i \in DOMAIN file[f] :
              file'[f][i] = IF f = OpenFile(t) /\ i = cur[t] THEN op[t].rec
                            ELSE file[f][i]
         /\ pc[t] = "write" /\ pc'[t] = "wunlock" /\ op[t].fn \in Updates
         /\ OpenFile(t) = TableOf(op[t].fn)
<1>1. /\ TypeInv /\ FilesOK /\ ThreadsOK /\ CallOK(t) /\ Control(t) /\ AtTarget(t)
      /\ OpenFile(t) \in Files /\ file[f] \in Seq(RecOf(f)) /\ Len(file[f]) \in Nat
      /\ DOMAIN file[f] = 1 .. Len(file[f])
  BY Located DEF Standing, IInv, TypeInv, TypeOK, FilesOK
<1>2. /\ pc[t] = "write" /\ pc'[t] = "wunlock" /\ op[t].fn \in Updates
      /\ iter[t] # NoRec /\ WritesInPlace(op[t].fn, stage[t])
      /\ OpenFile(t) = TableOf(op[t].fn)
  BY <1>1 DEF Overwrite, Goto, Control, OpenFile, FileAt, Updates, ThreadsOK
<1>3. CASE f # OpenFile(t)
  BY <1>1, <1>2, <1>3 DEF Overwrite, SetFile, FilesOK
<1>4. CASE f = OpenFile(t)
  <2>1. cur[t] \in 1 .. Len(file[f]) /\ file[f][cur[t]].id = op[t].rec.id
    BY <1>1, <1>2, <1>4 DEF AtTarget, Contents
  <2>2. op[t].rec \in RecOf(f) /\ cur[t] - 1 \in Int /\ cur[t] - 1 < Len(file[f])
        /\ 0 <= cur[t] - 1 /\ (cur[t] - 1) + 1 = cur[t]
    <3>1. op[t].rec \in RecOf(f)
      BY <1>1, <1>2, <1>4 DEF CallOK, OpOk
    <3> QED
      BY <1>1, <2>1, <3>1
  <2>3. file'[f] = WriteAt(file[f], cur[t] - 1, op[t].rec, ZeroRec(f))
    BY <1>1, <1>4 DEF Overwrite, SetFile, Position, Contents, FilesOK
  <2>4. DOMAIN file'[f] = 1 .. Len(file[f])
    BY <1>1, <2>2, <2>3, WriteAtDomain
  <2>5. \A i \in 1 .. Len(file[f]) :
          file'[f][i] = IF i = cur[t] THEN op[t].rec ELSE file[f][i]
    BY <1>1, <2>2, <2>3, WriteAtStays
  <2> QED
    BY <1>1, <1>2, <1>4, <2>1, <2>4, <2>5
<1> QED
  BY <1>3, <1>4

\* A record is copied down.
LEMMA ShiftWriteSlots ==
  ASSUME IInv, NEW t \in Threads, Standing(t), ShiftWrite(t)
  PROVE  LET f == OpenFile(t)
             s == file[f]
             c == cur[t]
         IN  /\ f \in Files /\ c \in Int /\ c \in DOMAIN s /\ c - 1 \in DOMAIN s
             /\ \A g \in Files \ {f} : file'[g] = file[g]
             /\ DOMAIN file'[f] = DOMAIN s
             /\ \A i \in DOMAIN s : file'[f][i] = IF i = c - 1 THEN s[c] ELSE s[i]
             /\ c - 1 # from[t] => /\ c - 2 \in DOMAIN s
                                   /\ s[c - 2].id = s[c - 1].id
             /\ pc[t] = "shiftw" /\ pc'[t] = "shift" /\ cur'[t] = c
             /\ OpenFile(t)' = f
             /\ from'[t] = from[t] /\ from[t] \in Int
<1> DEFINE f == OpenFile(t)
           s == file[f]
           c == cur[t]
<1>1. /\ TypeInv /\ FilesOK /\ ThreadsOK /\ SpareIsNext(t)
      /\ f \in Files /\ s \in Seq(RecOf(f)) /\ Len(s) \in Nat
      /\ DOMAIN s = 1 .. Len(s)
      /\ Contents(t) = s /\ c \in Int /\ from[t] \in Nat
  BY Located DEF Standing, IInv, TypeInv, TypeOK, FilesOK, Contents, ThreadsOK
<1>2. /\ pc[t] = "shiftw" /\ pc'[t] = "shift" /\ cur'[t] = c
      /\ op' = op /\ stage' = stage /\ from' = from
  BY <1>1 DEF ShiftWrite, AfterShift, Goto, ThreadsOK
<1>3. /\ c \in 1 .. Len(s) /\ iter[t] = s[c] /\ Spare(t, c - 1) /\ c - 1 \in 1 .. Len(s)
  BY <1>1, <1>2 DEF SpareIsNext, Spare
<1>4. file'[f] = WriteAt(s, c - 2, s[c], ZeroRec(f))
  BY <1>1, <1>3 DEF ShiftWrite, SetFile, ShiftTarget, Contents, FilesOK
<1>5. \A g \in Files \ {f} : file'[g] = file[g]
  BY <1>1, OtherFiles
<1>6. OpenFile(t)' = f
  BY <1>2 DEF OpenFile
<1>7. c - 1 # from[t] => /\ (c - 1) - 1 \in 1 .. Len(s)
                         /\ s[(c - 1) - 1].id = s[c - 1].id
  BY <1>1, <1>3 DEF Spare
<1>8. (c - 1) - 1 = c - 2
  BY <1>1
<1> HIDE DEF f, s, c
<1>9. /\ s[c] \in RecOf(f) /\ c - 2 \in Int /\ 0 <= c - 2 /\ c - 2 < Len(s)
      /\ (c - 2) + 1 = c - 1
  BY <1>1, <1>3
<1>10. \A i \in 1 .. Len(s) : file'[f][i] = IF i = c - 1 THEN s[c] ELSE s[i]
  BY <1>1, <1>4, <1>9, WriteAtStays
<1>11. DOMAIN file'[f] = 1 .. Len(s)
  BY <1>1, <1>4, <1>9, WriteAtDomain
<1>12. /\ f \in Files /\ c \in Int /\ c \in DOMAIN s /\ c - 1 \in DOMAIN s
       /\ \A g \in Files \ {f} : file'[g] = file[g]
       /\ DOMAIN file'[f] = DOMAIN s
       /\ \A i \in DOMAIN s : file'[f][i] = IF i = c - 1 THEN s[c] ELSE s[i]
       /\ c - 1 # from[t] => /\ c - 2 \in DOMAIN s
                             /\ s[c - 2].id = s[c - 1].id
       /\ pc[t] = "shiftw" /\ pc'[t] = "shift" /\ cur'[t] = c
       /\ OpenFile(t)' = f
       /\ from'[t] = from[t] /\ from[t] \in Int
  BY <1>1, <1>2, <1>3, <1>5, <1>6, <1>7, <1>8, <1>10, <1>11
<1> QED
  BY <1>12 DEF f, s, c

\* The last record is cut off.
LEMMA TruncateSlots ==
  ASSUME IInv, NEW t \in Threads, Standing(t), Truncate(t)
  PROVE  LET f == OpenFile(t)
             n == Len(file[f])
         IN  /\ f \in Files /\ n \in Nat /\ DOMAIN file[f] = 1 .. n
             /\ \A g \in Files \ {f} : file'[g] = file[g]
             /\ DOMAIN file'[f] = 1 .. n - 1
             /\ \A i \in 1 .. n - 1 : file'[f][i] = file[f][i]
             /\ pc[t] = "trunc" /\ pc'[t] = "wunlock" /\ Contents(t) = file[f]
<1> DEFINE f == OpenFile(t)
           s == file[f]
           n == Len(s)
<1>1. /\ TypeInv /\ FilesOK /\ SpareIsNext(t) /\ ThreadsOK
      /\ f \in Files /\ s \in Seq(RecOf(f)) /\ n \in Nat /\ Contents(t) = s
      /\ DOMAIN s = 1 .. n
  BY Located DEF Standing, IInv, TypeInv, TypeOK, FilesOK, Contents
<1>2. /\ pc[t] = "trunc" /\ pc'[t] = "wunlock" /\ cur[t] = n - 1 /\ n \in 1 .. n
  BY <1>1 DEF Truncate, Goto, SpareIsNext, Spare, ThreadsOK
<1>3. file'[f] = [i \in 1 .. n - 1 |-> IF i <= n THEN s[i] ELSE ZeroRec(f)]
  <2>1. cur[t] >= 0
    BY <1>2
  <2> QED
    BY <1>1, <1>2, <2>1 DEF Truncate, SetFile, Cut, Resize, Contents, FilesOK
<1>4. \A g \in Files \ {f} : file'[g] = file[g]
  BY <1>1, OtherFiles
<1> HIDE DEF f, s, n
<1>5. DOMAIN file'[f] = 1 .. n - 1
  BY <1>1, <1>3
<1>6. \A i \in 1 .. n - 1 : file'[f][i] = s[i]
  BY <1>1, <1>3
<1>7. /\ f \in Files /\ n \in Nat /\ DOMAIN s = 1 .. n
      /\ \A g \in Files \ {f} : file'[g] = file[g]
      /\ DOMAIN file'[f] = 1 .. n - 1
      /\ \A i \in 1 .. n - 1 : file'[f][i] = s[i]
      /\ pc[t] = "trunc" /\ pc'[t] = "wunlock" /\ Contents(t) = s
  BY <1>1, <1>2, <1>4, <1>5, <1>6
<1> QED
  BY <1>7 DEF f, s, n

\* A new record is added behind the others.
LEMMA AppendSlots ==
  ASSUME IInv, NEW t \in Threads, Standing(t), AppendRecord(t)
  PROVE  LET f == OpenFile(t)
             n == Len(file[f])
         IN  /\ f \in Files /\ n \in Nat /\ DOMAIN file[f] = 1 .. n
             /\ \A g \in Files \ {f} : file'[g] = file[g]
             /\ DOMAIN file'[f] = 1 .. n + 1
             /\ \A i \in 1 .. n : file'[f][i] = file[f][i]
             /\ file'[f][n + 1] = op[t].rec
             /\ op[t].rec.id \notin Ids(file[f])
             /\ op[t].fn \in Creates /\ f = TableOf(op[t].fn)
             /\ pc[t] = "append" /\ pc'[t] = "aunlock"
             /\ file'[f] = Append(file[f], op[t].rec) /\ op[t].rec \in RecOf(f)
<1> DEFINE f == OpenFile(t)
<1>1. /\ TypeInv /\ FilesOK /\ Control(t) /\ Unused(t) /\ ThreadsOK /\ CallOK(t)
      /\ f \in Files /\ file[f] \in Seq(RecOf(f)) /\ Contents(t) = file[f]
  BY Located DEF Standing, IInv, IdInv, TypeInv, TypeOK, FilesOK, Contents
<1>2. file'[f] = Append(file[f], op[t].rec)
  BY <1>1 DEF AppendRecord, Appended, SetFile, FilesOK
<1>3. /\ pc[t] = "append" /\ pc'[t] = "aunlock" /\ op[t].fn \in Creates /\ stage[t] = 3
  BY <1>1 DEF AppendRecord, Goto, Control, AppendPCs, ThreadsOK
<1>4. f = TableOf(op[t].fn)
  BY <1>3 DEF OpenFile, FileAt, Creates
<1>5. op[t].rec \in RecOf(f)
  BY <1>1, <1>4 DEF CallOK, OpOk
<1>6. op[t].rec.id \notin Ids(file[f])
  BY <1>1, AppendAlone
<1>7. \A g \in Files \ {f} : file'[g] = file[g]
  BY <1>1, OtherFiles
<1> HIDE DEF f
<1>8. /\ Len(file[f]) \in Nat /\ DOMAIN file[f] = 1 .. Len(file[f])
      /\ DOMAIN file'[f] = 1 .. Len(file[f]) + 1
      /\ \A i \in 1 .. Len(file[f]) : file'[f][i] = file[f][i]
      /\ file'[f][Len(file[f]) + 1] = op[t].rec
  BY <1>1, <1>2, <1>5
<1>9. /\ f \in Files /\ op[t].rec.id \notin Ids(file[f])
      /\ \A g \in Files \ {f} : file'[g] = file[g]
      /\ op[t].fn \in Creates /\ f = TableOf(op[t].fn)
      /\ pc[t] = "append" /\ pc'[t] = "aunlock"
      /\ file'[f] = Append(file[f], op[t].rec) /\ op[t].rec \in RecOf(f)
  BY <1>1, <1>2, <1>3, <1>4, <1>5, <1>6, <1>7
<1> QED
  BY <1>8, <1>9 DEF f

LEMMA ShiftWriteTwins ==
  ASSUME IInv, NEW t \in Threads, Standing(t), NoTwins(t), ShiftWrite(t)
  PROVE  NoTwins(t)'
<1> DEFINE f == OpenFile(t)
           s == file[f]
           c == cur[t]
<1>1. /\ f \in Files /\ c \in Int /\ c \in DOMAIN s /\ c - 1 \in DOMAIN s
      /\ \A g \in Files \ {f} : file'[g] = file[g]
      /\ DOMAIN file'[f] = DOMAIN s
      /\ \A i \in DOMAIN s : file'[f][i] = IF i = c - 1 THEN s[c] ELSE s[i]
      /\ pc[t] = "shiftw" /\ pc'[t] = "shift" /\ cur'[t] = c
      /\ OpenFile(t)' = f /\ from'[t] = from[t] /\ from[t] \in Int
  BY ShiftWriteSlots
<1>2. \A i \in DOMAIN s : i # c - 1 => Proper(t, f, i)
  BY <1>1 DEF Proper, SpareSlot
<1>3. from[t] < c
  BY <1>1 DEF Standing, SpareIsNext, Spare
<1>4. Copied(t)' /\ SpareSlot(t)' = c
  BY <1>1, <1>3 DEF Copied, SpareSlot
<1>5. \A g, i : g = f /\ Proper(t, g, i)' => i \in DOMAIN s /\ i # c
  BY <1>1, <1>4 DEF Proper
<1>6. \A g \in Files \ {f} : \A i \in DOMAIN file[g] : Proper(t, g, i)
  BY DEF Proper
<1> HIDE DEF f, s, c
<1>7. ASSUME NEW g \in Files, NEW i \in DOMAIN file'[g], NEW j \in DOMAIN file'[g],
             Proper(t, g, i)', Proper(t, g, j)', file'[g][i].id = file'[g][j].id
      PROVE  i = j
  <2>1. CASE g # f
    BY <1>1, <1>6, <1>7, <2>1 DEF NoTwins
  <2>2. CASE g = f
    <3> DEFINE a == IF i = c - 1 THEN c ELSE i
               b == IF j = c - 1 THEN c ELSE j
    <3>1. /\ i \in DOMAIN s /\ i # c /\ j \in DOMAIN s /\ j # c
          /\ file'[f][i] = IF i = c - 1 THEN s[c] ELSE s[i]
          /\ file'[f][j] = IF j = c - 1 THEN s[c] ELSE s[j]
          /\ file'[f][i].id = file'[f][j].id
      <4>1. i \in DOMAIN s /\ j \in DOMAIN s /\ i # c /\ j # c
        BY <1>5, <1>7, <2>2
      <4>2. file'[f][i].id = file'[f][j].id
        BY <1>7, <2>2
      <4> QED
        BY <1>1, <4>1, <4>2
    <3> c # c - 1
      BY <1>1
    <3>a. /\ a \in DOMAIN s /\ a # c - 1 /\ file'[f][i] = s[a]
      <4>1. CASE i = c - 1
        BY <1>1, <3>1, <4>1
      <4>2. CASE i # c - 1
        BY <1>1, <3>1, <4>2
      <4> QED
        BY <4>1, <4>2
    <3>b. /\ b \in DOMAIN s /\ b # c - 1 /\ file'[f][j] = s[b]
      <4>1. CASE j = c - 1
        BY <1>1, <3>1, <4>1
      <4>2. CASE j # c - 1
        BY <1>1, <3>1, <4>2
      <4> QED
        BY <4>1, <4>2
    <3>2. /\ a \in DOMAIN s /\ a # c - 1 /\ b \in DOMAIN s /\ b # c - 1
          /\ file'[f][i] = s[a] /\ file'[f][j] = s[b]
      BY <3>a, <3>b
    <3>3. Proper(t, f, a) /\ Proper(t, f, b) /\ s[a].id = s[b].id
      BY <1>2, <3>1, <3>2
    <3>4. a = b
      <4> HIDE DEF a, b
      <4> QED
        BY <1>1, <3>2, <3>3 DEF NoTwins, s
    <3> QED
      BY <1>1, <3>1, <3>4
  <2> QED
    BY <2>1, <2>2
<1> QED
  BY <1>7 DEF NoTwins

LEMMA TruncateTwins ==
  ASSUME IInv, NEW t \in Threads, Standing(t), NoTwins(t), Truncate(t)
  PROVE  NoTwins(t)'
<1> DEFINE f == OpenFile(t)
           n == Len(file[f])
<1>1. /\ f \in Files /\ n \in Nat /\ DOMAIN file[f] = 1 .. n
      /\ \A g \in Files \ {f} : file'[g] = file[g]
      /\ DOMAIN file'[f] = 1 .. n - 1
      /\ \A i \in 1 .. n - 1 : file'[f][i] = file[f][i]
      /\ pc[t] = "trunc" /\ Contents(t) = file[f]
  BY TruncateSlots
<1>2. SpareSlot(t) = n
  BY <1>1 DEF SpareSlot
<1>3. \A g \in Files : \A i \in DOMAIN file'[g] :
        i \in DOMAIN file[g] /\ Proper(t, g, i) /\ file'[g][i] = file[g][i]
  <2> SUFFICES ASSUME NEW g \in Files, NEW i \in DOMAIN file'[g]
               PROVE  i \in DOMAIN file[g] /\ Proper(t, g, i) /\ file'[g][i] = file[g][i]
    OBVIOUS
  <2>1. CASE g # f
    BY <1>1, <2>1 DEF Proper
  <2>2. CASE g = f
    BY <1>1, <1>2, <2>2 DEF Proper
  <2> QED
    BY <2>1, <2>2
<1> HIDE DEF f, n
<1> QED
  BY <1>3 DEF NoTwins

LEMMA AppendTwins ==
  ASSUME IInv, NEW t \in Threads, Standing(t), NoTwins(t), AppendRecord(t)
  PROVE  NoTwins(t)'
<1> DEFINE f == OpenFile(t)
           n == Len(file[f])
<1>1. /\ f \in Files /\ n \in Nat /\ DOMAIN file[f] = 1 .. n
      /\ \A g \in Files \ {f} : file'[g] = file[g]
      /\ DOMAIN file'[f] = 1 .. n + 1
      /\ \A i \in 1 .. n : file'[f][i] = file[f][i]
      /\ file'[f][n + 1] = op[t].rec
      /\ op[t].rec.id \notin Ids(file[f])
      /\ pc[t] = "append"
  BY AppendSlots
<1>2. ~Copied(t)
  BY <1>1 DEF Copied
<1>3. \A g \in Files : \A i \in DOMAIN file[g] : Proper(t, g, i)
  BY <1>2 DEF Proper
<1>4. \A i \in 1 .. n : file[f][i].id # op[t].rec.id
  BY <1>1 DEF Ids
<1> HIDE DEF f
<1>5. ASSUME NEW g \in Files, NEW i \in DOMAIN file'[g], NEW j \in DOMAIN file'[g],
             file'[g][i].id = file'[g][j].id
      PROVE  i = j
  <2>1. CASE g # f
    BY <1>1, <1>3, <1>5, <2>1 DEF NoTwins
  <2>2. CASE g = f
    <3>1. PICK k \in Nat : k = n
      BY <1>1
    <3>2. i \in 1 .. k + 1 /\ j \in 1 .. k + 1
      BY <1>1, <1>5, <2>2, <3>1
    <3>3. CASE i # k + 1 /\ j # k + 1
      <4>1. i \in 1 .. k /\ j \in 1 .. k
        BY <3>2, <3>3
      <4>2. file[f][i].id = file[f][j].id
        BY <1>1, <1>5, <2>2, <3>1, <4>1
      <4> QED
        BY <1>1, <1>3, <3>1, <4>1, <4>2 DEF NoTwins
    <3>4. CASE i = k + 1 /\ j # k + 1
      <4>1. j \in 1 .. k
        BY <3>2, <3>4
      <4> QED
        BY <1>1, <1>4, <1>5, <2>2, <3>1, <3>4, <4>1
    <3>5. CASE i # k + 1 /\ j = k + 1
      <4>1. i \in 1 .. k
        BY <3>2, <3>5
      <4> QED
        BY <1>1, <1>4, <1>5, <2>2, <3>1, <3>5, <4>1
    <3>6. CASE i = k + 1 /\ j = k + 1
      BY <3>6
    <3> QED
      BY <3>3, <3>4, <3>5, <3>6
  <2> QED
    BY <2>1, <2>2
<1> QED
  BY <1>5 DEF NoTwins

LEMMA StepTwins ==
  ASSUME IInv, NEW t \in Threads, Standing(t), NoTwins(t), Step(t)
  PROVE  NoTwins(t)'
<1>1. CASE Overwrite(t)
  <2>1. /\ \A f \in Files : DOMAIN file'[f] = DOMAIN file[f]
        /\ \A f \in Files : \A i \in DOMAIN file[f] : file'[f][i].id = file[f][i].id
        /\ pc[t] = "write"
    <3> SUFFICES ASSUME NEW f \in Files
                 PROVE  /\ DOMAIN file'[f] = DOMAIN file[f]
                        /\ \A i \in DOMAIN file[f] : file'[f][i].id = file[f][i].id
      BY <1>1 DEF Overwrite, Goto
    <3> QED
      BY <1>1, OverwriteSlots
  <2>2. ~Copied(t)
    BY <2>1 DEF Copied
  <2>3. \A f \in Files : \A i \in DOMAIN file[f] : Proper(t, f, i)
    BY <2>2 DEF Proper
  <2> QED
    BY <2>1, <2>3 DEF NoTwins
<1>2. CASE ~(Overwrite(t) \/ ShiftWrite(t) \/ Truncate(t) \/ AppendRecord(t))
  <2>1. /\ file' = file
        /\ \A f \in Files : \A i : Proper(t, f, i)' <=> Proper(t, f, i)
    BY <1>2, SpareStays
  <2> QED
    BY <2>1 DEF NoTwins
<1> QED
  BY <1>1, <1>2, ShiftWriteTwins, TruncateTwins, AppendTwins

\* NoDoubles, by position.
LEMMA StartsDistinct ==
  ASSUME NoDoubles, NEW s \in InitFiles, NEW f \in Files,
         NEW i \in DOMAIN s[f], NEW j \in DOMAIN s[f], s[f][i].id = s[f][j].id
  PROVE  i = j
<1> DEFINE q == s[f]
           g == [k \in DOMAIN q |-> q[k].id]
           n == Len(q)
<1>1. q \in Seq(RecOf(f)) /\ n \in Nat /\ DOMAIN q = 1 .. n /\ n = Cardinality(Ids(q))
  <2>1. q \in Seq(RecOf(f))
    BY InitFilesAssumption
  <2>2. n = Cardinality(Ids(q))
    BY DEF NoDoubles
  <2> QED
    BY <2>1, <2>2
<1>2. Ids(q) = {g[k] : k \in DOMAIN q}
  BY DEF Ids
<1>3. g \in Surjection(1 .. n, Ids(q))
  BY <1>1, <1>2 DEF Surjection
<1>4. IsFiniteSet(1 .. n) /\ Cardinality(1 .. n) = n
  <2> HIDE DEF n
  <2>1. 1 \in Int /\ n \in Int
    BY <1>1
  <2>2. IsFiniteSet(1 .. n) /\ Cardinality(1 .. n) = IF 1 > n THEN 0 ELSE n - 1 + 1
    BY <2>1, FS_Interval
  <2> QED
    BY <1>1, <2>2
<1>5. g \in Injection(1 .. n, Ids(q))
  <2> HIDE DEF g
  <2>1. IsFiniteSet(Ids(q)) /\ Cardinality(1 .. n) = Cardinality(Ids(q))
    BY <1>1, <1>3, <1>4, FS_Surjection
  <2> HIDE DEF n, q
  <2> QED
    BY <1>3, <1>4, <2>1, FS_SurjSameCardinalityImpliesInj
<1>6. g[i] = g[j] /\ i \in 1 .. n /\ j \in 1 .. n
  BY <1>1
<1> HIDE DEF g, n
<1> QED
  BY <1>5, <1>6 DEF Injection, IsInjective

LEMMA InitTwins == ASSUME NoDoubles, Init, NEW t \in Threads PROVE NoTwins(t)
<1> SUFFICES ASSUME NEW f \in Files, NEW i \in DOMAIN file[f], NEW j \in DOMAIN file[f],
                    file[f][i].id = file[f][j].id
             PROVE  i = j
  BY DEF NoTwins
<1>1. file \in InitFiles
  BY DEF Init
<1> QED
  BY <1>1, StartsDistinct

(***************************************************************************)
(* What is known of the only call there is.                                *)
(***************************************************************************)

LEMMA OneSame ==
  ASSUME OneInv, UNCHANGED <<file, pc, local>>, NEW t \in Threads
  PROVE  Standing(t)' /\ NoTwins(t)' /\ Current(t)'
<1>1. /\ OpenFile(t)' = OpenFile(t) /\ Contents(t)' = Contents(t)
      /\ SpareSlot(t)' = SpareSlot(t) /\ (Copied(t)' <=> Copied(t))
  BY DEF local, OpenFile, Contents, SpareSlot, Copied
<1>2. Standing(t)'
  <2>1. Standing(t)
    BY DEF OneInv
  <2> QED
    BY <1>1, <2>1 DEF local, Standing, AtTarget, SpareIsNext, Spare
<1>3. NoTwins(t)'
  BY <1>1 DEF OneInv, NoTwins, Proper
<1>4. Current(t)'
  BY <1>1 DEF OneInv, Current, local
<1> QED
  BY <1>2, <1>3, <1>4

\* Between two calls no file has a spare copy.
LEMMA AllProper ==
  ASSUME NEW t \in Threads, NoTwins(t), pc[t] \notin {"shift", "shiftw", "seekend", "trunc"}
  PROVE  \A f \in Files : \A i, j \in DOMAIN file[f] :
           file[f][i].id = file[f][j].id => i = j
<1>1. ~Copied(t)
  BY DEF Copied
<1> QED
  BY <1>1 DEF NoTwins, Proper

LEMMA OneStep ==
  ASSUME OneInv, NEW t \in Threads, Step(t), UNCHANGED svars
  PROVE  Standing(t)' /\ NoTwins(t)' /\ Current(t)' /\ Still(t)'
<1>1. /\ TypeInv /\ IInv /\ Standing(t) /\ NoTwins(t) /\ Current(t) /\ Still(t)
      /\ ThreadsOK /\ Control(t) /\ op'[t].fn = op[t].fn
  BY ScanSameFile, LaterSteps DEF OneInv, IInv, TypeInv, TypeOK
<1>2. Standing(t)' /\ NoTwins(t)'
  BY <1>1, StepAlone, StepTwins DEF Standing
<1>3. Still(t)'
  BY <1>1, StepIsCalling DEF Still, svars
<1>4. ASSUME op[t].fn \in Gets
      PROVE  ~(Overwrite(t) \/ ShiftWrite(t) \/ ShiftRead(t) \/ Truncate(t)
               \/ AppendRecord(t))
  BY <1>1, <1>4
     DEF Overwrite, ShiftWrite, ShiftRead, Truncate, AppendRecord, Goto, Control,
         AppendPCs, Shifting, Gets, Updates, Deletes, Creates
<1>5. ASSUME op[t].fn \in Gets PROVE file' = file /\ OpenFile(t)' = OpenFile(t)
  <2>1. file' = file
    BY <1>1, <1>4, <1>5, OnlyWrites
  <2>2. OpenFile(t)' = OpenFile(t)
    BY <1>1, <1>5 DEF OpenFile, FileAt, Gets
  <2> QED
    BY <2>1, <2>2
<1>6. Current(t)'
  <2> SUFFICES ASSUME op[t].fn \in Gets, iter'[t] # NoRec,
                      NEW i \in DOMAIN Contents(t), Contents(t)[i].id = iter'[t].id
               PROVE  Contents(t)[i] = iter'[t]
    BY <1>1, <1>5 DEF Current, Contents
  <2>1. CASE ReadHit(t)
    <3>1. /\ pc[t] = "scan" /\ iter'[t] = Contents(t)[cur[t] + 1]
          /\ cur[t] < Len(Contents(t))
      BY <1>1, <2>1 DEF ReadHit, Goto, ThreadsOK
    <3>2. /\ OpenFile(t) \in Files /\ cur[t] + 1 \in DOMAIN Contents(t)
      <4>1. cur[t] \in Nat
        BY <1>1, <3>1 DEF Control, ThreadsOK
      <4>2. OpenFile(t) \in Files /\ Contents(t) \in Seq(RecOf(OpenFile(t)))
        BY <1>1, Located DEF TypeInv, TypeOK, FilesOK, Contents
      <4> QED
        BY <3>1, <4>1, <4>2
    <3>3. i = cur[t] + 1
      BY <1>1, <3>1, <3>2, AllProper DEF Contents
    <3> QED
      BY <3>1, <3>3
  <2>2. CASE ~ReadHit(t)
    <3>1. iter'[t] = iter[t]
      <4>1. CASE Close(t)
        BY <1>1, <4>1 DEF Close
      <4>2. CASE ~Close(t)
        BY <1>4, <2>2, <4>2
           DEF Step, BeginScan, ReadMiss, ReadInto, ReadEOF, EndScan, LockRecord,
               OverwriteFails, LockTail, ShiftWriteFails,
               ShiftEOF, SeekLast, EndWrite, NewId, OpenForAppend, LockEnd,
               AppendFails, UnlockEnd, SeekSize, OpenFails, local
      <4> QED
        BY <4>1, <4>2
    <3> QED
      BY <1>1, <3>1 DEF Current
  <2> QED
    BY <2>1, <2>2
<1> QED
  BY <1>2, <1>3, <1>6

LEMMA OneCall ==
  ASSUME OneInv, NEW t \in Threads, ServerCall(t)
  PROVE  /\ Standing(t)' /\ NoTwins(t)' /\ Current(t)' /\ Still(t)'
         /\ pc[t] \in {"idle", "done"} /\ pc'[t] \in {"lock", "newid", "size"}
         /\ iter'[t] = NoRec
<1>1. SInv /\ TypeInv /\ NoTwins(t) /\ ServerTypeOK
  BY DEF OneInv, SInv
<1>2. PICK o : OpOk(o) /\ Invoke(t, o)
  BY <1>1, <1>1, ServerCalls DEF Calls
<1>3. /\ iter'[t] = NoRec /\ pc'[t] = FirstCall(o.fn) /\ UNCHANGED file
  BY <1>1, <1>2, CallBegins
<1>4. pc[t] \in {"idle", "done"} /\ pc'[t] \in {"lock", "newid", "size"}
  BY <1>2, <1>3 DEF Invoke, FirstCall
<1>5. Standing(t)'
  BY <1>4 DEF Standing, AtTarget, SpareIsNext
<1>6. NoTwins(t)'
  <2>1. \A f \in Files : \A i, j \in DOMAIN file[f] :
           file[f][i].id = file[f][j].id => i = j
    BY <1>1, <1>4, AllProper
  <2> QED
    BY <1>3, <2>1 DEF NoTwins
<1>7. Current(t)'
  BY <1>3 DEF Current
<1>8. Still(t)'
  BY <1>1
     DEF Still, ServerTypeOK, ServerCall, FindLogin, FindUser, FindAccount,
         StoreBalance, LogTransaction, ChangePassword, ModifyUser, CreateJointUser,
         CreateAccount, CreateUser, Delete, Count, CountTransactions, Announce,
         Await, LastCall
<1> QED
  BY <1>3, <1>4, <1>5, <1>6, <1>7, <1>8

LEMMA OneReply ==
  ASSUME OneInv, NEW t \in Threads, ServerReply(t)
  PROVE  /\ Standing(t)' /\ NoTwins(t)' /\ Current(t)' /\ Still(t)'
         /\ UNCHANGED vars /\ ~Calling(t)
<1>1. SInv /\ UNCHANGED vars /\ Still(t)
  BY ReplyKeepsServer DEF OneInv
<1>2. Standing(t)' /\ NoTwins(t)' /\ Current(t)'
  BY <1>1, OneSame DEF vars, disk
<1>3. ~Calling(t)
  BY <1>1
     DEF ServerReply, Still, Calling, Request, Leave, RejectLogin, OpenSession, Logout,
         Refuse, Finish, AnswerAccount, StoreFails, CountFails, SendItems, Returned
<1>4. Still(t)'
  BY <1>1, <1>3 DEF Still, Calling, vars
<1> QED
  BY <1>1, <1>2, <1>3, <1>4

\* Without restarts nothing stops a server, and it starts once.
LEMMA NeverStops == ASSUME NoRestarts, TypeInv, NEW p \in Procs PROVE ~Stop(p)
<1>1. crashes \in Nat
  BY DEF TypeInv, TypeOK
<1> QED
  BY <1>1 DEF Stop, Crash, NoRestarts

LEMMA OneNext ==
  ASSUME OneClient, NoRestarts, OneInv, [ServerNext]_allvars PROVE OneInv'
<1>1. SInv' /\ IInv' /\ TypeInv
  BY ServerNextTypes, ServerNextIds DEF OneInv, SInv
<1>2. \A t, u \in Threads : t = u
  BY DEF OneClient
<1> SUFFICES ASSUME NEW t \in Threads
             PROVE  Standing(t)' /\ NoTwins(t)' /\ Current(t)' /\ Still(t)'
  BY <1>1 DEF OneInv
<1>3. ASSUME UNCHANGED <<file, pc, local, at>>
      PROVE  Standing(t)' /\ NoTwins(t)' /\ Current(t)' /\ Still(t)'
  <2>1. Still(t)'
    BY <1>3 DEF OneInv, Still, Calling
  <2> QED
    BY <1>3, <2>1, OneSame
<1>4. ASSUME NEW u \in Threads,
             ServerCall(u) \/ ServerReply(u) \/ (Step(u) /\ UNCHANGED svars)
      PROVE  Standing(t)' /\ NoTwins(t)' /\ Current(t)' /\ Still(t)'
  <2>1. u = t
    BY <1>2
  <2>2. ServerCall(t) \/ ServerReply(t) \/ (Step(t) /\ UNCHANGED svars)
    BY <1>4, <2>1
  <2> QED
    BY <2>2, OneStep, OneCall, OneReply
<1>5. ASSUME NEW p \in Procs, Start(p) \/ Stop(p)
      PROVE  Standing(t)' /\ NoTwins(t)' /\ Current(t)' /\ Still(t)'
  BY <1>1, <1>3, <1>5, NeverStops DEF Start, InitCounter, svars
<1>6. CASE UNCHANGED allvars
  BY <1>3, <1>6 DEF allvars, vars, svars, disk
<1> QED
  BY <1>4, <1>5, <1>6, ServerSteps

LEMMA OneStarts == ASSUME OneClient, NoDoubles, ServerInit PROVE OneInv
<1>1. SInv /\ Init
  BY ServerInitTypes DEF ServerInit
<1>2. SingleProcess
  BY DEF OneClient, SingleProcess
<1>3. IInv
  BY <1>1, <1>2, InitIds
<1>4. ASSUME NEW t \in Threads
      PROVE  Standing(t) /\ NoTwins(t) /\ Current(t) /\ Still(t)
  <2>1. pc[t] = "idle" /\ iter[t] = NoRec
    BY <1>1 DEF Init
  <2>2. Standing(t) /\ NoTwins(t)
    BY <1>1, <2>1, InitTwins, NothingKnown
  <2> QED
    BY <2>1, <2>2 DEF Current, Still, Calling
<1> QED
  BY <1>1, <1>3, <1>4 DEF OneInv

(***************************************************************************)
(* The rights of a user.                                                   *)
(***************************************************************************)

LEMMA RightsByStep ==
  ASSUME OneInv, NEW t \in Threads, RightsOf(t), Step(t), UNCHANGED svars
  PROVE  RightsOf(t)'
<1>1. /\ TypeInv /\ ThreadsOK /\ Control(t) /\ IInv /\ Standing(t) /\ Calling(t)
      /\ op'[t].fn = op[t].fn /\ req' = req
  BY StepIsCalling, ScanSameFile, LaterSteps
     DEF OneInv, IInv, TypeInv, TypeOK, svars
<1> SUFFICES ASSUME op[t].fn = "update_user"
             PROVE  /\ op'[t].rec.id = op[t].rec.id
                    /\ op'[t].rec.info = op[t].rec.info
                    /\ pc'[t] \in {"lock", "scan", "unlock", "wlock", "write"} =>
                         /\ pc[t] \in {"lock", "scan", "unlock", "wlock", "write"}
                         /\ file' = file
  BY <1>1 DEF RightsOf
<1>2. /\ op'[t].rec.id = op[t].rec.id
      /\ op'[t].rec.info = op[t].rec.info
  <2>1. CASE LockRecord(t)
    <3>1. op'[t] = WithRec(op[t], KeepNames(op[t].rec, iter[t])) /\ DOMAIN op = Threads
      BY <1>1, <2>1 DEF LockRecord, ThreadsOK
    <3>2. op'[t].rec = KeepNames(op[t].rec, iter[t])
      BY <3>1 DEF WithRec
    <3> QED
      BY <3>2 DEF KeepNames
  <2>2. CASE NewId(t)
    BY <1>1, <2>2 DEF NewId, Goto, Control, AppendPCs, Creates
  <2>3. CASE ~LockRecord(t) /\ ~NewId(t)
    <3>1. op' = op
      BY <2>3
         DEF Step, BeginScan, ReadHit, ReadMiss, ReadInto, ReadEOF, EndScan,
             Overwrite, OverwriteFails, LockTail, ShiftRead, ShiftWrite,
             ShiftWriteFails, ShiftEOF, SeekLast, Truncate, EndWrite,
             OpenForAppend, LockEnd, AppendRecord, AppendFails, UnlockEnd,
             SeekSize, Close, OpenFails, local
    <3> QED
      BY <3>1
  <2> QED
    BY <2>1, <2>2, <2>3
<1>3. ASSUME pc'[t] \in {"lock", "scan", "unlock", "wlock", "write"}
      PROVE  /\ pc[t] \in {"lock", "scan", "unlock", "wlock", "write"}
             /\ file' = file
  <2>1. ~Close(t)
    BY <1>1, <1>3 DEF Close, Goto, ThreadsOK, NextStage, HasNext
  <2>2. ~OpenFails(t)
    BY <1>1, <1>3 DEF OpenFails, ThreadsOK
  <2>3. CASE ReadMiss(t) \/ ReadInto(t)
    BY <2>3 DEF ReadMiss, ReadInto, disk
  <2>4. CASE ~ReadMiss(t) /\ ~ReadInto(t)
    BY <1>1, <1>3, <2>1, <2>2, <2>4
       DEF Step, BeginScan, ReadHit, ReadEOF, EndScan, LockRecord,
           Overwrite, OverwriteFails, LockTail, ShiftRead, ShiftWrite,
           ShiftWriteFails, ShiftEOF, SeekLast, Truncate, EndWrite, NewId,
           OpenForAppend, LockEnd, AppendRecord, AppendFails, UnlockEnd,
           SeekSize, Goto, ThreadsOK, disk
  <2> QED
    BY <2>3, <2>4
<1> QED
  BY <1>2, <1>3

LEMMA PasswordKeepsRights ==
  ASSUME NEW u \in UserRec, NEW p
  PROVE  /\ PasswordOf(u, p).id = u.id
         /\ PasswordOf(u, p).info.is_admin = u.info.is_admin
<1>1. u.info = [password |-> u.info.password, is_admin |-> u.info.is_admin]
  BY InfosAssumption DEF UserRec
<1>2. PasswordOf(u, p) = [u EXCEPT !.info = [u.info EXCEPT !.password = p]]
  BY DEF PasswordOf
<1>3. [u.info EXCEPT !.password = p].is_admin = u.info.is_admin
  BY <1>1
<1> QED
  BY <1>2, <1>3 DEF UserRec

LEMMA RightsByCall ==
  ASSUME OneInv, NEW t \in Threads, ServerCall(t) PROVE RightsOf(t)'
<1>1. SInv /\ Current(t) /\ ServerTypeOK /\ Waiting(t)
  BY DEF OneInv, SInv
<1>2. PICK o : OpOk(o) /\ Invoke(t, o)
  BY <1>1, ServerCalls DEF Calls
<1>3. op'[t] = o /\ file' = file
  BY <1>1, <1>2, CallBegins
<1> SUFFICES ASSUME op'[t].fn = "update_user" PROVE RightsOf(t)'
  BY DEF RightsOf
<1>4. ChangePassword(t) \/ ModifyUser(t)
  <2>1. ASSUME NEW q, Invoke(t, q) PROVE op'[t] = q
    BY <1>1, <2>1 DEF Invoke, Begin, SInv, TypeInv, TypeOK, ThreadsOK
  <2>2. ASSUME NEW fn, NEW r, NEW n, Invoke(t, On(fn, r, n)) PROVE fn = "update_user"
    BY <2>1, <2>2 DEF On
  <2>3. ~(FindLogin(t) \/ FindUser(t) \/ FindAccount(t) \/ StoreBalance(t) \/ CreateAccount(t))
    BY <2>2 DEF FindLogin, FindUser, FindAccount, StoreBalance, CreateAccount
  <2>4. ~(LogTransaction(t) \/ CreateJointUser(t) \/ CreateUser(t) \/ Delete(t))
    BY <2>2 DEF LogTransaction, CreateJointUser, CreateUser, Delete, LastCall
  <2>5. ~(Count(t) \/ CountTransactions(t))
    BY <2>2 DEF Count, CountTransactions
  <2>6. ~Announce(t)
    <3>1. at[t] = "count" => Listing(req[t].action) # "update_user"
      BY <1>1 DEF Waiting, Listed, Listing
    <3> QED
      BY <2>2, <3>1 DEF Announce, Returned
  <2> QED
    BY <2>3, <2>4, <2>5, <2>6 DEF ServerCall
<1>5. CASE ModifyUser(t)
  <2>1. /\ req' = req /\ req[t].action = "ModifyUser"
        /\ op'[t] = On("update_user", [AUser(req[t].uid) EXCEPT !.info = req[t].info], 0)
    BY <1>1, <1>5 DEF ModifyUser, Permitted, LastCall, Invoke, Begin, SInv, TypeInv, TypeOK, ThreadsOK
  <2>2. RequestOk(req[t])
    BY <1>1, <2>1, RequestType
  <2>3. req[t].uid \in Nat /\ req[t].info \in Infos
    BY <2>1, <2>2 DEF RequestOk
  <2>4. op'[t].rec.id = req[t].uid
    <3> DEFINE r == [AUser(req[t].uid) EXCEPT !.info = req[t].info]
    <3>1. r.id = req[t].uid
      BY <2>3, StructTypes
    <3>2. op'[t] = On("update_user", r, 0)
      BY <2>1
    <3> HIDE DEF r
    <3> QED
      BY <3>1, <3>2 DEF On
  <2> QED
    BY <2>1, <2>4 DEF RightsOf
<1>6. CASE ChangePassword(t)
  <2>1. /\ req' = req /\ req[t].action = "PasswordChange"
        /\ op'[t] = On("update_user", PasswordOf(iter[t], req[t].password), 0)
        /\ pc[t] = "done" /\ ret[t] >= 0 /\ at[t] = "user"
    BY <1>1, <1>6 DEF ChangePassword, Permitted, Returned, LastCall, Invoke, Begin, SInv, TypeInv,
                      TypeOK, ThreadsOK
  <2>2. op[t].fn = "get_user_from_id"
    BY <1>1, <2>1 DEF Waiting
  <2>3. iter[t] \in UserRec /\ iter[t] # NoRec
    <3>1. iter[t] \in UserRec
      BY <1>1, <2>1, <2>2, FoundType, Tables DEF Gets
    <3>2. "user" \in Files /\ RecOf("user") = UserRec
      BY DEF Files, RecOf
    <3>3. NoRec \notin RecOf("user")
      BY <3>2, NoRecAssumption
    <3> QED
      BY <3>1, <3>2, <3>3
  <2>4. Contents(t) = file["user"]
    BY <2>2 DEF Contents, OpenFile, FileAt, TableOf, UserFns
  <2>5. \A i \in DOMAIN file["user"] :
           file["user"][i].id = iter[t].id => file["user"][i] = iter[t]
    BY <1>1, <2>2, <2>3, <2>4 DEF Current, Gets
  <2>6. /\ op'[t].rec.id = iter[t].id
        /\ op'[t].rec.info.is_admin = iter[t].info.is_admin
    BY <2>1, <2>3, PasswordKeepsRights DEF On
  <2> QED
    BY <1>3, <2>1, <2>5, <2>6 DEF RightsOf
<1> QED
  BY <1>4, <1>5, <1>6

LEMMA RightsNext ==
  ASSUME OneClient, NoRestarts, RightsInv, [ServerNext]_allvars PROVE RightsInv'
<1>1. OneInv /\ OneInv' /\ TypeInv
  BY OneNext DEF RightsInv, OneInv, SInv
<1>2. \A t, u \in Threads : t = u
  BY DEF OneClient
<1> SUFFICES ASSUME NEW t \in Threads PROVE RightsOf(t)'
  BY <1>1 DEF RightsInv
<1>3. ASSUME UNCHANGED <<file, pc, op, req>> PROVE RightsOf(t)'
  BY <1>3 DEF RightsInv, RightsOf, Calling
<1>4. ASSUME NEW u \in Threads,
             ServerCall(u) \/ ServerReply(u) \/ (Step(u) /\ UNCHANGED svars)
      PROVE  RightsOf(t)'
  <2>1. u = t
    BY <1>2
  <2>2. CASE ServerReply(t)
    <3>1. ~Calling(t) /\ UNCHANGED vars
      BY <1>1, <2>2, OneReply
    <3> QED
      BY <3>1 DEF RightsOf, Calling, vars
  <2> QED
    BY <1>1, <1>4, <2>1, <2>2, RightsByStep, RightsByCall DEF RightsInv
<1>5. ASSUME NEW p \in Procs, Start(p) \/ Stop(p) PROVE RightsOf(t)'
  BY <1>1, <1>3, <1>5, NeverStops DEF Start, InitCounter, svars, local
<1>6. CASE UNCHANGED allvars
  BY <1>3, <1>6 DEF allvars, vars, svars, disk, local
<1> QED
  BY <1>4, <1>5, <1>6, ServerSteps

\* What is copied down has another id than the record it is written over.
LEMMA ShiftWritesOver ==
  ASSUME OneInv, NEW t \in Threads, ShiftWrite(t)
  PROVE  LET s == Contents(t) IN s[cur[t]].id # s[cur[t] - 1].id
<1> DEFINE f == OpenFile(t)
           s == file[f]
           c == cur[t]
<1>1. /\ f \in Files /\ c \in Int /\ c \in DOMAIN s /\ c - 1 \in DOMAIN s
      /\ c - 1 # from[t] => /\ c - 2 \in DOMAIN s
                            /\ s[c - 2].id = s[c - 1].id
      /\ pc[t] = "shiftw"
  BY ShiftWriteSlots DEF OneInv
<1>2. SpareSlot(t) = c - 1 /\ (Copied(t) <=> c - 1 # from[t])
  BY <1>1 DEF SpareSlot, Copied
<1>3. \A i \in DOMAIN s : i # c - 1 \/ c - 1 = from[t] => Proper(t, f, i)
  BY <1>2 DEF Proper
<1>4. \A i, j \in DOMAIN s : Proper(t, f, i) /\ Proper(t, f, j) /\ s[i].id = s[j].id => i = j
  BY <1>1 DEF OneInv, NoTwins
<1> HIDE DEF f, s, c
<1>5. SUFFICES ASSUME s[c].id = s[c - 1].id PROVE FALSE
  BY DEF f, s, c, Contents
<1>6. Proper(t, f, c) /\ c # c - 1 /\ c # c - 2 /\ c - 2 # c - 1
  BY <1>1, <1>3
<1>7. CASE c - 1 = from[t]
  BY <1>1, <1>3, <1>4, <1>5, <1>6, <1>7
<1>8. CASE c - 1 # from[t]
  BY <1>1, <1>3, <1>4, <1>5, <1>6, <1>8
<1> QED
  BY <1>7, <1>8

\* The one step that can change the rights of a user.
RightsStep ==
  \A i \in DOMAIN file["user"] \cap DOMAIN file'["user"] :
    LET a == file["user"][i]
        b == file'["user"][i]
    IN a.id = b.id /\ a.info.is_admin # b.info.is_admin =>
         \E t \in Threads : req[t].action = "ModifyUser" /\ at[t] = "last"
                            /\ req[t].uid = a.id

LEMMA StepKeepsRights ==
  ASSUME RightsInv, NEW t \in Threads, Step(t) PROVE RightsStep
<1> SUFFICES ASSUME NEW i \in DOMAIN file["user"], i \in DOMAIN file'["user"],
                    file["user"][i].id = file'["user"][i].id,
                    file["user"][i].info.is_admin # file'["user"][i].info.is_admin
             PROVE  req[t].action = "ModifyUser" /\ at[t] = "last"
                    /\ req[t].uid = file["user"][i].id
  BY DEF RightsStep
<1>1. /\ OneInv /\ IInv /\ Standing(t) /\ SInv /\ ServerTypeOK /\ Waiting(t) /\ Still(t) /\ RightsOf(t)
      /\ Calling(t) /\ "user" \in Files /\ file'["user"] # file["user"]
  BY StepIsCalling DEF RightsInv, OneInv, SInv, Files
<1>2. CASE Overwrite(t)
  <2>1. OpenFile(t) = "user"
    BY <1>1, <1>2, OverwriteSlots
  <2> DEFINE g == file'["user"][i]
  <2>0. /\ g = IF i = cur[t] THEN op[t].rec ELSE file["user"][i]
        /\ file["user"][cur[t]].id = op[t].rec.id
        /\ pc[t] = "write" /\ op[t].fn \in Updates /\ OpenFile(t) = TableOf(op[t].fn)
    BY <1>1, <1>2, <2>1, OverwriteSlots
  <2>6. i = cur[t]
    <3> HIDE DEF g
    <3> QED
      BY <2>0 DEF g
  <2>2. /\ file["user"][i].id = op[t].rec.id
        /\ file'["user"][i] = op[t].rec
        /\ pc[t] = "write" /\ op[t].fn \in Updates /\ TableOf(op[t].fn) = "user"
    BY <2>0, <2>1, <2>6
  <2>3. op[t].fn = "update_user"
    BY <2>2 DEF Updates, TableOf, UserFns
  <2>4. req[t].action = "ModifyUser" /\ req[t].uid = op[t].rec.id
    BY <1>1, <2>2, <2>3 DEF RightsOf
  <2>5. at[t] = "last"
    BY <1>1, <2>3 DEF Waiting, Still, Listed, Listing, ServerTypeOK, Places
  <2> QED
    BY <2>2, <2>4, <2>5
<1>3. CASE ShiftWrite(t)
  <2>1. OpenFile(t) = "user"
    BY <1>1, <1>3, ShiftWriteSlots
  <2>2. /\ cur[t] - 1 = i /\ file'["user"][i] = file["user"][cur[t]]
    BY <1>1, <1>3, <2>1, ShiftWriteSlots
  <2> QED
    BY <1>1, <1>3, <2>1, <2>2, ShiftWritesOver DEF Contents
<1>4. CASE Truncate(t)
  BY <1>1, <1>4, TruncateSlots
<1>5. CASE AppendRecord(t)
  BY <1>1, <1>5, AppendSlots
<1>6. CASE ~(Overwrite(t) \/ ShiftWrite(t) \/ Truncate(t) \/ AppendRecord(t))
  BY <1>1, <1>6, OnlyWrites DEF IInv
<1> QED
  BY <1>2, <1>3, <1>4, <1>5, <1>6

\* A change of the password, which writes back the whole record it has read
\* some calls before, neither gives nor takes the rights of an administrator:
\* with one request at a time nobody has changed them in between.
THEOREM RightsAreChangedOnRequest ==
  OneClient /\ NoRestarts /\ NoDoubles /\ ServerSpec => RightsAreModified
<1>1. OneClient /\ NoDoubles /\ ServerInit => RightsInv
  <2> SUFFICES ASSUME OneClient, NoDoubles, ServerInit PROVE RightsInv
    OBVIOUS
  <2>1. OneInv
    BY OneStarts
  <2>2. \A t \in Threads : pc[t] = "idle"
    BY DEF ServerInit, Init
  <2> QED
    BY <2>1, <2>2 DEF RightsInv, RightsOf, Calling
<1>2. OneClient /\ NoRestarts => OneClient' /\ NoRestarts'
  BY DEF OneClient, NoRestarts
<1>3. OneClient /\ NoRestarts /\ RightsInv /\ [ServerNext]_allvars => RightsInv'
  BY RightsNext
<1>4. NoRestarts /\ RightsInv /\ [ServerNext]_allvars => [RightsStep]_allvars
  <2> SUFFICES ASSUME NoRestarts, RightsInv, [ServerNext]_allvars PROVE RightsStep
    OBVIOUS
  <2>1. TypeInv /\ SInv /\ OneInv
    BY DEF RightsInv, OneInv, SInv
  <2>2. ASSUME file' = file PROVE RightsStep
    BY <2>2 DEF RightsStep
  <2>3. ASSUME NEW t \in Threads, ServerCall(t) PROVE file' = file
    BY <2>1, <2>3, ServerCalls, CallBegins DEF Calls
  <2>4. ASSUME NEW t \in Threads, ServerReply(t) PROVE file' = file
    BY <2>1, <2>4, ReplyKeepsServer DEF vars, disk
  <2>5. ASSUME NEW p \in Procs, Start(p) \/ Stop(p) PROVE file' = file
    BY <2>5 DEF Start, Stop, InitCounter, Crash
  <2>6. ASSUME UNCHANGED allvars PROVE file' = file
    BY <2>6 DEF allvars, vars, disk
  <2> QED
    BY <2>2, <2>3, <2>4, <2>5, <2>6, StepKeepsRights, ServerSteps
<1>5. RightsAreModified <=> [][RightsStep]_allvars
  BY DEF RightsAreModified, RightsStep
<1> HIDE DEF OneClient, NoRestarts, NoDoubles, RightsInv, RightsStep, RightsAreModified
<1> QED
  BY <1>1, <1>2, <1>3, <1>4, <1>5, PTL DEF ServerSpec

(***************************************************************************)
(* What a journal adds up to.                                              *)
(***************************************************************************)

\* The recursion is one.
LEMMA BookedDef ==
  ASSUME NEW s, Len(s) \in Nat, NEW a
  PROVE  BookedIn(s, a) =
           [n \in 0 .. Len(s) |->
              IF n = 0 THEN 0
              ELSE BookedIn(s, a)[n - 1]
                   + (IF s[n].aid = a THEN s[n].new - s[n].old ELSE 0)]
<1> DEFINE E(n) == IF s[n].aid = a THEN s[n].new - s[n].old ELSE 0
           Of(h, k) == [n \in 0 .. k |-> IF n = 0 THEN 0 ELSE h[n - 1] + E(n)]
           T == {k \in Nat : \E h : h = Of(h, k)}
<1> HIDE DEF E
<1>1. 0 \in T
  <2> DEFINE h == [n \in 0 .. 0 |-> 0]
  <2>1. h = Of(h, 0)
    OBVIOUS
  <2> HIDE DEF h
  <2> QED
    BY <2>1
<1>2. ASSUME NEW k \in Nat, k \in T PROVE k + 1 \in T
  <2>1. PICK g : g = Of(g, k)
    BY <1>2
  <2> DEFINE last == g[k] + E(k + 1)
             h    == [n \in 0 .. k + 1 |-> IF n = k + 1 THEN last ELSE g[n]]
  <2>2. h[k + 1] = last /\ \A n \in 0 .. k : h[n] = g[n]
    OBVIOUS
  <2>3. \A n \in 0 .. k : g[n] = Of(g, k)[n]
    BY <2>1
  <2>4. \A n \in 0 .. k + 1 : h[n] = Of(h, k + 1)[n]
    <3> TAKE n \in 0 .. k + 1
    <3>1. CASE n = k + 1
      <4>1. h[n] = last /\ h[n - 1] = g[k] /\ n # 0
        BY <2>2, <3>1
      <4> HIDE DEF h
      <4> QED
        BY <3>1, <4>1
    <3>2. CASE n # k + 1
      <4>1. n \in 0 .. k /\ h[n] = g[n] /\ (n # 0 => h[n - 1] = g[n - 1])
        BY <2>2, <3>2
      <4> HIDE DEF h
      <4> QED
        BY <2>3, <4>1
    <3> QED
      BY <3>1, <3>2
  <2>5. h = [n \in 0 .. k + 1 |-> h[n]]
    OBVIOUS
  <2>6. h = Of(h, k + 1)
    <3> HIDE DEF h
    <3> QED
      BY <2>4, <2>5
  <2> HIDE DEF h
  <2> QED
    BY <2>6
<1> HIDE DEF T
<1>3. \A k \in Nat : k \in T
  BY <1>1, <1>2, AllNumbers
<1>4. \E h : h = Of(h, Len(s))
  BY <1>3 DEF T
<1>5. \E h : h = [n \in 0 .. Len(s) |->
                    IF n = 0 THEN 0
                    ELSE h[n - 1] + (IF s[n].aid = a THEN s[n].new - s[n].old ELSE 0)]
  BY <1>4 DEF E
<1> QED
  BY <1>5 DEF BookedIn

\* The sums of a journal, one entry at a time.
LEMMA BookedType ==
  ASSUME NEW s \in Seq(TransRec), NEW a
  PROVE  /\ \A n \in 0 .. Len(s) : BookedIn(s, a)[n] \in Int
         /\ BookedIn(s, a)[0] = 0
         /\ \A n \in 1 .. Len(s) :
              BookedIn(s, a)[n] = BookedIn(s, a)[n - 1]
                                  + (IF s[n].aid = a THEN s[n].new - s[n].old ELSE 0)
<1> DEFINE h == BookedIn(s, a)
           E(n) == IF s[n].aid = a THEN s[n].new - s[n].old ELSE 0
<1>1. Len(s) \in Nat
  OBVIOUS
<1>2. h = [n \in 0 .. Len(s) |-> IF n = 0 THEN 0 ELSE h[n - 1] + E(n)]
  BY <1>1, BookedDef
<1>3. \A n \in 1 .. Len(s) : E(n) \in Int
  <2> SUFFICES ASSUME NEW n \in 1 .. Len(s) PROVE E(n) \in Int
    OBVIOUS
  <2>1. s[n] \in TransRec
    OBVIOUS
  <2>2. s[n].new \in Int /\ s[n].old \in Int
    BY <2>1 DEF TransRec
  <2> QED
    BY <2>2
<1> HIDE DEF h, E
<1>4. h[0] = 0
  BY <1>1, <1>2
<1>5. ASSUME NEW n \in 1 .. Len(s) PROVE h[n] = h[n - 1] + E(n)
  <2>1. n \in 0 .. Len(s) /\ n # 0
    BY <1>1
  <2> QED
    BY <1>2, <2>1
<1> DEFINE T == {n \in Nat : n \in 0 .. Len(s) => h[n] \in Int}
<1>6. 0 \in T
  BY <1>4
<1>7. ASSUME NEW n \in Nat, n \in T PROVE n + 1 \in T
  <2> SUFFICES ASSUME n + 1 \in 0 .. Len(s) PROVE h[n + 1] \in Int
    OBVIOUS
  <2>1. h[n] \in Int /\ E(n + 1) \in Int /\ n + 1 \in 1 .. Len(s) /\ (n + 1) - 1 = n
    BY <1>1, <1>3, <1>7
  <2>2. h[n + 1] = h[n] + E(n + 1)
    BY <1>5, <2>1
  <2> QED
    BY <2>1, <2>2
<1> HIDE DEF T
<1>8. \A n \in Nat : n \in T
  BY <1>6, <1>7, AllNumbers
<1>9. \A n \in 0 .. Len(s) : h[n] \in Int
  BY <1>8 DEF T
<1> QED
  BY <1>4, <1>5, <1>9 DEF h, E

\* One more entry adds its amount to its account and nothing to any other.
LEMMA BookedAppend ==
  ASSUME NEW s \in Seq(TransRec), NEW r \in TransRec, NEW a
  PROVE  BookedIn(Append(s, r), a)[Len(Append(s, r))] =
           BookedIn(s, a)[Len(s)] + (IF r.aid = a THEN r.new - r.old ELSE 0)
<1> DEFINE q == Append(s, r)
           h == BookedIn(s, a)
           g == BookedIn(q, a)
           T == {n \in Nat : n \in 0 .. Len(s) => g[n] = h[n]}
           m == Len(s)
<1>1. /\ q \in Seq(TransRec) /\ Len(s) \in Nat /\ Len(q) = Len(s) + 1
      /\ \A n \in 1 .. Len(s) : q[n] = s[n]
      /\ q[Len(s) + 1] = r
  OBVIOUS
<1> HIDE DEF q
<1>2. /\ h[0] = 0 /\ g[0] = 0
      /\ \A n \in 1 .. Len(s) :
           h[n] = h[n - 1] + (IF s[n].aid = a THEN s[n].new - s[n].old ELSE 0)
      /\ \A n \in 1 .. Len(q) :
           g[n] = g[n - 1] + (IF q[n].aid = a THEN q[n].new - q[n].old ELSE 0)
  BY <1>1, BookedType
<1> HIDE DEF h, g
<1>3. 0 \in T
  BY <1>2
<1>4. ASSUME NEW n \in Nat, n \in T PROVE n + 1 \in T
  <2> SUFFICES ASSUME n + 1 \in 0 .. Len(s) PROVE g[n + 1] = h[n + 1]
    OBVIOUS
  <2>1. /\ n + 1 \in 1 .. Len(s) /\ n + 1 \in 1 .. Len(q) /\ (n + 1) - 1 = n
        /\ g[n] = h[n] /\ q[n + 1] = s[n + 1]
    BY <1>1, <1>4
  <2> QED
    BY <1>2, <2>1
<1> HIDE DEF T
<1>5. \A n \in Nat : n \in T
  BY <1>3, <1>4, AllNumbers
<1>6. g[m] = h[m]
  BY <1>1, <1>5 DEF T
<1>7. m \in Nat /\ Len(q) = m + 1 /\ q[m + 1] = r
  BY <1>1
<1> HIDE DEF m
<1>8. g[m + 1] = g[(m + 1) - 1] + (IF r.aid = a THEN r.new - r.old ELSE 0)
  <2>1. m + 1 \in 1 .. Len(q)
    BY <1>7
  <2> QED
    BY <1>2, <1>7, <2>1
<1>9. (m + 1) - 1 = m
  BY <1>7
<1>10. g[Len(q)] = h[m] + (IF r.aid = a THEN r.new - r.old ELSE 0)
  BY <1>6, <1>7, <1>8, <1>9
<1> QED
  BY <1>10 DEF g, h, q, m

\* An account without an entry has got nothing.
LEMMA BookedNone ==
  ASSUME NEW s \in Seq(TransRec), NEW a, \A r \in Range(s) : r.aid # a
  PROVE  BookedIn(s, a)[Len(s)] = 0
<1> DEFINE h == BookedIn(s, a)
           T == {n \in Nat : n \in 0 .. Len(s) => h[n] = 0}
<1>1. Len(s) \in Nat /\ \A n \in 1 .. Len(s) : s[n].aid # a
  BY DEF Range
<1>2. /\ h[0] = 0
      /\ \A n \in 1 .. Len(s) :
           h[n] = h[n - 1] + (IF s[n].aid = a THEN s[n].new - s[n].old ELSE 0)
  BY BookedType
<1> HIDE DEF h
<1>3. 0 \in T
  BY <1>2
<1>4. ASSUME NEW n \in Nat, n \in T PROVE n + 1 \in T
  <2> SUFFICES ASSUME n + 1 \in 0 .. Len(s) PROVE h[n + 1] = 0
    OBVIOUS
  <2>1. n + 1 \in 1 .. Len(s) /\ (n + 1) - 1 = n /\ h[n] = 0 /\ s[n + 1].aid # a
    BY <1>1, <1>4
  <2>2. h[n + 1] = h[(n + 1) - 1] + 0
    BY <1>2, <2>1
  <2> QED
    BY <2>1, <2>2
<1> HIDE DEF T
<1>5. \A n \in Nat : n \in T
  BY <1>3, <1>4, AllNumbers
<1> QED
  BY <1>1, <1>5 DEF T, h

(***************************************************************************)
(* The books.                                                              *)
(***************************************************************************)

\* At the start the journal accounts for every balance, and has no entry on an
\* account that is still to come.
BooksAreKept ==
  \A s \in InitFiles : \A a \in Range(s["account"]) :
    a.balance = BookedIn(s["trans"], a.id)[Len(s["trans"])]

NoStrayEntries ==
  \A s \in InitFiles : \A r \in Range(s["trans"]) :
    \E a \in Range(s["account"]) : r.aid <= a.id

\* Which controller a call that writes accounts or entries comes from.
LEMMA PlaceOfCall ==
  ASSUME BooksInv, NEW t \in Threads, Calling(t)
  PROVE  /\ op[t].fn = "append_transaction" => at[t] = "last"
         /\ op[t].fn = "update_account" <=> at[t] = "stored"
         /\ Owing(t) => op[t].fn \in {"append_transaction", "update_account"}
<1>1. ServerTypeOK /\ Waiting(t) /\ Still(t) /\ AmountKept(t)
  BY DEF BooksInv, OneInv, SInv
<1> QED
  BY <1>1 DEF Waiting, Still, AmountKept, Owing, Listed, Listing, ServerTypeOK, Places

\* The steps of a transaction up to the write and after it.
LEMMA StoredStep ==
  ASSUME BooksInv, Faults = {}, NEW t \in Threads, Step(t), UNCHANGED svars,
         at[t] = "stored"
  PROVE  /\ op'[t] = op[t]
         /\ Overwrite(t) => ~Owing(t) /\ Owing(t)'
         /\ ~Overwrite(t) => (Owing(t)' <=> Owing(t)) /\ file' = file
         /\ pc'[t] \in {"lock", "scan", "unlock", "wlock", "write", "wunlock", "close", "done"}
         /\ pc'[t] \in {"wlock", "write", "wunlock"} => ret'[t] >= 0
         /\ pc'[t] \in {"lock", "scan", "unlock", "wlock", "write"} =>
              pc[t] \in {"lock", "scan", "unlock", "wlock", "write"} /\ ~Overwrite(t)
<1> USE DEF Goto
<1>1. /\ TypeInv /\ ThreadsOK /\ Control(t) /\ AmountKept(t) /\ Waiting(t) /\ at' = at
      /\ op[t].fn = "update_account"
  BY DEF BooksInv, OneInv, IInv, TypeInv, TypeOK, SInv, svars, Waiting
<1>2. /\ pc[t] \in {"lock", "scan", "unlock", "wlock", "write", "wunlock", "close", "done"}
      /\ pc[t] \in {"wlock", "write", "wunlock"} => ret[t] >= 0
  BY <1>1 DEF AmountKept
<1>3. /\ ~OverwriteFails(t) /\ ~LockTail(t) /\ ~OpenFails(t) /\ ~ReadInto(t)
  BY <1>1 DEF OverwriteFails, LockTail, OpenFails, ReadInto, Deletes, Bulk
<1>4. \/ BeginScan(t) \/ ReadHit(t) \/ ReadMiss(t) \/ ReadEOF(t) \/ EndScan(t)
      \/ LockRecord(t) \/ Overwrite(t) \/ EndWrite(t) \/ Close(t)
  BY <1>2, <1>3
     DEF Step, ShiftRead, ShiftWrite, ShiftWriteFails, ShiftEOF, SeekLast, Truncate,
         NewId, OpenForAppend, LockEnd, AppendRecord, AppendFails, UnlockEnd, SeekSize
<1>5. op'[t] = op[t]
  BY <1>1, <1>2, StructsAreKept
<1>6. CASE EndScan(t)
  <2>1. /\ pc[t] = "unlock"
        /\ pc'[t] = IF iter[t] # NoRec THEN "wlock" ELSE "close"
        /\ ret'[t] = IF iter[t] # NoRec THEN 0 ELSE ENOTFOUND
        /\ file' = file
    BY <1>1, <1>6 DEF EndScan, ThreadsOK, WritesInPlace, Updates, ScanStatus, Bulk, disk
  <2> QED
    BY <1>1, <1>5, <1>6, <2>1 DEF Owing, ENOTFOUND, Overwrite
<1>7. CASE Close(t)
  <2>1. pc[t] = "close" /\ pc'[t] = "done" /\ ret' = ret /\ file' = file
    BY <1>1, <1>7 DEF Close, NextStage, HasNext, ThreadsOK, disk
  <2> QED
    BY <1>1, <1>5, <2>1 DEF Owing, Overwrite
<1>8. CASE Overwrite(t)
  <2>1. pc[t] = "write" /\ pc'[t] = "wunlock" /\ ret' = ret
    BY <1>1, <1>8 DEF Overwrite, ThreadsOK, local
  <2> QED
    BY <1>1, <1>2, <1>5, <1>8, <2>1 DEF Owing
<1>9. CASE EndWrite(t)
  <2>1. pc[t] = "wunlock" /\ pc'[t] = "close" /\ ret' = ret /\ file' = file
    BY <1>1, <1>9 DEF EndWrite, ThreadsOK, local, disk
  <2> QED
    BY <1>1, <1>2, <1>5, <2>1 DEF Owing, Overwrite
<1>10. CASE BeginScan(t) \/ ReadHit(t) \/ ReadMiss(t) \/ ReadEOF(t) \/ LockRecord(t)
  <2>1. /\ ret' = ret /\ file' = file
        /\ pc[t] \in {"lock", "scan", "wlock"}
        /\ pc'[t] \in {"scan", "unlock", "write"}
        /\ pc'[t] = "write" => pc[t] = "wlock"
    BY <1>1, <1>10 DEF BeginScan, ReadHit, ReadMiss, ReadEOF, LockRecord, ThreadsOK, local, disk
  <2> QED
    BY <1>1, <1>2, <1>5, <2>1 DEF Owing, Overwrite
<1> QED
  BY <1>4, <1>6, <1>7, <1>8, <1>9, <1>10

\* The steps of its entry.
LEMMA LoggingStep ==
  ASSUME BooksInv, Faults = {}, NEW t \in Threads, Step(t), UNCHANGED svars,
         at[t] = "last", op[t].fn = "append_transaction"
  PROVE  /\ op'[t].rec.aid = op[t].rec.aid
         /\ op'[t].rec.old = op[t].rec.old /\ op'[t].rec.new = op[t].rec.new
         /\ AppendRecord(t) => Owing(t) /\ ~Owing(t)'
         /\ ~AppendRecord(t) => (Owing(t)' <=> Owing(t)) /\ file' = file
         /\ op[t].rec \in TransRec
<1> USE DEF Goto
<1>1. /\ TypeInv /\ ThreadsOK /\ Control(t) /\ CallOK(t) /\ at' = at
      /\ op'[t].fn = op[t].fn
  BY ScanSameFile, LaterSteps
     DEF BooksInv, OneInv, IInv, TypeInv, TypeOK, SInv, svars
<1>2. op[t].rec \in TransRec
  <2>1. op[t].rec \in RecOf(TableOf(op[t].fn))
    BY <1>1 DEF CallOK, OpOk
  <2> QED
    BY <2>1, Tables
<1>3. /\ op'[t].rec.aid = op[t].rec.aid
      /\ op'[t].rec.old = op[t].rec.old /\ op'[t].rec.new = op[t].rec.new
  <2>1. CASE NewId(t)
    <3>1. op'[t].rec = [op[t].rec EXCEPT !.id = NextId(Proc(t), OpenFile(t))]
      BY <1>1, <2>1 DEF NewId, WithRec, ThreadsOK
    <3> QED
      BY <1>2, <3>1 DEF TransRec
  <2>2. CASE ~NewId(t)
    <3>1. pc[t] # "newid"
      BY <2>2
         DEF Step, BeginScan, ReadHit, ReadMiss, ReadInto, ReadEOF, EndScan, LockRecord,
             Overwrite, OverwriteFails, LockTail, ShiftRead, ShiftWrite, ShiftWriteFails,
             ShiftEOF, SeekLast, Truncate, EndWrite, OpenForAppend, LockEnd, AppendRecord,
             AppendFails, UnlockEnd, SeekSize, Close, OpenFails
    <3> QED
      BY <1>1, <3>1, StructsAreKept
  <2> QED
    BY <2>1, <2>2
<1>4. ~Overwrite(t) /\ ~ShiftWrite(t) /\ ~Truncate(t)
  BY <1>1 DEF Overwrite, ShiftWrite, Truncate, Control, Shifting, Updates, Deletes
<1>5. CASE AppendRecord(t)
  <2>1. pc[t] = "append" /\ pc'[t] = "aunlock"
    BY <1>1, <1>5 DEF AppendRecord, ThreadsOK
  <2> QED
    BY <1>1, <1>2, <1>3, <1>5, <2>1 DEF Owing
<1>6. CASE ~AppendRecord(t)
  <2>1. file' = file
    BY <1>1, <1>4, <1>6, OnlyWrites
  <2>2. ~AppendFails(t) /\ ~OpenFails(t)
    BY DEF AppendFails, OpenFails
  <2>3. CASE NewId(t) \/ OpenForAppend(t) \/ LockEnd(t)
    <3>1. /\ pc[t] \in {"newid", "aopen", "alock", "append"}
          /\ pc'[t] \in {"newid", "aopen", "alock", "append"}
      BY <1>1, <2>3 DEF NewId, OpenForAppend, LockEnd, ThreadsOK
    <3> QED
      BY <1>1, <1>2, <1>3, <1>6, <2>1, <3>1 DEF Owing
  <2>4. CASE Close(t)
    <3>1. pc[t] = "close" /\ pc'[t] = "done"
      BY <1>1, <2>4 DEF Close, NextStage, HasNext, ThreadsOK
    <3> QED
      BY <1>1, <1>2, <1>3, <1>6, <2>1, <3>1 DEF Owing
  <2>5. CASE ~(NewId(t) \/ OpenForAppend(t) \/ LockEnd(t) \/ Close(t))
    <3>1. /\ pc[t] \notin {"newid", "aopen", "alock", "append"}
          /\ pc'[t] \notin {"newid", "aopen", "alock", "append"}
      BY <1>1, <1>6, <2>2, <2>5
         DEF Step, BeginScan, ReadHit, ReadMiss, ReadInto, ReadEOF, EndScan, LockRecord,
             Overwrite, OverwriteFails, LockTail, ShiftRead, ShiftWrite, ShiftWriteFails,
             ShiftEOF, SeekLast, Truncate, EndWrite, UnlockEnd, SeekSize, ThreadsOK
    <3> QED
      BY <1>1, <1>2, <1>3, <1>6, <2>1, <3>1 DEF Owing
  <2> QED
    BY <2>3, <2>4, <2>5
<1> QED
  BY <1>5, <1>6

\* Every other call leaves the debt of a transaction as it is: there is none.
LEMMA OtherStep ==
  ASSUME BooksInv, NEW t \in Threads, Step(t), UNCHANGED svars,
         at[t] # "stored", ~(at[t] = "last" /\ op[t].fn = "append_transaction")
  PROVE  ~Owing(t) /\ ~Owing(t)'
<1>1. op'[t].fn = op[t].fn /\ at' = at
  BY ScanSameFile, LaterSteps DEF BooksInv, OneInv, IInv, svars
<1> QED
  BY <1>1 DEF Owing

\* Ids of accounts are given out in one place.
LEMMA LastIdGrows ==
  ASSUME BooksInv, NEW t \in Threads, Step(t)
  PROVE  /\ LastId(t) \in Nat /\ LastId(t)' \in Nat /\ LastId(t)' >= LastId(t)
         /\ boot' = boot /\ boot[Proc(t)] = "up"
         /\ NewId(t) /\ op[t].fn = "create_account" => op'[t].rec.id > LastId(t)
<1>1. /\ TypeInv /\ ThreadsOK /\ KernelOK /\ Control(t) /\ InHandBounded(t) /\ CallOK(t)
      /\ Proc(t) \in Procs /\ "account" \in Files /\ OpenFile(t) \in Files
      /\ LastId(t) \in Nat
  BY Located DEF BooksInv, OneInv, IInv, IdInv, TypeInv, TypeOK, KernelOK, LastId, Files
<1>2. boot[Proc(t)] = "up"
  <2>1. pc[t] # "idle"
    BY StepIsCalling DEF Calling
  <2> QED
    BY <1>1, <2>1 DEF InHandBounded
<1>3. CASE NewId(t)
  <2>1. /\ ctr' = [ctr EXCEPT ![Proc(t)][OpenFile(t)] = ctr[Proc(t)][OpenFile(t)] + 1]
        /\ boot' = boot
        /\ op'[t].rec = [op[t].rec EXCEPT !.id = ctr[Proc(t)][OpenFile(t)] + 1]
        /\ op[t].fn \in Creates /\ stage[t] = 3
    BY <1>1, <1>3 DEF NewId, NextId, WithRec, Goto, ThreadsOK, Control, AppendPCs
  <2>2. ctr[Proc(t)][OpenFile(t)] \in Nat
    BY <1>1 DEF KernelOK
  <2>3. LastId(t)' = IF OpenFile(t) = "account" THEN LastId(t) + 1 ELSE LastId(t)
    BY <1>1, <2>1 DEF LastId, KernelOK, Proc
  <2>4. ASSUME op[t].fn = "create_account" PROVE op'[t].rec.id > LastId(t)
    <3>1. OpenFile(t) = "account" /\ op[t].rec \in AccountRec
      <4>1. op[t].rec \in RecOf(TableOf(op[t].fn))
        BY <1>1 DEF CallOK, OpOk
      <4> QED
        BY <2>4, <4>1, Tables DEF OpenFile, FileAt, TableOf, UserFns, TransFns
    <3>2. op'[t].rec.id = LastId(t) + 1
      BY <2>1, <3>1 DEF AccountRec, LastId
    <3> QED
      BY <1>1, <3>2
  <2> QED
    BY <1>1, <1>2, <2>1, <2>3, <2>4
<1>4. CASE ~NewId(t)
  <2>1. ctr' = ctr /\ boot' = boot
    BY <1>4
       DEF Step, BeginScan, ReadHit, ReadMiss, ReadInto, ReadEOF, EndScan, LockRecord,
           Overwrite, OverwriteFails, LockTail, ShiftRead, ShiftWrite, ShiftWriteFails,
           ShiftEOF, SeekLast, Truncate, EndWrite, OpenForAppend, LockEnd, AppendRecord,
           AppendFails, UnlockEnd, SeekSize, Close, OpenFails, disk
  <2>2. LastId(t)' = LastId(t)
    BY <2>1 DEF LastId, Proc
  <2> QED
    BY <1>1, <1>2, <1>4, <2>1, <2>2
<1> QED
  BY <1>3, <1>4

\* The journal changes by the entries of transactions only.
LEMMA EntriesOfStep ==
  ASSUME BooksInv, NEW t \in Threads, Step(t)
  PROVE  \/ file'["trans"] = file["trans"]
         \/ /\ AppendRecord(t) /\ at[t] = "last" /\ op[t].fn = "append_transaction"
            /\ file'["trans"] = Append(file["trans"], op[t].rec)
            /\ file'["account"] = file["account"]
<1>1. IInv /\ Standing(t) /\ TypeInv /\ "trans" \in Files /\ "account" \in Files
  BY DEF BooksInv, OneInv, IInv, Files
<1>2. CASE Overwrite(t)
  <2>1. OpenFile(t) # "trans"
    <3>1. op[t].fn \in Updates /\ OpenFile(t) = TableOf(op[t].fn)
      BY <1>1, <1>2, OverwriteSlots
    <3> QED
      BY <3>1 DEF Updates, TableOf, UserFns, TransFns
  <2> QED
    BY <1>1, <1>2, <2>1, OverwriteSlots
<1>3. CASE ShiftWrite(t) \/ Truncate(t)
  <2>1. op[t].fn \in Deletes
    BY <1>1, <1>3 DEF ShiftWrite, Truncate, Goto, TypeInv, Control, Shifting
  <2>2. OpenFile(t) # "trans"
    BY <2>1 DEF Deletes, OpenFile, FileAt, TableOf, UserFns, TransFns
  <2> QED
    BY <1>1, <1>3, <2>2, ShiftWriteSlots, TruncateSlots
<1>4. CASE AppendRecord(t)
  <2>1. /\ op[t].fn \in Creates /\ OpenFile(t) = TableOf(op[t].fn)
        /\ file'[OpenFile(t)] = Append(file[OpenFile(t)], op[t].rec)
        /\ \A g \in Files \ {OpenFile(t)} : file'[g] = file[g]
    BY <1>1, <1>4, AppendSlots
  <2>2. CASE op[t].fn = "append_transaction"
    <3>1. OpenFile(t) = "trans" /\ at[t] = "last"
      BY <2>1, <2>2, StepIsCalling, PlaceOfCall DEF TableOf, UserFns, TransFns
    <3> QED
      BY <1>1, <1>4, <2>1, <2>2, <3>1
  <2>3. CASE op[t].fn # "append_transaction"
    <3>1. OpenFile(t) # "trans"
      BY <2>1, <2>3 DEF Creates, TableOf, UserFns, TransFns
    <3> QED
      BY <1>1, <2>1, <3>1
  <2> QED
    BY <2>2, <2>3
<1>5. CASE ~(Overwrite(t) \/ ShiftWrite(t) \/ Truncate(t) \/ AppendRecord(t))
  BY <1>1, <1>5, OnlyWrites
<1> QED
  BY <1>2, <1>3, <1>4, <1>5

LEMMA AmountStep ==
  ASSUME BooksInv, Faults = {}, NEW t \in Threads, Step(t), UNCHANGED svars
  PROVE  AmountKept(t)'
<1>1. /\ AmountKept(t) /\ at' = at /\ user' = user /\ acc' = acc /\ req' = req
      /\ op'[t].fn = op[t].fn /\ TypeInv /\ Waiting(t) /\ ThreadsOK
      /\ LastId(t) \in Nat /\ LastId(t)' \in Nat /\ LastId(t)' >= LastId(t)
      /\ user[t].aid \in Nat
  <2>1. user[t] \in UserRec
    BY DEF BooksInv, OneInv, SInv, ServerTypeOK
  <2>2. op'[t].fn = op[t].fn
    BY ScanSameFile, LaterSteps DEF BooksInv, OneInv, IInv
  <2> QED
    BY <2>1, <2>2, LastIdGrows
       DEF BooksInv, OneInv, IInv, SInv, svars, locals, UserRec, TypeInv, TypeOK
<1>2. CASE at[t] = "stored"
  <2>1. /\ op'[t] = op[t]
        /\ pc'[t] \in {"lock", "scan", "unlock", "wlock", "write", "wunlock", "close", "done"}
        /\ pc'[t] \in {"wlock", "write", "wunlock"} => ret'[t] >= 0
        /\ pc'[t] \in {"lock", "scan", "unlock", "wlock", "write"} =>
             pc[t] \in {"lock", "scan", "unlock", "wlock", "write"} /\ file' = file
    BY <1>2, StoredStep
  <2>2. user[t].aid <= LastId(t)'
    BY <1>1, <1>2 DEF AmountKept
  <2>3. /\ op'[t].rec.id = user[t].aid
        /\ op'[t].rec.balance = acc[t].balance + req[t].amt
        /\ pc'[t] \in {"lock", "scan", "unlock", "wlock", "write"} =>
             \A i \in DOMAIN file'["account"] :
               file'["account"][i].id = user[t].aid =>
                 file'["account"][i].balance = acc[t].balance
    BY <1>1, <1>2, <2>1 DEF AmountKept
  <2> QED
    BY <1>1, <1>2, <2>1, <2>2, <2>3 DEF AmountKept
<1>3. CASE at[t] = "last"
  <2>1. pc'[t] # "idle" /\ op'[t].fn # "update_account"
    <3>1. op'[t].fn # "update_account"
      BY <1>1, <1>3 DEF AmountKept
    <3>2. pc'[t] # "idle"
      BY <1>1
         DEF Step, BeginScan, ReadHit, ReadMiss, ReadInto, ReadEOF, EndScan, LockRecord,
             Overwrite, OverwriteFails, LockTail, ShiftRead, ShiftWrite, ShiftWriteFails,
             ShiftEOF, SeekLast, Truncate, EndWrite, NewId, OpenForAppend, LockEnd,
             AppendRecord, AppendFails, UnlockEnd, SeekSize, Close, OpenFails, Goto,
             ThreadsOK, StageCall
    <3> QED
      BY <3>1, <3>2
  <2>2. ASSUME op[t].fn = "append_transaction"
        PROVE  /\ op'[t].rec.aid = user[t].aid /\ user[t].aid <= LastId(t)'
               /\ op'[t].rec.new = op'[t].rec.old + req[t].amt
    <3>1. /\ op[t].rec.aid = user[t].aid /\ user[t].aid <= LastId(t)
          /\ op[t].rec.new = op[t].rec.old + req[t].amt
      BY <1>1, <1>3, <2>2 DEF AmountKept
    <3>2. /\ op'[t].rec.aid = op[t].rec.aid
          /\ op'[t].rec.old = op[t].rec.old /\ op'[t].rec.new = op[t].rec.new
      BY <1>3, <2>2, LoggingStep
    <3> QED
      BY <1>1, <3>1, <3>2
  <2> QED
    BY <1>1, <1>3, <2>1, <2>2 DEF AmountKept
<1>4. CASE at[t] \notin {"stored", "last"}
  BY <1>1, <1>4 DEF AmountKept
<1> QED
  BY <1>2, <1>3, <1>4

LEMMA EntriesStep ==
  ASSUME BooksInv, Faults = {}, NEW t \in Threads, Step(t), UNCHANGED svars
  PROVE  EntriesKnown(t)'
<1>1. /\ LastId(t) \in Nat /\ LastId(t)' \in Nat /\ LastId(t)' >= LastId(t)
      /\ boot' = boot /\ boot[Proc(t)] = "up" /\ file["trans"] \in Seq(TransRec)
  BY LastIdGrows, Tables DEF BooksInv, OneInv, IInv, TypeInv, TypeOK, FilesOK, Files
<1>2. Booted(Proc(t), "account") /\ Booted(Proc(t), "account")'
  BY <1>1 DEF Booted, Proc
<1>3. \A r \in Range(file["trans"]) : r.aid <= LastId(t) /\ r.aid \in Nat
  <2>1. \A r \in Range(file["trans"]) : r \in TransRec
    BY <1>1 DEF Range
  <2> QED
    BY <1>2, <2>1 DEF BooksInv, EntriesKnown, TransRec
<1>4. \A r \in Range(file'["trans"]) : r.aid <= LastId(t)'
  <2>1. CASE file'["trans"] = file["trans"]
    BY <1>1, <1>3, <2>1
  <2>2. CASE file'["trans"] # file["trans"]
    <3>1. /\ at[t] = "last" /\ op[t].fn = "append_transaction"
          /\ file'["trans"] = Append(file["trans"], op[t].rec)
      BY <2>2, EntriesOfStep
    <3>2. op[t].rec \in TransRec
      BY <3>1, LoggingStep
    <3>3. op[t].rec.aid <= LastId(t) /\ op[t].rec.aid \in Nat
      BY <3>1, <3>2 DEF BooksInv, AmountKept, TransRec
    <3>4. Range(file'["trans"]) = Range(file["trans"]) \cup {op[t].rec}
      BY <1>1, <3>1, <3>2, AppendRange
    <3> QED
      BY <1>1, <1>3, <3>3, <3>4
  <2> QED
    BY <2>1, <2>2
<1> QED
  BY <1>2, <1>4 DEF EntriesKnown

LEMMA EmptyStep ==
  ASSUME BooksInv, NEW t \in Threads, Step(t), UNCHANGED svars
  PROVE  NewIsEmpty(t)'
<1>1. /\ TypeInv /\ ThreadsOK /\ NewIsEmpty(t) /\ op'[t].fn = op[t].fn /\ CallOK(t)
  BY ScanSameFile, LaterSteps DEF BooksInv, OneInv, IInv, TypeInv, TypeOK
<1> SUFFICES ASSUME op[t].fn = "create_account"
             PROVE  /\ op'[t].rec.balance = 0
                    /\ Appending(t)' => \A r \in Range(file'["trans"]) :
                                          r.aid # op'[t].rec.id
  BY <1>1 DEF NewIsEmpty
<1>2. op'[t].rec.balance = 0
  BY <1>1, StructsAreKept DEF NewIsEmpty
<1>3. file'["trans"] = file["trans"]
  BY EntriesOfStep
<1>4. CASE NewId(t)
  <2>1. /\ LastId(t) \in Nat /\ op'[t].rec.id > LastId(t) /\ boot[Proc(t)] = "up"
        /\ file["trans"] \in Seq(TransRec)
    BY <1>4, LastIdGrows, Tables DEF BooksInv, OneInv, IInv, TypeInv, TypeOK, FilesOK, Files
  <2>2. \A r \in Range(file["trans"]) : r.aid <= LastId(t) /\ r.aid \in Nat
    <3>1. \A r \in Range(file["trans"]) : r \in TransRec
      BY <2>1 DEF Range
    <3> QED
      BY <2>1, <3>1 DEF BooksInv, EntriesKnown, TransRec, Booted
  <2>3. op'[t].rec.id \in Int
    <3>1. op'[t].rec \in AccountRec
      <4>1. TypeInv'
        BY <1>1, NextType DEF Next
      <4>2. op'[t].rec \in RecOf(TableOf(op'[t].fn))
        BY <4>1 DEF TypeInv, TypeOK, CallOK, OpOk
      <4> QED
        BY <1>1, <4>2, Tables
    <3> QED
      BY <3>1 DEF AccountRec
  <2> QED
    BY <1>2, <1>3, <2>1, <2>2, <2>3
<1>5. CASE ~NewId(t)
  <2>1. pc[t] # "newid"
    BY <1>5
       DEF Step, BeginScan, ReadHit, ReadMiss, ReadInto, ReadEOF, EndScan, LockRecord,
           Overwrite, OverwriteFails, LockTail, ShiftRead, ShiftWrite, ShiftWriteFails,
           ShiftEOF, SeekLast, Truncate, EndWrite, OpenForAppend, LockEnd, AppendRecord,
           AppendFails, UnlockEnd, SeekSize, Close, OpenFails, Goto
  <2>2. op'[t] = op[t]
    BY <1>1, <2>1, StructsAreKept
  <2>3. Appending(t)' => Appending(t)
    BY <1>1, <1>5
       DEF Step, BeginScan, ReadHit, ReadMiss, ReadInto, ReadEOF, EndScan, LockRecord,
           Overwrite, OverwriteFails, LockTail, ShiftRead, ShiftWrite, ShiftWriteFails,
           ShiftEOF, SeekLast, Truncate, EndWrite, OpenForAppend, LockEnd, AppendRecord,
           AppendFails, UnlockEnd, SeekSize, Close, OpenFails, Goto, ThreadsOK, StageCall,
           Appending
  <2> QED
    BY <1>1, <1>2, <1>3, <2>2, <2>3 DEF NewIsEmpty
<1> QED
  BY <1>4, <1>5

\* Types of what is added up.
LEMMA AmountTypes ==
  ASSUME OneInv, NEW t \in Threads
  PROVE  /\ file["trans"] \in Seq(TransRec) /\ file["account"] \in Seq(AccountRec)
         /\ \A a : Booked(a) \in Int
         /\ \A i \in DOMAIN file["account"] :
              file["account"][i].id \in Nat /\ file["account"][i].balance \in Int
         /\ acc[t].balance \in Int
         /\ req[t].action = "Transaction" => req[t].amt \in Int
<1>1. /\ file["trans"] \in Seq(TransRec) /\ file["account"] \in Seq(AccountRec)
      /\ acc[t] \in AccountRec /\ ServerTypeOK
  BY Tables DEF OneInv, SInv, ServerTypeOK, IInv, TypeInv, TypeOK, FilesOK, Files
<1>2. \A a : Booked(a) \in Int
  <2> SUFFICES ASSUME NEW a PROVE Booked(a) \in Int
    OBVIOUS
  <2>1. Len(file["trans"]) \in 0 .. Len(file["trans"])
    BY <1>1
  <2> QED
    BY <1>1, <2>1, BookedType DEF Booked
<1>3. \A i \in DOMAIN file["account"] :
        file["account"][i].id \in Nat /\ file["account"][i].balance \in Int
  <2>1. \A i \in DOMAIN file["account"] : file["account"][i] \in AccountRec
    BY <1>1
  <2> QED
    BY <2>1 DEF AccountRec
<1>4. req[t].action = "Transaction" => req[t].amt \in Int
  BY <1>1, RequestType DEF RequestOk
<1> QED
  BY <1>1, <1>2, <1>3, <1>4 DEF AccountRec

\* What is neither booked nor owed in another way balances as before.
LEMMA SameSums ==
  ASSUME NEW t \in Threads, Balanced(t), file'["trans"] = file["trans"],
         Owing(t)' <=> Owing(t), Owing(t) => user' = user /\ req' = req,
         \A i \in DOMAIN file'["account"] :
           \E j \in DOMAIN file["account"] : file'["account"][i] = file["account"][j]
  PROVE  Balanced(t)'
<1>1. \A a : Booked(a)' = Booked(a)
  BY DEF Booked
<1>2. \A a : Due(t, a)' = Due(t, a)
  BY DEF Due
<1> QED
  BY <1>1, <1>2 DEF Balanced

\* Balances, by place and id.
LEMMA BalancedByPlace ==
  ASSUME NEW t \in Threads,
         \A i \in DOMAIN file'["account"] : \A a :
           a = file'["account"][i].id =>
             file'["account"][i].balance = Booked(a)' + Due(t, a)'
  PROVE  Balanced(t)'
BY DEF Balanced

LEMMA BalancedStep ==
  ASSUME BooksInv, Faults = {}, NEW t \in Threads, Step(t), UNCHANGED svars
  PROVE  Balanced(t)'
<1>1. /\ OneInv /\ IInv /\ TypeInv /\ Standing(t) /\ NoTwins(t) /\ Balanced(t) /\ AmountKept(t)
      /\ NewIsEmpty(t) /\ Waiting(t) /\ Calling(t) /\ "account" \in Files /\ "trans" \in Files
      /\ user' = user /\ req' = req /\ at' = at
  BY StepIsCalling DEF BooksInv, OneInv, SInv, IInv, Files, svars, locals
<1>2. /\ file["trans"] \in Seq(TransRec) /\ file["account"] \in Seq(AccountRec)
      /\ \A a : Booked(a) \in Int
      /\ \A i \in DOMAIN file["account"] :
           file["account"][i].id \in Nat /\ file["account"][i].balance \in Int
      /\ acc[t].balance \in Int
      /\ req[t].action = "Transaction" => req[t].amt \in Int
  BY <1>1, AmountTypes
<1>3. \A i \in DOMAIN file["account"] :
        file["account"][i].balance = Booked(file["account"][i].id)
                                     + Due(t, file["account"][i].id)
  BY <1>1 DEF Balanced
<1>4. CASE Overwrite(t) /\ at[t] = "stored"
  <2>1. /\ op[t].fn = "update_account" /\ req[t].action = "Transaction"
        /\ ~Owing(t) /\ Owing(t)'
    BY <1>1, <1>4, StoredStep DEF Waiting
  <2>2. OpenFile(t) = "account"
    BY <2>1 DEF OpenFile, FileAt, TableOf, UserFns, TransFns
  <2>3. /\ cur[t] \in DOMAIN file["account"]
        /\ file["account"][cur[t]].id = op[t].rec.id
        /\ DOMAIN file'["account"] = DOMAIN file["account"]
        /\ file'["trans"] = file["trans"] /\ pc[t] = "write"
        /\ \A i \in DOMAIN file["account"] :
             file'["account"][i] = IF i = cur[t] THEN op[t].rec ELSE file["account"][i]
    BY <1>1, <1>4, <2>2, OverwriteSlots
  <2>4. /\ op[t].rec.id = user[t].aid
        /\ op[t].rec.balance = acc[t].balance + req[t].amt
        /\ file["account"][cur[t]].balance = acc[t].balance
    BY <1>1, <1>4, <2>3 DEF AmountKept
  <2>5. \A a : Booked(a)' = Booked(a)
    BY <2>3 DEF Booked
  <2>6. \A a : Due(t, a) = 0
    BY <2>1 DEF Due
  <2>7. \A a : Due(t, a)' = IF a = user[t].aid THEN req[t].amt ELSE 0
    BY <1>1, <2>1 DEF Due
  <2> SUFFICES ASSUME NEW i \in DOMAIN file["account"], NEW a, a = file'["account"][i].id
               PROVE  file'["account"][i].balance = Booked(a)' + Due(t, a)'
    BY <2>3, BalancedByPlace
  <2>8. CASE i = cur[t]
    <3>1. file'["account"][i] = op[t].rec
      BY <2>3, <2>8
    <3>2. acc[t].balance = Booked(user[t].aid)
      <4>1. acc[t].balance = Booked(user[t].aid) + 0
        BY <1>3, <2>3, <2>4, <2>6
      <4> QED
        BY <1>2, <4>1
    <3>3. a = user[t].aid /\ Booked(a)' = Booked(a) /\ Due(t, a)' = req[t].amt
      BY <2>4, <2>5, <2>7, <3>1
    <3> QED
      BY <2>4, <3>1, <3>2, <3>3
  <2>9. CASE i # cur[t]
    <3>1. file'["account"][i] = file["account"][i]
      BY <2>3, <2>9
    <3>2. file["account"][i].id # user[t].aid
      BY <1>1, <2>3, <2>4, <2>9, AllProper
    <3>3. Booked(a)' = Booked(a) /\ Due(t, a)' = 0 /\ Due(t, a) = 0
      BY <2>5, <2>6, <2>7, <3>1, <3>2
    <3> QED
      BY <1>3, <3>1, <3>3
  <2> QED
    BY <2>8, <2>9
<1>5. CASE AppendRecord(t) /\ at[t] = "last" /\ op[t].fn = "append_transaction"
  <2>1. /\ Owing(t) /\ ~Owing(t)' /\ op[t].rec \in TransRec
        /\ req[t].action = "Transaction"
    BY <1>1, <1>5, LoggingStep DEF Waiting
  <2>2. /\ op[t].rec.aid = user[t].aid
        /\ op[t].rec.new = op[t].rec.old + req[t].amt
    BY <1>1, <1>5 DEF AmountKept
  <2>3. /\ file'["trans"] = Append(file["trans"], op[t].rec)
        /\ file'["account"] = file["account"]
    <3>1. OpenFile(t) = "trans"
      BY <1>5 DEF OpenFile, FileAt, TableOf, UserFns, TransFns
    <3> QED
      BY <1>1, <1>5, <3>1, AppendSlots
  <2>4. \A a : Booked(a)' = Booked(a) + (IF user[t].aid = a THEN req[t].amt ELSE 0)
    <3> SUFFICES ASSUME NEW a
                 PROVE  Booked(a)' = Booked(a) + (IF user[t].aid = a THEN req[t].amt ELSE 0)
      OBVIOUS
    <3>1. op[t].rec.new - op[t].rec.old = req[t].amt
      BY <1>2, <2>1, <2>2 DEF TransRec
    <3>2. Booked(a)' = BookedIn(Append(file["trans"], op[t].rec), a)
                               [Len(Append(file["trans"], op[t].rec))]
      BY <2>3 DEF Booked
    <3>3. Booked(a)' = Booked(a) + (IF op[t].rec.aid = a
                                    THEN op[t].rec.new - op[t].rec.old ELSE 0)
      BY <1>2, <2>1, <3>2, BookedAppend DEF Booked
    <3> QED
      BY <2>2, <3>1, <3>3
  <2>5. \A a : /\ Due(t, a)' = 0
               /\ Due(t, a) = IF user[t].aid = a THEN req[t].amt ELSE 0
    BY <2>1 DEF Due
  <2> SUFFICES ASSUME NEW i \in DOMAIN file["account"], NEW a, a = file'["account"][i].id
               PROVE  file'["account"][i].balance = Booked(a)' + Due(t, a)'
    BY <2>3, BalancedByPlace
  <2>6. /\ file'["account"][i].balance = Booked(a) + Due(t, a)
        /\ Booked(a) \in Int
    BY <1>2, <1>3, <2>3
  <2>7. Booked(a)' = Booked(a) + Due(t, a) /\ Due(t, a)' = 0 /\ Due(t, a) \in Int
    BY <1>2, <2>1, <2>4, <2>5
  <2> QED
    BY <2>6, <2>7
<1>6. CASE AppendRecord(t) /\ op[t].fn = "create_account"
  <2>1. ~Owing(t) /\ ~Owing(t)'
    BY <1>1, <1>6, OtherStep DEF Waiting
  <2>2. OpenFile(t) = "account"
    BY <1>6 DEF OpenFile, FileAt, TableOf, UserFns, TransFns
  <2> DEFINE n == Len(file["account"])
  <2>3. /\ DOMAIN file["account"] = 1 .. n /\ n \in Nat
        /\ DOMAIN file'["account"] = 1 .. n + 1
        /\ \A i \in 1 .. n : file'["account"][i] = file["account"][i]
        /\ file'["account"][n + 1] = op[t].rec
        /\ file'["trans"] = file["trans"] /\ pc[t] = "append"
    BY <1>1, <1>6, <2>2, AppendSlots
  <2>4. /\ op[t].rec.balance = 0
        /\ \A r \in Range(file["trans"]) : r.aid # op[t].rec.id
    BY <1>1, <1>6, <2>3 DEF NewIsEmpty, Appending, Creates
  <2>5. Booked(op[t].rec.id) = 0
    BY <1>2, <2>4, BookedNone DEF Booked
  <2>6. \A a : Booked(a)' = Booked(a) /\ Due(t, a)' = 0 /\ Due(t, a) = 0
    BY <2>1, <2>3 DEF Booked, Due
  <2> HIDE DEF n
  <2> SUFFICES ASSUME NEW i \in 1 .. n + 1, NEW a, a = file'["account"][i].id
               PROVE  file'["account"][i].balance = Booked(a)' + Due(t, a)'
    BY <2>3, BalancedByPlace
  <2>7. CASE i = n + 1
    BY <2>3, <2>4, <2>5, <2>6, <2>7
  <2>8. CASE i # n + 1
    <3>1. i \in 1 .. n
      BY <2>3, <2>8
    <3>2. file'["account"][i] = file["account"][i]
      BY <2>3, <3>1
    <3> QED
      BY <1>3, <2>3, <2>6, <3>1, <3>2
  <2> QED
    BY <2>7, <2>8
<1>7. CASE /\ ~(Overwrite(t) /\ at[t] = "stored")
           /\ ~(AppendRecord(t) /\ at[t] = "last" /\ op[t].fn = "append_transaction")
           /\ ~(AppendRecord(t) /\ op[t].fn = "create_account")
  <2>1. Owing(t)' <=> Owing(t)
    BY <1>7, StoredStep, LoggingStep, OtherStep
  <2>2. file'["trans"] = file["trans"]
    BY <1>7, EntriesOfStep
  <2>3. \A i \in DOMAIN file'["account"] :
          \E j \in DOMAIN file["account"] : file'["account"][i] = file["account"][j]
    <3>1. CASE Overwrite(t)
      <4>1. /\ op[t].fn \in Updates /\ OpenFile(t) = TableOf(op[t].fn)
        BY <1>1, <3>1, OverwriteSlots
      <4>2. op[t].fn # "update_account"
        BY <1>1, <1>7, <3>1, PlaceOfCall
      <4>3. OpenFile(t) # "account"
        BY <4>1, <4>2 DEF Updates, TableOf, UserFns
      <4>4. file'["account"] = file["account"]
        BY <1>1, <3>1, <4>3, OverwriteSlots
      <4> QED
        BY <4>4
    <3>2. CASE ShiftWrite(t)
      <4>1. CASE OpenFile(t) = "account"
        <5>1. /\ cur[t] \in DOMAIN file["account"]
              /\ DOMAIN file'["account"] = DOMAIN file["account"]
              /\ \A i \in DOMAIN file["account"] :
                   file'["account"][i] = IF i = cur[t] - 1 THEN file["account"][cur[t]]
                                         ELSE file["account"][i]
          BY <1>1, <3>2, <4>1, ShiftWriteSlots
        <5> QED
          BY <5>1
      <4>2. CASE OpenFile(t) # "account"
        <5>1. file'["account"] = file["account"]
          BY <1>1, <3>2, <4>2, ShiftWriteSlots
        <5> QED
          BY <5>1
      <4> QED
        BY <4>1, <4>2
    <3>3. CASE Truncate(t)
      <4>1. CASE OpenFile(t) = "account"
        <5> DEFINE n == Len(file["account"])
        <5>1. /\ DOMAIN file["account"] = 1 .. n /\ n \in Nat
              /\ DOMAIN file'["account"] = 1 .. n - 1
              /\ \A i \in 1 .. n - 1 : file'["account"][i] = file["account"][i]
          BY <1>1, <3>3, <4>1, TruncateSlots
        <5> HIDE DEF n
        <5>2. \A i \in 1 .. n - 1 : i \in 1 .. n
          BY <5>1
        <5> QED
          BY <5>1, <5>2
      <4>2. CASE OpenFile(t) # "account"
        <5>1. file'["account"] = file["account"]
          BY <1>1, <3>3, <4>2, TruncateSlots
        <5> QED
          BY <5>1
      <4> QED
        BY <4>1, <4>2
    <3>4. CASE AppendRecord(t)
      <4>1. OpenFile(t) # "account"
        <5>1. op[t].fn \in Creates /\ OpenFile(t) = TableOf(op[t].fn)
          BY <1>1, <3>4, AppendSlots
        <5> QED
          BY <1>7, <3>4, <5>1 DEF Creates, TableOf, UserFns, TransFns
      <4>2. file'["account"] = file["account"]
        BY <1>1, <3>4, <4>1, AppendSlots
      <4> QED
        BY <4>2
    <3>5. CASE ~(Overwrite(t) \/ ShiftWrite(t) \/ Truncate(t) \/ AppendRecord(t))
      BY <1>1, <3>5, OnlyWrites
    <3> QED
      BY <3>1, <3>2, <3>3, <3>4, <3>5
  <2> QED
    BY <1>1, <2>1, <2>2, <2>3, SameSums
<1> QED
  BY <1>4, <1>5, <1>6, <1>7

LEMMA BooksCall ==
  ASSUME BooksInv, NEW t \in Threads, ServerCall(t)
  PROVE  EntriesKnown(t)' /\ NewIsEmpty(t)' /\ AmountKept(t)' /\ Balanced(t)'
<1>1. /\ SInv /\ OneInv /\ IInv /\ TypeInv /\ ThreadsOK /\ ServerTypeOK /\ Waiting(t) /\ Current(t)
      /\ EntriesKnown(t) /\ AmountKept(t) /\ Balanced(t)
  BY DEF BooksInv, OneInv, IInv, SInv, TypeInv, TypeOK
<1>2. PICK o : OpOk(o) /\ Invoke(t, o)
  BY <1>1, ServerCalls DEF Calls
<1>3. /\ op'[t] = o /\ pc'[t] = FirstCall(o.fn) /\ UNCHANGED <<file, ctr, boot>>
      /\ pc[t] \in {"idle", "done"} /\ pc'[t] \in {"lock", "newid", "size"}
  BY <1>1, <1>2, CallBegins, OneCall
<1>4. LastId(t)' = LastId(t)
  BY <1>3 DEF LastId, Proc
<1>5. EntriesKnown(t)'
  BY <1>1, <1>3, <1>4 DEF EntriesKnown, Booted, Proc
<1>6. CASE StoreBalance(t)
  <2>1. /\ at[t] = "account" /\ at'[t] = "stored" /\ pc[t] = "done" /\ ret[t] >= 0
        /\ acc'[t] = iter[t] /\ user' = user /\ req' = req
        /\ o = On("update_account", [iter[t] EXCEPT !.balance = @ + req[t].amt], 0)
    <3>1. op'[t] = On("update_account", [iter[t] EXCEPT !.balance = @ + req[t].amt], 0)
      BY <1>1, <1>6 DEF StoreBalance, Invoke, Begin, ThreadsOK
    <3> QED
      BY <1>1, <1>3, <1>6, <3>1 DEF StoreBalance, Returned, Await, ServerTypeOK
  <2>2. op[t].fn = "get_account_from_id" /\ op[t].rec.id = user[t].aid
    BY <1>1, <2>1 DEF Waiting
  <2>3. iter[t] \in AccountRec /\ iter[t].id = user[t].aid /\ iter[t] # NoRec
    <3>1. iter[t] \in AccountRec /\ Matches(op[t], stage[t], iter[t])
      BY <1>1, <2>1, <2>2, FoundType, Tables DEF Gets
    <3>2. iter[t].id = op[t].rec.id
      BY <2>2, <3>1 DEF Matches
    <3>3. NoRec \notin AccountRec
      BY NoRecAssumption, Tables DEF Files
    <3> QED
      BY <2>2, <3>1, <3>2, <3>3
  <2>4. OpenFile(t) = "account" /\ Contents(t) = file["account"]
    BY <2>2 DEF Contents, OpenFile, FileAt, TableOf, UserFns, TransFns
  <2>5. user[t].aid <= LastId(t)
    BY <1>1, <2>3, <2>4 DEF IInv, IdInv, InHandBounded, LastId
  <2>6. \A i \in DOMAIN file["account"] :
          file["account"][i].id = user[t].aid => file["account"][i] = iter[t]
    BY <1>1, <2>2, <2>3, <2>4 DEF Current, Gets
  <2>7. /\ o.fn = "update_account" /\ o.rec.id = user[t].aid
        /\ o.rec.balance = iter[t].balance + req[t].amt
    <3> DEFINE r == [iter[t] EXCEPT !.balance = @ + req[t].amt]
    <3>1. r.id = iter[t].id /\ r.balance = iter[t].balance + req[t].amt
      BY <2>3 DEF AccountRec
    <3>2. o = On("update_account", r, 0)
      BY <2>1
    <3> HIDE DEF r
    <3> QED
      BY <2>3, <3>1, <3>2 DEF On
  <2>8. pc'[t] = "lock"
    BY <1>3, <2>7 DEF FirstCall, Creates, Counts
  <2>9. AmountKept(t)'
    BY <1>3, <1>4, <2>1, <2>5, <2>6, <2>7, <2>8 DEF AmountKept
  <2>10. ~Owing(t) /\ ~Owing(t)' /\ NewIsEmpty(t)'
    BY <1>3, <2>1, <2>7, <2>8 DEF Owing, NewIsEmpty
  <2> QED
    BY <1>1, <1>3, <1>5, <2>9, <2>10, SameSums
<1>7. CASE LogTransaction(t)
  <2>1. /\ at[t] = "stored" /\ at'[t] = "last" /\ pc[t] = "done" /\ ret[t] >= 0
        /\ acc' = acc /\ user' = user /\ req' = req
        /\ o = On("append_transaction", LogEntry(t), 0)
    <3>1. op'[t] = On("append_transaction", LogEntry(t), 0)
      BY <1>1, <1>7 DEF LogTransaction, LastCall, Invoke, Begin, ThreadsOK
    <3> QED
      BY <1>1, <1>3, <1>7, <3>1 DEF LogTransaction, LastCall, Returned, ServerTypeOK, locals
  <2>2. /\ o.fn = "append_transaction" /\ o.rec.aid = user[t].aid
        /\ o.rec.new = o.rec.old + req[t].amt
    BY <2>1 DEF On, LogEntry
  <2>3. pc'[t] = "newid" /\ user[t].aid <= LastId(t)
    BY <1>1, <1>3, <2>1, <2>2 DEF FirstCall, Creates, AmountKept
  <2>4. AmountKept(t)'
    BY <1>3, <1>4, <2>1, <2>2, <2>3 DEF AmountKept
  <2>5. Owing(t) /\ Owing(t)' /\ NewIsEmpty(t)'
    BY <1>3, <2>1, <2>2, <2>3 DEF Owing, NewIsEmpty
  <2> QED
    BY <1>1, <1>3, <1>5, <2>1, <2>4, <2>5, SameSums
<1>8. CASE ~StoreBalance(t) /\ ~LogTransaction(t)
  <2>1. /\ at[t] # "stored" /\ at'[t] # "stored" /\ at[t] # "last"
        /\ at'[t] = "last" => op'[t].fn \notin {"append_transaction", "update_account"}
        /\ op'[t].fn = "create_account" => op'[t] = On("create_account", AnAccount(0), 0)
    BY <1>1, <1>8
       DEF ServerCall, FindLogin, FindUser, FindAccount, ChangePassword, ModifyUser,
           CreateJointUser, CreateAccount, CreateUser, Delete, Count, CountTransactions,
           Announce, Listing, Permitted, Waiting, Listed, Await, Returned, LastCall,
           Invoke, Begin, On, ThreadsOK, ServerTypeOK
  <2>2. AmountKept(t)'
    BY <1>3, <2>1 DEF AmountKept
  <2>3. NewIsEmpty(t)'
    <3>1. AnAccount(0).balance = 0
      BY DEF AnAccount, ZeroRec
    <3> QED
      BY <1>3, <2>1, <3>1 DEF NewIsEmpty, Appending, On
  <2>4. ~Owing(t) /\ ~Owing(t)'
    BY <2>1 DEF Owing
  <2> QED
    BY <1>1, <1>3, <1>5, <2>2, <2>3, <2>4, SameSums
<1> QED
  BY <1>6, <1>7, <1>8

LEMMA BooksReply ==
  ASSUME BooksInv, NEW t \in Threads, ServerReply(t)
  PROVE  EntriesKnown(t)' /\ NewIsEmpty(t)' /\ AmountKept(t)' /\ Balanced(t)'
<1>1. /\ OneInv /\ SInv /\ UNCHANGED vars /\ ServerTypeOK /\ EntriesKnown(t) /\ NewIsEmpty(t)
      /\ Balanced(t)
  BY ReplyKeepsServer DEF BooksInv, OneInv, SInv
<1>2. UNCHANGED <<file, ctr, boot, pc, op, ret>>
  BY <1>1 DEF vars, disk, local
<1>3. EntriesKnown(t)' /\ NewIsEmpty(t)'
  BY <1>1, <1>2 DEF EntriesKnown, NewIsEmpty, Appending, LastId, Booted, Proc
<1>4. ~Owing(t) /\ at'[t] \notin {"stored", "last"}
  <2>1. CASE Request(t)
    <3>1. PICK r \in Requests : at' = [at EXCEPT ![t] = Awaited(r.action)]
      BY <2>1 DEF Request
    <3>2. Awaited(r.action) \in {"login", "logout", "session"}
      BY DEF Awaited
    <3>3. at'[t] = Awaited(r.action)
      BY <1>1, <3>1 DEF ServerTypeOK
    <3>4. at[t] = "ready"
      BY <2>1 DEF Request
    <3> QED
      BY <3>2, <3>3, <3>4 DEF Owing
  <2>2. CASE Leave(t)
    BY <2>2 DEF Leave, Owing
  <2>3. CASE ~Request(t) /\ ~Leave(t)
    <3>1. at'[t] = "ready"
      BY <1>1, <2>3
         DEF ServerReply, RejectLogin, OpenSession, Logout, Refuse, Finish, AnswerAccount,
             StoreFails, CountFails, SendItems, Reply, ServerTypeOK
    <3>2. \/ at[t] \notin {"stored", "last"}
          \/ at[t] = "last" /\ pc[t] = "done"
          \/ at[t] = "stored" /\ pc[t] = "done" /\ ret[t] < 0
      BY <2>3
         DEF ServerReply, RejectLogin, OpenSession, Logout, Refuse, Finish, AnswerAccount,
             StoreFails, CountFails, SendItems, Returned
    <3>3. ret[t] \in Int
      BY <1>1 DEF SInv, TypeInv, TypeOK, ThreadsOK
    <3> QED
      BY <3>1, <3>2, <3>3 DEF Owing
  <2> QED
    BY <2>1, <2>2, <2>3
<1>5. ~Owing(t)' /\ AmountKept(t)'
  BY <1>4 DEF Owing, AmountKept
<1> QED
  BY <1>1, <1>2, <1>3, <1>4, <1>5, SameSums

\* The counters are set up before the first request comes.
LEMMA BooksStart ==
  ASSUME BooksInv, NEW t \in Threads, NEW p \in Procs, Start(p)
  PROVE  EntriesKnown(t)' /\ NewIsEmpty(t)' /\ AmountKept(t)' /\ Balanced(t)'
<1>1. /\ TypeInv /\ KernelOK /\ Proc(t) \in Procs /\ InHandBounded(t)
      /\ EntriesKnown(t) /\ NewIsEmpty(t) /\ AmountKept(t) /\ Balanced(t)
      /\ UNCHANGED <<file, pc, op, ret, at, user, acc, req>>
  BY Located DEF BooksInv, OneInv, IInv, IdInv, TypeInv, TypeOK, Start, InitCounter,
                 svars, locals, local
<1>2. NewIsEmpty(t)' /\ (Owing(t)' <=> Owing(t))
  BY <1>1 DEF NewIsEmpty, Appending, Owing
<1>3. Balanced(t)'
  BY <1>1, <1>2, SameSums
<1>4. CASE Proc(t) # p
  <2>1. LastId(t)' = LastId(t) /\ boot'[Proc(t)] = boot[Proc(t)]
    BY <1>1, <1>4 DEF Start, InitCounter, LastId, Proc, KernelOK
  <2>2. EntriesKnown(t)'
    BY <1>1, <2>1 DEF EntriesKnown, Booted, Proc
  <2>3. AmountKept(t)'
    BY <1>1, <2>1 DEF AmountKept
  <2> QED
    BY <1>2, <1>3, <2>2, <2>3
<1>5. CASE Proc(t) = p
  <2>1. at[t] \notin {"stored", "last"}
    <3>1. pc[t] = "idle"
      BY <1>1, <1>5 DEF Start, InitCounter, InHandBounded
    <3> QED
      BY <1>1, <3>1 DEF AmountKept
  <2>2. AmountKept(t)'
    BY <1>1, <2>1 DEF AmountKept
  <2>3. boot[p] \in Files
    BY <1>1 DEF Start, InitCounter, KernelOK
  <2>4. PICK m \in Ids(file[boot[p]]) \cup {0} :
          /\ IsLargest(m, file[boot[p]])
          /\ ctr' = [ctr EXCEPT ![p][boot[p]] = m]
    BY DEF Start, InitCounter
  <2>5. boot'[p] = BootAfter(boot[p])
    BY <1>1 DEF Start, InitCounter, KernelOK
  <2>6. EntriesKnown(t)'
    <3>1. CASE boot[p] = "account"
      <4>1. /\ LastId(t)' = m /\ ~Booted(p, "account") /\ m \in Int
        <5>1. LastId(t)' = m
          BY <1>1, <1>5, <2>4, <3>1 DEF LastId, Proc, KernelOK, Files
        <5>2. m \in Int
          <6>1. \A i \in DOMAIN file["account"] : file["account"][i].id \in Nat
            BY AmountTypes DEF BooksInv
          <6> QED
            BY <2>4, <3>1, <6>1 DEF Ids
        <5> QED
          BY <3>1, <5>1, <5>2 DEF Booted
      <4>2. \A a \in Range(file["account"]) : a.id <= m /\ a.id \in Nat
        <5>1. \A i \in DOMAIN file["account"] : file["account"][i].id \in Nat
          BY AmountTypes DEF BooksInv
        <5> QED
          BY <2>4, <3>1, <5>1 DEF IsLargest, Ids, Range
      <4>3. \A r \in Range(file["trans"]) :
              r.aid \in Nat /\ \E a \in Range(file["account"]) : r.aid <= a.id
        <5>1. \A r \in Range(file["trans"]) : r \in TransRec
          BY AmountTypes DEF BooksInv, Range
        <5> QED
          BY <1>1, <1>5, <4>1, <5>1 DEF EntriesKnown, TransRec
      <4>4. \A r \in Range(file["trans"]) : r.aid <= m
        BY <4>1, <4>2, <4>3
      <4>5. Booted(p, "account")'
        BY <2>5, <3>1 DEF Booted, BootAfter
      <4> QED
        BY <1>1, <1>5, <4>1, <4>4, <4>5 DEF EntriesKnown, Proc
    <3>2. CASE boot[p] # "account"
      <4>1. Booted(p, "account")' <=> Booted(p, "account")
        BY <1>1, <2>3, <2>5, <3>2 DEF Booted, BootAfter, Files, Start, InitCounter
      <4>2. LastId(t)' = LastId(t)
        BY <1>1, <1>5, <2>3, <2>4, <3>2 DEF LastId, Proc, KernelOK, Files
      <4> QED
        BY <1>1, <1>5, <4>1, <4>2 DEF EntriesKnown, Proc
    <3> QED
      BY <3>1, <3>2
  <2> QED
    BY <1>2, <1>3, <2>2, <2>6
<1> QED
  BY <1>4, <1>5

LEMMA BooksNext ==
  ASSUME OneClient, NoRestarts, Faults = {}, BooksInv, [ServerNext]_allvars PROVE BooksInv'
<1>1. OneInv /\ OneInv' /\ TypeInv
  BY OneNext DEF BooksInv, OneInv, SInv
<1>2. \A t, u \in Threads : t = u
  BY DEF OneClient
<1> SUFFICES ASSUME NEW t \in Threads
             PROVE  EntriesKnown(t)' /\ NewIsEmpty(t)' /\ AmountKept(t)' /\ Balanced(t)'
  BY <1>1 DEF BooksInv
<1>3. ASSUME NEW u \in Threads,
             ServerCall(u) \/ ServerReply(u) \/ (Step(u) /\ UNCHANGED svars)
      PROVE  EntriesKnown(t)' /\ NewIsEmpty(t)' /\ AmountKept(t)' /\ Balanced(t)'
  <2>1. u = t
    BY <1>2
  <2>2. ServerCall(t) \/ ServerReply(t) \/ (Step(t) /\ UNCHANGED svars)
    BY <1>3, <2>1
  <2> QED
    BY <2>2, BooksCall, BooksReply, EntriesStep, EmptyStep, AmountStep, BalancedStep
<1>4. ASSUME NEW p \in Procs, Start(p) \/ Stop(p)
      PROVE  EntriesKnown(t)' /\ NewIsEmpty(t)' /\ AmountKept(t)' /\ Balanced(t)'
  BY <1>1, <1>4, NeverStops, BooksStart
<1>5. ASSUME UNCHANGED allvars
      PROVE  EntriesKnown(t)' /\ NewIsEmpty(t)' /\ AmountKept(t)' /\ Balanced(t)'
  <2>1. UNCHANGED <<file, ctr, boot, pc, op, ret, at, user, acc, req>>
    BY <1>5 DEF allvars, vars, svars, disk, local, locals
  <2>2. EntriesKnown(t)' /\ NewIsEmpty(t)' /\ AmountKept(t)' /\ (Owing(t)' <=> Owing(t))
    BY <2>1 DEF BooksInv, EntriesKnown, NewIsEmpty, AmountKept, Owing, Appending, LastId,
                Booted, Proc
  <2>3. Balanced(t)'
    BY <2>1, <2>2, SameSums DEF BooksInv
  <2> QED
    BY <2>2, <2>3
<1> QED
  BY <1>3, <1>4, <1>5, ServerSteps

LEMMA BooksAtStart ==
  ASSUME OneClient, NoDoubles, BooksAreKept, NoStrayEntries, ServerInit PROVE BooksInv
<1>1. OneInv
  BY OneStarts
<1> SUFFICES ASSUME NEW t \in Threads
             PROVE  EntriesKnown(t) /\ NewIsEmpty(t) /\ AmountKept(t) /\ Balanced(t)
  BY <1>1 DEF BooksInv
<1>2. /\ pc[t] = "idle" /\ at[t] = "ready" /\ op[t].fn = "get_num_users"
      /\ boot[Proc(t)] = "user" /\ file \in InitFiles
  BY Located, <1>1 DEF ServerInit, Init, NoOp, OneInv, IInv
<1>3. EntriesKnown(t)
  <2>1. ~Booted(Proc(t), "account")
    BY <1>2 DEF Booted
  <2> QED
    BY <1>2, <2>1 DEF EntriesKnown, NoStrayEntries
<1>4. NewIsEmpty(t) /\ AmountKept(t) /\ ~Owing(t)
  BY <1>2 DEF NewIsEmpty, AmountKept, Owing
<1>5. Balanced(t)
  <2> SUFFICES ASSUME NEW i \in DOMAIN file["account"]
               PROVE  file["account"][i].balance = Booked(file["account"][i].id)
                                                   + Due(t, file["account"][i].id)
    BY DEF Balanced
  <2>1. file["account"][i] \in Range(file["account"])
    BY DEF Range
  <2>2. file["account"][i].balance = Booked(file["account"][i].id)
    BY <1>2, <2>1 DEF BooksAreKept, Booked
  <2>3. Due(t, file["account"][i].id) = 0 /\ file["account"][i].balance \in Int
    BY <1>1, <1>4, AmountTypes DEF Due
  <2> QED
    BY <2>2, <2>3
<1> QED
  BY <1>3, <1>4, <1>5

\* With one client at a time every balance is the sum of its journal entries
\* whenever no transaction on the account is under way, whatever accounts are
\* created and deleted in between: an id that is given out has no entries yet.
\* update_account and append_transaction have to succeed both: with a failing
\* write() or with a second client the sums part (run server_lost).
THEOREM BooksAreBalanced ==
  OneClient /\ NoRestarts /\ Faults = {} /\ NoDoubles /\ BooksAreKept /\ NoStrayEntries
    /\ ServerSpec => []BooksBalance
<1>1. OneClient /\ NoDoubles /\ BooksAreKept /\ NoStrayEntries /\ ServerInit => BooksInv
  BY BooksAtStart
<1>2. OneClient /\ NoRestarts /\ Faults = {} => OneClient' /\ NoRestarts' /\ (Faults = {})'
  BY DEF OneClient, NoRestarts
<1>3. OneClient /\ NoRestarts /\ Faults = {} /\ BooksInv /\ [ServerNext]_allvars => BooksInv'
  BY BooksNext
<1>4. OneClient /\ BooksInv => BooksBalance
  <2> SUFFICES ASSUME OneClient, BooksInv, NEW a \in Range(file["account"]), Settled(a.id)
               PROVE  a.balance = Booked(a.id)
    BY DEF BooksBalance
  <2>1. PICK t \in Threads : Threads = {t}
    BY DEF OneClient
  <2>2. PICK i \in DOMAIN file["account"] : file["account"][i] = a
    BY DEF Range
  <2>3. a.balance = Booked(a.id) + Due(t, a.id)
    BY <2>2 DEF BooksInv, Balanced
  <2>4. Due(t, a.id) = 0
    <3>1. Waiting(t)
      BY DEF BooksInv, OneInv, SInv
    <3>2. Owing(t) => req[t].action = "Transaction" /\ at[t] # "ready"
      BY <3>1 DEF Owing, Waiting
    <3> QED
      BY <3>2 DEF Due, Settled
  <2>5. Booked(a.id) \in Int
    BY AmountTypes DEF BooksInv
  <2> QED
    BY <2>3, <2>4, <2>5
<1> HIDE DEF OneClient, NoRestarts, NoDoubles, BooksAreKept, NoStrayEntries, BooksInv, BooksBalance
<1> QED
  BY <1>1, <1>2, <1>3, <1>4, PTL DEF ServerSpec
===========================================================================
