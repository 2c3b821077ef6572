------------------------------ MODULE MCServer ------------------------------
(***************************************************************************)
(* Instances of Server for TLC.                                            *)
(***************************************************************************)
EXTENDS ServerProperties, TLC

CONSTANT server

Symmetry   == Permutations(Threads)
OneProcess == [t \in Threads |-> server]

Info(password, is_admin) == [password |-> password, is_admin |-> is_admin]

Names     == {"ann", "bob", "eve"}
Details   == [password : {"old", "new"}, is_admin : BOOLEAN]
NoDetails == Info("", FALSE)

User(i, n, a, admin)   == [id |-> i, uname |-> n, aid |-> a,
                           info |-> Info("old", admin)]
Account(i, b)          == [id |-> i, balance |-> b]
Trans(i, a, u, b, c)   == [id |-> i, aid |-> a, uid |-> u, old |-> b, new |-> c]

\* Bob and Ann, an administrator, share account 2; account 1 was that of user
\* 2, who is gone.  The journal accounts for both balances.
Bank == [f \in Files |->
  CASE f = "user"    -> <<User(1, "bob", 2, FALSE), User(3, "ann", 2, TRUE)>>
    [] f = "account" -> <<Account(1, 1), Account(2, 3)>>
    [] f = "trans"   -> <<Trans(1, 1, 2, 0, 1), Trans(2, 2, 1, 0, 3)>>]
Banks == {Bank}

Login(n, password) == [action |-> "Login", uname |-> n, password |-> password]
Amount(n)          == [action |-> "Transaction", amt |-> n]
Password(p)        == [action |-> "PasswordChange", password |-> p]
Create(n, a)       == [action |-> "CreateUser", uname |-> n, aid |-> a,
                       info |-> Info("new", FALSE)]
Modify(i, admin)   == [action |-> "ModifyUser", uid |-> i,
                       info |-> Info("old", admin)]
RemoveUser(i)      == [action |-> "DeleteUser", uid |-> i]
RemoveAccount(i)   == [action |-> "DeleteAccount", aid |-> i]
Plain(action)      == [action |-> action]

Logins    == {Login("ann", "old"), Login("bob", "old")}
BadLogins == {Login("bob", "new"), Login("eve", "old")}

Everything ==
  Logins \cup BadLogins \cup
  { Amount(2), Amount(-2), Plain("BalanceEnquiry"), Plain("ViewDetails"),
    Plain("Logout"), Password("new"), Create("eve", 0), Create("bob", 0),
    Create("eve", 1), Modify(1, TRUE), Modify(2, TRUE), RemoveUser(1),
    RemoveUser(3), RemoveAccount(1), RemoveAccount(2),
    Plain("GetUsers"), Plain("GetAccounts") }

\* Every kind of access to every file: scan, overwrite, append and shift.
Contended ==
  Logins \cup
  { Amount(-2), Plain("ViewDetails"), Plain("Logout"), Modify(1, TRUE),
    Create("eve", 0), RemoveUser(1), RemoveAccount(1) }

\* Nobody is deleted.
Growing ==
  Logins \cup
  { Amount(2), Plain("ViewDetails"), Password("new"), Create("eve", 0),
    Create("eve", 1), Modify(1, TRUE), Plain("GetUsers"), Plain("GetAccounts") }

\* The requests behind the finding.
TwoAmounts == Logins \cup {Amount(2)}
=============================================================================
