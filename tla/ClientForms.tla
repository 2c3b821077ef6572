----------------------------- MODULE ClientForms -----------------------------
(***************************************************************************)
(* client.c, the fixed part: what each entry of the menu asks the user,    *)
(* sends and reports, and the tables it prints.  The steps that all of     *)
(* them share are the actions of Client.                                   *)
(*                                                                         *)
(* Input comes in characters; a number, with its sign, counts as one.      *)
(***************************************************************************)
EXTENDS Table

NL      == "\n"
Positive == << "1", "2", "3", "4", "5", "6", "7", "8", "9", "10", "11", "12",
               "13", "14" >>
Negative == << "-1", "-2", "-3", "-4", "-5", "-6", "-7", "-8", "-9", "-10", "-11",
               "-12", "-13", "-14" >>
Numbers  == {"0"} \cup Range(Positive) \cup Range(Negative)
Blank(c) == c \in {" ", NL}

\* The number of the other sign; what is no number stays what it is.
Negated(n) ==
  IF \E k \in 1..14 : n \in {Positive[k], Negative[k]}
  THEN LET k == CHOOSE k \in 1..14 : n \in {Positive[k], Negative[k]}
       IN  IF n = Positive[k] THEN Negative[k] ELSE Positive[k]
  ELSE n
-----------------------------------------------------------------------------
(* The reads of a form: scanf of a number, fgets, and the getchar that is  *)
(* to drop the newline a scanf has left behind.                            *)

Number(field) == [read |-> "scanf", field |-> field]
Line(field)   == [read |-> "fgets", field |-> field]
DropNewline   == [read |-> "getchar", field |-> "none"]

\* What a function puts into its request behind the reads: amt *= -1, aid = 0.
Negate(field) == [read |-> "negate", field |-> field]
Zero(field)   == [read |-> "zero", field |-> field]

\* action: that of the header.  body: a structure with the fields follows it.
\* named: the failures that have a message of their own.
Entry(action, form, body, named) ==
  [action |-> action, form |-> form, body |-> body, named |-> named]

login           == Entry("Login", <<Line("uname"), Line("password")>>, TRUE, {})
\* Mutant of withdraw: the amount is sent as it was typed.
withdraw_NotNegated == Entry("Transaction", <<Number("amt")>>, TRUE,
                             {"Failure", "NoFunds"})

withdraw        == Entry("Transaction", <<Number("amt"), Negate("amt")>>, TRUE,
                         {"Failure", "NoFunds"})
deposit         == Entry("Transaction", <<Number("amt")>>, TRUE,
                         {"Failure", "NoFunds"})
balance_enquiry == Entry("BalanceEnquiry", <<>>, FALSE, {})
view_details    == Entry("ViewDetails", <<>>, FALSE, {})
logout          == Entry("Logout", <<>>, FALSE, {})
password_change == Entry("PasswordChange", <<DropNewline, Line("password")>>,
                         TRUE, {})
\* Mutant of create_user: the newline behind the menu's number stays.
create_user_KeepsNewline ==
  Entry("CreateUser",
        <<Line("name"), Line("uname"), Line("password"), Number("is_admin"),
          Zero("aid")>>, TRUE, {"Unauthorized", "Conflict"})

\* Mutant of create_user: the account is left as it was on the stack.
create_user_NoAid ==
  Entry("CreateUser",
        <<DropNewline, Line("name"), Line("uname"), Line("password"),
          Number("is_admin")>>, TRUE, {"Unauthorized", "Conflict"})

\* Account 0 is what makes the server create one; see create_joint_user.
create_user     == Entry("CreateUser",
                         <<DropNewline, Line("name"), Line("uname"),
                           Line("password"), Number("is_admin"), Zero("aid")>>,
                         TRUE, {"Unauthorized", "Conflict"})
create_joint_user ==
  Entry("CreateUser",
        <<DropNewline, Line("name"), Line("uname"), Line("password"),
          Number("is_admin"), Number("aid")>>, TRUE,
        {"Unauthorized", "Conflict"})
modify_user     == Entry("ModifyUser",
                         <<Number("uid"), DropNewline, Line("name"),
                           Line("password"), Number("is_admin")>>, TRUE,
                         {"Unauthorized", "NotFound"})
get_users       == Entry("GetUsers", <<>>, FALSE, {"Unauthorized"})
get_accounts    == Entry("GetAccounts", <<>>, FALSE, {"Unauthorized"})
delete_user     == Entry("DeleteUser", <<Number("uid")>>, TRUE,
                         {"Unauthorized", "NotFound"})
\* Mutant of delete_account: the request has no body.
delete_account_NoBody == Entry("DeleteAccount", <<Number("aid")>>, FALSE, {})

delete_account  == Entry("DeleteAccount", <<Number("aid")>>, TRUE,
                         {"Unauthorized", "NotFound", "Conflict"})

Entries ==
  [login |-> login, withdraw |-> withdraw, deposit |-> deposit,
   balance_enquiry |-> balance_enquiry, view_details |-> view_details,
   password_change |-> password_change, create_user |-> create_user,
   create_joint_user |-> create_joint_user, modify_user |-> modify_user,
   get_users |-> get_users, get_accounts |-> get_accounts,
   delete_user |-> delete_user, delete_account |-> delete_account,
   logout |-> logout, invalid |-> Entry("None", <<>>, FALSE, {})]

\* The switch of menu.
Chosen(opt) ==
  LET menu == << "withdraw", "deposit", "balance_enquiry", "view_details",
                 "password_change", "create_user", "create_joint_user",
                 "modify_user", "get_users", "get_accounts", "delete_user",
                 "delete_account", "logout" >>
      label == << "1", "2", "3", "4", "5", "6", "7", "8", "9", "10", "11",
                  "12", "13" >>
  IN  IF \E i \in DOMAIN label : label[i] = opt
      THEN menu[CHOOSE i \in DOMAIN label : label[i] = opt] ELSE "invalid"

\* Mutant of Verdict: whatever has no message of its own is a success.
Verdict_Default(op, stat) == IF stat \in Entries[op].named THEN stat ELSE "Success"

\* What the user is told of a response, "Other" for the message without cause.
Verdict(op, stat) ==
  IF stat \in Entries[op].named \cup {"Success"} THEN stat ELSE "Other"
-----------------------------------------------------------------------------
(* Tables.  A datum [id, w, bars] is what one structure of the server      *)
(* holds: its numbers are w characters long, its strings as well, each     *)
(* string with as many '|' in it as bars says.                             *)

Num(d, i)    == <<Text(<<d.id, i>>, d.w)>>
String(d, i) == [k \in 1..(d.bars + 1) |-> Text(<<d.id, i>>, d.w)]
Title(w)     == Text("title", w)
Label(w)     == <<Title(w)>>

\* A table with the header property on its first row.
Framed == SetCellProp(SetBorderStyle(CreateTable, "double2"),
                      1, AnyPlace, "row_type", "header")
Centred(t) == SetCellProp(t, 1, AnyPlace, "align", "center")

\* One title over all columns, written before or after they are joined.
WriteAndSpan(t, title, n) == SetCellSpan(WriteLn(t, <<title>>), 1, 1, n)
SpanAndWrite(t, title, n) == WriteLn(SetCellSpan(t, 1, 1, n), <<title>>)

PrintAll(t, rows) == FoldLeft(PrintfLn, t, rows)

ReceiptTable(d) ==
  PrintAll(WriteLn(Framed, <<Title(4), Title(5)>>),
           << <<Label(2), Num(d, 1)>>, <<Label(11), Num(d, 2)>>,
              <<Label(15), Num(d, 3)>> >>)

BalanceTable(d) ==
  PrintfLn(Centred(SetCellSpan(WriteLn(Framed, <<Title(15), EmptyText>>), 1, 1, 2)),
           <<Label(7), Num(d, 1)>>)

DetailsTable(d) ==
  PrintAll(WriteLn(SetCellProp(SpanAndWrite(Centred(Framed), Title(24), 2),
                               2, AnyPlace, "row_type", "header"),
                   <<Title(4), Title(5)>>),
           << <<Label(7), Num(d, 1)>>, <<Label(10), Num(d, 2)>>,
              <<Label(4), String(d, 3)>>, <<Label(8), String(d, 4)>>,
              <<Label(8), String(d, 5)>>, <<Label(7), Num(d, 6)>> >>)

NewUserTable(d) ==
  PrintAll(Centred(WriteAndSpan(Framed, Title(16), 2)),
           << <<Label(7), Num(d, 1)>>, <<Label(10), Num(d, 2)>> >>)

UserTable(d) ==
  PrintAll(Centred(WriteAndSpan(Framed, Title(12), 2)),
           << <<Label(4), String(d, 1)>>, <<Label(8), String(d, 2)>>,
              <<Label(8), String(d, 3)>>, <<Label(5), Num(d, 4)>>,
              <<Label(7), Num(d, 5)>>, <<Label(10), Num(d, 6)>> >>)

\* The tables that are complete with the response itself.
TablesOf(op, d) ==
  CASE op \in {"withdraw", "deposit"}              -> <<ReceiptTable(d)>>
    [] op = "balance_enquiry"                      -> <<BalanceTable(d)>>
    [] op = "view_details"                         -> <<DetailsTable(d)>>
    [] op \in {"create_user", "create_joint_user"} -> <<NewUserTable(d)>>
    [] op = "modify_user"                          -> <<UserTable(d)>>
    [] OTHER                                       -> <<>>

Lists == {"view_details", "get_users", "get_accounts"}

\* The head of the table that has a row for each item.
ListHead(op) ==
  CASE op = "view_details" ->
         WriteLn(SetCellProp(SpanAndWrite(Centred(Framed), Title(12), 5),
                             2, AnyPlace, "row_type", "header"),
                 <<Title(2), Title(7), Title(11), Title(11), Title(4)>>)
    [] op = "get_users" ->
         WriteLn(Centred(WriteAndSpan(Framed, Title(5), 6)),
                 <<Title(2), Title(4), Title(8), Title(8), Title(5), Title(10)>>)
    [] op = "get_accounts" ->
         WriteLn(Centred(WriteAndSpan(Framed, Title(8), 2)),
                 <<Title(2), Title(7)>>)

ItemRow(op, d) ==
  CASE op = "view_details" -> [i \in 1..5 |-> Num(d, i)]
    [] op = "get_users"    -> <<Num(d, 1), String(d, 2), String(d, 3),
                                String(d, 4), Num(d, 5), Num(d, 6)>>
    [] op = "get_accounts" -> <<Num(d, 1), Num(d, 2)>>

ListTable(op, items) ==
  PrintAll(ListHead(op), [k \in DOMAIN items |-> ItemRow(op, items[k])])

\* get_users and get_accounts look at the status of an item, view_details
\* does not.
ChecksItems(op) == op \in {"get_users", "get_accounts"}
=============================================================================
