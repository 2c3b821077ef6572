---------------------------- MODULE Client_proofs ----------------------------
(***************************************************************************)
(* Proofs about Client, for any lines the user may type, any buffer length *)
(* and any answers of the server:                                          *)
(*   VerdictsAreTrue         the verdict on the screen is the server's;    *)
(*   ClientsLeaveForAReason  the client exits on its own account only;     *)
(*   RequestsAreAsMeant      what is sent is what the user has asked for.  *)
(* The first two rest on what the two ends of the connection know of each  *)
(* other (RInv), the third on what is in stdin at every prompt (Tidy).     *)
(***************************************************************************)
EXTENDS ClientProperties, SequenceTheorems, TLAPS
-----------------------------------------------------------------------------
(* The functions of the client and their entries.                          *)

Ops == {"login", "withdraw", "deposit", "balance_enquiry", "view_details",
        "password_change", "create_user", "create_joint_user", "modify_user",
        "get_users", "get_accounts", "delete_user", "delete_account", "logout",
        "invalid"}

\* The functions of the client, each with its entry.
LEMMA EntriesAre ==
  /\ DOMAIN Entries = Ops
  /\ Entries["login"] = login /\ Entries["withdraw"] = withdraw
  /\ Entries["deposit"] = deposit
  /\ Entries["balance_enquiry"] = balance_enquiry
  /\ Entries["view_details"] = view_details
  /\ Entries["password_change"] = password_change
  /\ Entries["create_user"] = create_user
  /\ Entries["create_joint_user"] = create_joint_user
  /\ Entries["modify_user"] = modify_user
  /\ Entries["get_users"] = get_users /\ Entries["get_accounts"] = get_accounts
  /\ Entries["delete_user"] = delete_user
  /\ Entries["delete_account"] = delete_account
  /\ Entries["logout"] = logout
  /\ Entries["invalid"] = Entry("None", <<>>, FALSE, {})
BY DEF Entries, Ops

WithBody    == {"Login", "Transaction", "PasswordChange", "CreateUser", "ModifyUser",
                "DeleteUser", "DeleteAccount"}
WithoutBody == {"BalanceEnquiry", "ViewDetails", "Logout", "GetUsers", "GetAccounts"}

\* The entries as a whole: a structure is sent exactly for the actions whose
\* controllers read one.
LEMMA EntryActions ==
  ASSUME NEW o \in Ops \ {"invalid"}
  PROVE  \/ Entries[o].action \in WithBody /\ Entries[o].body = TRUE
         \/ Entries[o].action \in WithoutBody /\ Entries[o].body = FALSE
<1> USE EntriesAre DEF Entry, WithBody, WithoutBody
<1>1. CASE o = "login"
  BY <1>1 DEF login
<1>2. CASE o = "withdraw"
  BY <1>2 DEF withdraw
<1>3. CASE o = "deposit"
  BY <1>3 DEF deposit
<1>4. CASE o = "balance_enquiry"
  BY <1>4 DEF balance_enquiry
<1>5. CASE o = "view_details"
  BY <1>5 DEF view_details
<1>6. CASE o = "password_change"
  BY <1>6 DEF password_change
<1>7. CASE o = "create_user"
  BY <1>7 DEF create_user
<1>8. CASE o = "create_joint_user"
  BY <1>8 DEF create_joint_user
<1>9. CASE o = "modify_user"
  BY <1>9 DEF modify_user
<1>10. CASE o = "get_users"
  BY <1>10 DEF get_users
<1>11. CASE o = "get_accounts"
  BY <1>11 DEF get_accounts
<1>12. CASE o = "delete_user"
  BY <1>12 DEF delete_user
<1>13. CASE o = "delete_account"
  BY <1>13 DEF delete_account
<1>14. CASE o = "logout"
  BY <1>14 DEF logout
<1> QED  BY <1>1, <1>2, <1>3, <1>4, <1>5, <1>6, <1>7, <1>8, <1>9, <1>10, <1>11, <1>12, <1>13, <1>14 DEF Ops

\* Every action has its answers.
LEMMA ActionsHaveAnswers == WithBody \cup WithoutBody \subseteq DOMAIN StatusesOf
BY DEF WithBody, WithoutBody, StatusesOf

LEMMA BodiesAreRead ==
  ASSUME NEW action \in WithBody \cup WithoutBody
  PROVE  ReadsBody(action) <=> action \in WithBody
BY DEF ReadsBody, WithBody, WithoutBody

\* The menu calls any function but login, or none.
LEMMA ChosenIsEntry == ASSUME NEW x PROVE Chosen(x) \in Ops \ {"login"}
<1> DEFINE menu == << "withdraw", "deposit", "balance_enquiry", "view_details",
                 "password_change", "create_user", "create_joint_user",
                 "modify_user", "get_users", "get_accounts", "delete_user",
                 "delete_account", "logout" >>
           label == << "1", "2", "3", "4", "5", "6", "7", "8", "9", "10", "11",
                  "12", "13" >>
<1>1. \A k \in 1..13 : menu[k] \in Ops \ {"login"}
  BY DEF Ops
<1>2. DOMAIN label = 1..13
  OBVIOUS
<1>3. CASE \E k \in DOMAIN label : label[k] = x
  <2>1. PICK k \in 1..13 : k = CHOOSE j \in DOMAIN label : label[j] = x
    BY <1>2, <1>3
  <2>2. Chosen(x) = menu[k]
    BY <1>3, <2>1 DEF Chosen
  <2> QED  BY <1>1, <2>2
<1>4. CASE ~ \E k \in DOMAIN label : label[k] = x
  BY <1>4 DEF Chosen, Ops
<1> QED  BY <1>3, <1>4

Message == Response \cup Item

\* A sequence of messages with at least one is answered to every action.
LEMMA AnswersAreMessages ==
  ASSUME NEW action \in DOMAIN StatusesOf, NEW a \in AnswersTo(action)
  PROVE  a \in Seq(Message) \ {<<>>}
<1>1. ASSUME NEW b \in PlainAnswers(action) PROVE b \in Seq(Message) \ {<<>>}
  <2>1. StatusesOf[action] \subseteq Status
    BY DEF StatusesOf, Status
  <2>2. PICK r \in [stat : StatusesOf[action], num : {0}, d : Data] : b = <<r>>
    BY <1>1 DEF PlainAnswers
  <2>3. r \in Message
    BY <2>1, BoundsAssumption DEF Message, Response
  <2> QED  BY <2>2, <2>3
<1>2. ASSUME NEW n \in 0..MaxItems, NEW b \in ListAnswers(n)
      PROVE  b \in Seq(Message) \ {<<>>}
  <2>1. PICK r \in [stat : {"Success"}, num : {n}, d : Data], items \in ItemsBehind(n) :
          b = <<r>> \o items
    BY DEF ListAnswers
  <2>2. r \in Message
    BY <1>2, BoundsAssumption DEF Message, Response, Status
  <2>3. \E m \in Nat : items \in [1..m -> Message]
    <3>1. 1 \in Nat /\ n \in Nat
      BY BoundsAssumption
    <3>2. [stat : {"Success"}, d : Data] \subseteq Message
      BY DEF Message, Item
    <3>3. [stat : {"Failure"}, d : Data] \subseteq Message
      BY DEF Message, Item
    <3> QED  BY <3>1, <3>2, <3>3 DEF ItemsBehind
  <2>4. items \in Seq(Message) /\ <<r>> \in Seq(Message)
    BY <2>2, <2>3
  <2>5. b \in Seq(Message) /\ Len(b) = 1 + Len(items)
    BY <2>1, <2>4
  <2> QED  BY <2>4, <2>5
<1>3. a \in PlainAnswers(action) \/ \E n \in 0..MaxItems : a \in ListAnswers(n)
  BY DEF AnswersTo
<1> QED  BY <1>1, <1>2, <1>3
-----------------------------------------------------------------------------
(* What is reported: the connection, from both ends.                       *)

NothingSentYet == pc \in {"form", "header", "body"} => answer = <<>> /\ inbox = <<>>

LEMMA AppendToOne == ASSUME NEW x, NEW y PROVE Append(<<x>>, y) = <<x, y>>
<1>1. <<x>> \in Seq({x, y}) /\ <<x, y>> \in Seq({x, y})
  OBVIOUS
<1>2. /\ Append(<<x>>, y) \in Seq({x, y}) /\ Len(Append(<<x>>, y)) = 2
      /\ \A k \in 1..2 : Append(<<x>>, y)[k] = <<x, y>>[k]
  BY <1>1
<1>3. Len(<<x, y>>) = 2
  OBVIOUS
<1> QED  BY <1>1, <1>2, <1>3, SeqEqual

\* What the server has received, where it could be answered or is on its way.
AskedInOrder ==
  /\ sd # "open" \/ pc \notin {"body", "response"} => asked = <<>>
  /\ sd = "open" /\ pc = "body" => asked = <<Header>> /\ Entries[op].body = TRUE
  /\ sd = "open" /\ pc = "response" =>
       \/ Entries[op].body = TRUE /\ \E x : asked = <<Header, x>>
       \/ Entries[op].body = FALSE /\ asked = <<Header>>

WireOK ==
  /\ op \in Ops
  /\ pc \in {"form", "header", "body", "response", "items"} => op # "invalid"
  /\ sd \in {"none", "open", "ended"}
  /\ pc \in {"menu", "connect"} => sd = "none"
  /\ answer \in Seq(Message)
  /\ cut => ~up
  /\ sd # "ended" => answer = <<>> /\ inbox = <<>> /\ report = "none"
  /\ sd = "ended" /\ answer = <<>> => cut
  /\ NothingSentYet
  /\ pc = "response" => inbox = answer

RInv == WireOK /\ AskedInOrder /\ ReportIsTrue

\* A request that is complete is that of the function the client is in, which
\* has been sent as a whole; before that the server has no action to answer.
LEMMA CompleteMeansSent ==
  ASSUME RInv, sd = "open", Complete
  PROVE  pc = "response" /\ asked[1] \in DOMAIN StatusesOf
<1>1. asked # <<>>
  BY DEF Complete
<1>2. pc \in {"body", "response"}
  BY <1>1 DEF RInv, AskedInOrder
<1>3. /\ op \in Ops \ {"invalid"}
  BY <1>2 DEF RInv, WireOK
<1>4. Header \in WithBody \cup WithoutBody
  BY <1>3, EntryActions DEF Header
<1>5. asked[1] = Header
  BY <1>2 DEF RInv, AskedInOrder
<1>6. CASE pc = "body"
  <2>1. asked = <<Header>> /\ Entries[op].body = TRUE
    BY <1>6 DEF RInv, AskedInOrder
  <2>2. Header \in WithBody
    BY <2>1, <1>3, EntryActions DEF Header
  <2>3. ReadsBody(asked[1])
    BY <2>2, <1>5, BodiesAreRead
  <2> QED  BY <2>1, <2>3 DEF Complete
<1> QED  BY <1>2, <1>4, <1>5, <1>6, ActionsHaveAnswers

LEMMA InitR == Init => RInv
BY DEF Init, RInv, WireOK, AskedInOrder, NothingSentYet, ReportIsTrue, Ops

LEMMA NextR == RInv /\ [Next]_vars => RInv'
<1> SUFFICES ASSUME RInv, [Next]_vars PROVE RInv'
  OBVIOUS
<1>d. op \in Ops /\ answer \in Seq(Message)
  BY DEF RInv, WireOK
<1> USE DEF RInv, WireOK, AskedInOrder, NothingSentYet, ReportIsTrue
<1>1. CASE ConnectToServer
  BY <1>1 DEF ConnectToServer, AfterRead, Header, buffers, form, user
<1>2. CASE ReadOption
  <2>1. op' \in Ops
    BY <1>2, ChosenIsEntry, EntriesAre DEF ReadOption
  <2> QED  BY <1>2, <2>1 DEF ReadOption, form, wire
<1>3. CASE ReadNumber \/ ReadLine \/ SkipNewline \/ Assign
  <2>1. /\ UNCHANGED <<op, sd, asked, inbox, answer, report, up, cut>>
        /\ pc = "form" /\ pc' \in {"enter", "header", "form"}
    BY <1>3 DEF ReadNumber, ReadLine, SkipNewline, Assign, ReadDone, AfterRead, wire
  <2> QED  BY <2>1
<1>4. CASE WriteHeader
  <2>1. Entries[op].body \in BOOLEAN
    BY <1>4, <1>d, EntryActions DEF WriteHeader
  <2>2. asked' = IF sd = "open" THEN <<Header>> ELSE <<>>
    BY <1>4 DEF WriteHeader, Deliver
  <2> QED  BY <1>4, <2>1, <2>2 DEF WriteHeader, Header
<1>5. CASE WriteBody
  <2>1. sd = "open" => asked' = <<Header, Body>>
    <3>1. sd = "open" => asked = <<Header>>
      BY <1>5 DEF WriteBody
    <3> HIDE DEF WireOK, AskedInOrder, NothingSentYet, ReportIsTrue
    <3> QED  BY <1>5, <3>1, AppendToOne DEF WriteBody, Deliver
  <2>2. sd # "open" => asked' = <<>>
    BY <1>5 DEF WriteBody, Deliver
  <2> QED  BY <1>5, <2>1, <2>2 DEF WriteBody, Header
<1>6. CASE WriteFails
  BY <1>6 DEF WriteFails, Over, wire
<1>7. CASE BrokenPipe
  BY <1>7 DEF BrokenPipe, wire
<1>8. CASE ReadResponse
  <2>1. PICK message \in Response :
          /\ Received(message, Response, NoMessage)
          /\ report' = Verdict(op, message.stat)
          /\ pc' \in {"items", "close", "enter"}
          /\ pc = "response"
          /\ UNCHANGED <<op, sd, asked, answer, up, cut>>
    BY <1>8 DEF ReadResponse, Over
  <2>2. sd = "ended"
    BY <2>1 DEF Received
  <2>3. CASE answer # <<>>
    <3>1. message = answer[1]
      BY <2>1, <2>3 DEF Received
    <3>2. /\ report' = "Success" <=> answer[1].stat = "Success"
          /\ report' \in {"Other", answer[1].stat}
      BY <2>1, <3>1 DEF Verdict
    <3> QED  BY <2>1, <2>2, <2>3, <3>2
  <2>4. CASE answer = <<>>
    BY <2>1, <2>2, <2>4
  <2> QED  BY <2>3, <2>4
<1>9. CASE ReadFails
  BY <1>9 DEF ReadFails, Over, wire
<1>10. CASE ReadItem \/ ReadItemFails \/ PrintItems
  <2>1. /\ UNCHANGED <<op, sd, asked, answer, report, up, cut>>
        /\ sd # "ended" => UNCHANGED inbox
        /\ pc = "items" /\ pc' \in {"items", "close", "enter"}
    BY <1>10 DEF ReadItem, ReadItemFails, PrintItems, Received, Over, wire
  <2> QED  BY <2>1
<1>11. CASE WaitForEnter \/ SkipRest
  BY <1>11 DEF WaitForEnter, SkipRest, wire
<1>12. CASE Close
  BY <1>12 DEF Close, Fresh
<1>13. CASE Types
  <2>1. UNCHANGED <<pc, op, wire, report, up, cut>>
    BY <1>13 DEF Types, Type
  <2> QED  BY <2>1 DEF wire, Header
<1>14. CASE Answer
  <2>1. pc = "response" /\ asked[1] \in DOMAIN StatusesOf
    BY <1>14, CompleteMeansSent DEF Answer
  <2>2. answer' \in Seq(Message) \ {<<>>}
    BY <1>14, <2>1, AnswersAreMessages DEF Answer
  <2> QED  BY <1>14, <2>1, <2>2 DEF Answer, Ended
<1>15. CASE Stop
  <2>1. CASE sd # "open"
    BY <1>15, <2>1 DEF Stop, wire
  <2>2. CASE sd = "open"
    <3>1. /\ answer' \in Seq(Message)
          /\ answer' # <<>> => pc = "response"
      <4>1. CASE answer' = <<>>
        BY <4>1
      <4>2. CASE answer' # <<>>
        <5>1. /\ Complete
              /\ answer' \in UNION { { SubSeq(a, 1, n) : n \in 1..(Len(a) - 1) } :
                                       a \in AnswersTo(asked[1]) }
          BY <1>15, <2>2, <4>2 DEF Stop
        <5>2. pc = "response" /\ asked[1] \in DOMAIN StatusesOf
          BY <2>2, <5>1, CompleteMeansSent
        <5>3. PICK a \in AnswersTo(asked[1]) :
                \E n \in 1..(Len(a) - 1) : answer' = SubSeq(a, 1, n)
          BY <5>1
        <5>4. a \in Seq(Message)
          BY <5>2, AnswersAreMessages
        <5> QED  BY <5>2, <5>3, <5>4
      <4> QED  BY <4>1, <4>2
    <3> QED  BY <1>15, <2>2, <3>1 DEF Stop, Ended
  <2> QED  BY <2>1, <2>2
<1>16. CASE UNCHANGED vars
  BY <1>16 DEF vars, wire, form, user, buffers, Header
<1> QED  BY <1>1, <1>2, <1>3, <1>4, <1>5, <1>6, <1>7, <1>8, <1>9, <1>10, <1>11,
            <1>12, <1>13, <1>14, <1>15, <1>16 DEF Next, Work, Finished

\* Success is reported if and only if the server has answered so.
THEOREM VerdictsAreTrue == Spec => []ReportIsTrue
<1>1. Spec => []RInv
  BY InitR, NextR, PTL DEF Spec
<1>2. RInv => ReportIsTrue
  BY DEF RInv
<1> QED  BY <1>1, <1>2, PTL

\* The client exits on its own account, or because there is no server.
THEOREM ClientsLeaveForAReason == Spec => LeavesForAReason
<1> DEFINE Leaves == pc # "exit" /\ pc' = "exit" => op \in {"login", "logout"} \/ ~up
<1>1. RInv /\ [Next]_vars => [Leaves]_vars
  <2> SUFFICES ASSUME RInv, Next, pc # "exit", pc' = "exit"
               PROVE  op \in {"login", "logout"} \/ ~up
    OBVIOUS
  <2>1. CASE ConnectToServer
    BY <2>1 DEF ConnectToServer, AfterRead
  <2>2. CASE BrokenPipe
    BY <2>2 DEF BrokenPipe, RInv, WireOK, NothingSentYet
  <2>3. CASE Close
    BY <2>3 DEF Close, Fresh
  <2>4. ~ReadOption /\ ~ReadNumber /\ ~ReadLine /\ ~SkipNewline /\ ~Assign
    BY DEF ReadOption, ReadNumber, ReadLine, SkipNewline, Assign, ReadDone, AfterRead
  <2>5. ~WriteHeader /\ ~WriteBody /\ ~WriteFails /\ ~ReadResponse /\ ~ReadFails
    BY DEF WriteHeader, WriteBody, WriteFails, ReadResponse, ReadFails, Over
  <2>6. ~ReadItem /\ ~ReadItemFails /\ ~PrintItems /\ ~WaitForEnter /\ ~SkipRest
    BY DEF ReadItem, ReadItemFails, PrintItems, WaitForEnter, SkipRest, Over
  <2>7. ~Types /\ ~Answer /\ ~Stop /\ ~Finished
    BY DEF Types, Type, Answer, Stop, Finished, vars
  <2> QED  BY <2>1, <2>2, <2>3, <2>4, <2>5, <2>6, <2>7 DEF Next, Work
<1>2. Spec => []RInv
  BY InitR, NextR, PTL DEF Spec
<1> QED  BY <1>1, <1>2, PTL DEF Spec, LeavesForAReason
-----------------------------------------------------------------------------
(* What is sent: stdin, between the prompts and the reads.                 *)

\* Whether a read of a form finds the newline that the read before it, the
\* menu's to start with, has left.
NewlineLeft(o, k) ==
  IF k = 1 THEN o # "login" ELSE Entries[o].form[k - 1].read = "scanf"

LeftOver(o, k) == IF NewlineLeft(o, k) THEN <<NL>> ELSE <<>>

FittingLine(line) ==
  /\ line \in Seq(STRING) \ {<<>>} /\ Len(line) < LineMax
  /\ line[Len(line)] = NL /\ \A k \in 1..(Len(line) - 1) : line[k] \notin {NL, Unset}

\* stdin when a field is to be read: as the reads before have left it, or with
\* the user's answer behind that.
NumberTyped ==
  \E n \in Numbers :
    /\ typed.fields[Reads[step].field] = <<n>>
    /\ input = IF NewlineLeft(op, step) THEN <<NL, n, NL>> ELSE <<n, NL>>
LineTyped == FittingLine(input) /\ typed.fields[Reads[step].field] = Front(input)

AtRead ==
  \/ input = LeftOver(op, step)
  \/ Reads[step].read = "scanf" /\ NumberTyped
  \/ Reads[step].read = "fgets" /\ LineTyped

IsRead(r) == r.read \in {"scanf", "fgets", "getchar"}

\* The fields that have been read: numbers are numbers, and texts were typed.
FieldsAsTyped ==
  \A k \in DOMAIN Reads :
    k < step /\ IsRead(Reads[k]) /\ Reads[k].field # "none" =>
      /\ fields[Reads[k].field] = typed.fields[Reads[k].field]
      /\ fields[Reads[k].field] # NoText
      /\ Reads[k].read = "scanf" => \E n \in Numbers : fields[Reads[k].field] = <<n>>

\* The request once it is filled in.
FieldsAsMeant ==
  Entries[op].body = TRUE =>
    \A f \in Structure[Header] : fields[f] = Meant(f) /\ fields[f] # NoText

\* Where the client is, as far as it matters here.
InForm ==
  /\ fields = [f \in Fields |-> fields[f]]
  /\ typed = [opt |-> typed.opt, fields |-> [f \in Fields |-> typed.fields[f]]]
  /\ step \in Nat \ {0}
  /\ pc \in {"menu", "connect"} => step = 1
  /\ pc = "form" => step \in DOMAIN Reads

TidyMenu ==
  pc = "menu" =>
    input = <<>> \/ \E n \in Numbers : input = <<n, NL>> /\ typed.opt = n
TidyStart ==
  pc = "connect" =>
    IF op = "login" THEN input = <<>> ELSE input = <<NL>> /\ op = Chosen(typed.opt)
TidyForm ==
  sd = "open" /\ pc \in {"form", "header", "body"} =>
    /\ op # "login" => op = Chosen(typed.opt)
    /\ pc = "form" => FieldsAsTyped /\ AtRead
    /\ pc # "form" => FieldsAsMeant

Tidy == InForm /\ (clean => TidyMenu /\ TidyStart /\ TidyForm)

\* What holds of every form, whether it follows the menu's newline or not: a
\* line is read where no newline is left, a newline is dropped where one is,
\* and no field is read twice.
SoundRead(asks, k, left) ==
  /\ asks[k].read \in {"scanf", "fgets", "getchar"}
  /\ asks[k].field \in Fields \cup {"none"}
  /\ asks[k].read = "getchar" <=> asks[k].field = "none"
  /\ asks[k].read = "fgets" => ~left
  /\ asks[k].read = "getchar" => left

\* Two functions end with an assignment, no other has one.
SoundAssign(o, r) ==
  \/ o = "withdraw" /\ r = Negate("amt")
  \/ o = "create_user" /\ r = Zero("aid")

SoundForm(o) ==
  LET asks == Entries[o].form IN
  /\ DOMAIN asks = 1..Len(asks) /\ Len(asks) \in Nat
  /\ \A k \in 1..Len(asks) :
       IF IsRead(asks[k]) THEN SoundRead(asks, k, NewlineLeft(o, k))
       ELSE k = Len(asks) /\ SoundAssign(o, asks[k])
  /\ \A j, k \in 1..Len(asks) :
       IsRead(asks[j]) /\ IsRead(asks[k]) /\ asks[j].field = asks[k].field => j = k

\* A form of n steps is sound if all of them are reads, or all but the last.
LEMMA SoundSteps ==
  ASSUME NEW o, NEW n \in Nat,
         DOMAIN Entries[o].form = 1..n, Len(Entries[o].form) = n,
         \A k \in 1..n :
           \/ SoundRead(Entries[o].form, k, NewlineLeft(o, k))
           \/ /\ k = n /\ ~IsRead(Entries[o].form[n])
              /\ SoundAssign(o, Entries[o].form[n]),
         \A j, k \in 1..n :
           /\ IsRead(Entries[o].form[j]) /\ IsRead(Entries[o].form[k])
           /\ Entries[o].form[j].field = Entries[o].form[k].field
           => j = k
  PROVE  SoundForm(o)
<1>1. \A k \in 1..n : SoundRead(Entries[o].form, k, NewlineLeft(o, k))
                        => IsRead(Entries[o].form[k])
  BY DEF SoundRead, IsRead
<1> QED  BY <1>1 DEF SoundForm

LEMMA FormsAreSound == ASSUME NEW o \in Ops PROVE SoundForm(o)
<1> USE EntriesAre DEF Entry, Number, Line, DropNewline, IsRead
<1>1. CASE o \in {"balance_enquiry", "view_details", "logout", "get_users",
                  "get_accounts", "invalid"}
  <2>1. Entries[o].form = <<>>
    BY <1>1 DEF balance_enquiry, view_details, logout, get_users, get_accounts
  <2> QED  BY <2>1 DEF SoundForm
<1>2. CASE o \in {"deposit", "delete_user", "delete_account"}
  <2>1. \E f \in Fields : Entries[o].form = <<Number(f)>>
    BY <1>2 DEF deposit, delete_user, delete_account, Fields
  <2> QED  BY <2>1 DEF SoundForm, SoundRead, Fields
<1>3. CASE o = "login"
  <2> DEFINE asks == Entries[o].form
  <2>1. /\ DOMAIN asks = 1..2 /\ Len(asks) = 2
        /\ asks[1] = Line("uname")
        /\ asks[2] = Line("password")
    BY <1>3 DEF login
  <2> HIDE DEF asks
  <2>2. \A j, k \in 1..2 : asks[j].field = asks[k].field => j = k
    BY <2>1
  <2>3. \A k \in 1..2 : SoundRead(asks, k, NewlineLeft(o, k))
    <3>1. SoundRead(asks, 1, NewlineLeft(o, 1))
      BY <1>3, <2>1 DEF SoundRead, NewlineLeft, Fields, asks
    <3>2. SoundRead(asks, 2, NewlineLeft(o, 2))
      BY <1>3, <2>1 DEF SoundRead, NewlineLeft, Fields, asks
    <3> QED  BY <3>1, <3>2
  <2> QED  BY <2>1, <2>2, <2>3 DEF SoundForm, asks
<1>4. CASE o = "password_change"
  <2> DEFINE asks == Entries[o].form
  <2>1. /\ DOMAIN asks = 1..2 /\ Len(asks) = 2
        /\ asks[1] = DropNewline
        /\ asks[2] = Line("password")
    BY <1>4 DEF password_change
  <2> HIDE DEF asks
  <2>2. \A j, k \in 1..2 : asks[j].field = asks[k].field => j = k
    BY <2>1
  <2>3. \A k \in 1..2 : SoundRead(asks, k, NewlineLeft(o, k))
    <3>1. SoundRead(asks, 1, NewlineLeft(o, 1))
      BY <1>4, <2>1 DEF SoundRead, NewlineLeft, Fields, asks
    <3>2. SoundRead(asks, 2, NewlineLeft(o, 2))
      BY <1>4, <2>1 DEF SoundRead, NewlineLeft, Fields, asks
    <3> QED  BY <3>1, <3>2
  <2> QED  BY <2>1, <2>2, <2>3 DEF SoundForm, asks
<1>5. CASE o = "create_user"
  <2> DEFINE asks == Entries[o].form
  <2>1. /\ DOMAIN asks = 1..6 /\ Len(asks) = 6
        /\ asks[1] = DropNewline
        /\ asks[2] = Line("name")
        /\ asks[3] = Line("uname")
        /\ asks[4] = Line("password")
        /\ asks[5] = Number("is_admin")
        /\ asks[6] = Zero("aid")
    BY <1>5 DEF create_user
  <2> HIDE DEF asks
  <2>2. \A j, k \in 1..6 :
          IsRead(asks[j]) /\ IsRead(asks[k]) /\ asks[j].field = asks[k].field => j = k
    BY <2>1 DEF Zero
  <2>3. \A k \in 1..5 : SoundRead(asks, k, NewlineLeft(o, k))
    <3>1. SoundRead(asks, 1, NewlineLeft(o, 1))
      BY <1>5, <2>1 DEF SoundRead, NewlineLeft, Fields, asks
    <3>2. SoundRead(asks, 2, NewlineLeft(o, 2))
      BY <1>5, <2>1 DEF SoundRead, NewlineLeft, Fields, asks
    <3>3. SoundRead(asks, 3, NewlineLeft(o, 3))
      BY <1>5, <2>1 DEF SoundRead, NewlineLeft, Fields, asks
    <3>4. SoundRead(asks, 4, NewlineLeft(o, 4))
      BY <1>5, <2>1 DEF SoundRead, NewlineLeft, Fields, asks
    <3>5. SoundRead(asks, 5, NewlineLeft(o, 5))
      BY <1>5, <2>1 DEF SoundRead, NewlineLeft, Fields, asks
    <3> QED  BY <3>1, <3>2, <3>3, <3>4, <3>5
  <2>4. ~IsRead(asks[6]) /\ SoundAssign(o, asks[6])
    BY <1>5, <2>1 DEF SoundAssign, Zero
  <2>5. \A k \in 1..6 : k \in 1..5 \/ k = 6
    OBVIOUS
  <2>6. DOMAIN asks = 1..6 /\ Len(asks) = 6
    BY <2>1
  <2> HIDE EntriesAre DEF IsRead
  <2>7. \A k \in 1..6 :
          \/ SoundRead(asks, k, NewlineLeft(o, k))
          \/ k = 6 /\ ~IsRead(asks[6]) /\ SoundAssign(o, asks[6])
    BY <2>3, <2>4, <2>5
  <2> QED  BY <2>2, <2>6, <2>7, SoundSteps DEF asks
<1>6. CASE o = "create_joint_user"
  <2> DEFINE asks == Entries[o].form
  <2>1. /\ DOMAIN asks = 1..6 /\ Len(asks) = 6
        /\ asks[1] = DropNewline
        /\ asks[2] = Line("name")
        /\ asks[3] = Line("uname")
        /\ asks[4] = Line("password")
        /\ asks[5] = Number("is_admin")
        /\ asks[6] = Number("aid")
    BY <1>6 DEF create_joint_user
  <2> HIDE DEF asks
  <2>2. \A j, k \in 1..6 : asks[j].field = asks[k].field => j = k
    BY <2>1
  <2>3. \A k \in 1..6 : SoundRead(asks, k, NewlineLeft(o, k))
    <3>1. SoundRead(asks, 1, NewlineLeft(o, 1))
      BY <1>6, <2>1 DEF SoundRead, NewlineLeft, Fields, asks
    <3>2. SoundRead(asks, 2, NewlineLeft(o, 2))
      BY <1>6, <2>1 DEF SoundRead, NewlineLeft, Fields, asks
    <3>3. SoundRead(asks, 3, NewlineLeft(o, 3))
      BY <1>6, <2>1 DEF SoundRead, NewlineLeft, Fields, asks
    <3>4. SoundRead(asks, 4, NewlineLeft(o, 4))
      BY <1>6, <2>1 DEF SoundRead, NewlineLeft, Fields, asks
    <3>5. SoundRead(asks, 5, NewlineLeft(o, 5))
      BY <1>6, <2>1 DEF SoundRead, NewlineLeft, Fields, asks
    <3>6. SoundRead(asks, 6, NewlineLeft(o, 6))
      BY <1>6, <2>1 DEF SoundRead, NewlineLeft, Fields, asks
    <3> QED  BY <3>1, <3>2, <3>3, <3>4, <3>5, <3>6
  <2>4. DOMAIN asks = 1..6 /\ Len(asks) = 6
    BY <2>1
  <2> HIDE EntriesAre DEF IsRead
  <2> QED  BY <2>2, <2>3, <2>4, SoundSteps DEF asks
<1>7. CASE o = "modify_user"
  <2> DEFINE asks == Entries[o].form
  <2>1. /\ DOMAIN asks = 1..5 /\ Len(asks) = 5
        /\ asks[1] = Number("uid")
        /\ asks[2] = DropNewline
        /\ asks[3] = Line("name")
        /\ asks[4] = Line("password")
        /\ asks[5] = Number("is_admin")
    BY <1>7 DEF modify_user
  <2> HIDE DEF asks
  <2>2. \A j, k \in 1..5 : asks[j].field = asks[k].field => j = k
    BY <2>1
  <2>3. \A k \in 1..5 : SoundRead(asks, k, NewlineLeft(o, k))
    <3>1. SoundRead(asks, 1, NewlineLeft(o, 1))
      BY <1>7, <2>1 DEF SoundRead, NewlineLeft, Fields, asks
    <3>2. SoundRead(asks, 2, NewlineLeft(o, 2))
      BY <1>7, <2>1 DEF SoundRead, NewlineLeft, Fields, asks
    <3>3. SoundRead(asks, 3, NewlineLeft(o, 3))
      BY <1>7, <2>1 DEF SoundRead, NewlineLeft, Fields, asks
    <3>4. SoundRead(asks, 4, NewlineLeft(o, 4))
      BY <1>7, <2>1 DEF SoundRead, NewlineLeft, Fields, asks
    <3>5. SoundRead(asks, 5, NewlineLeft(o, 5))
      BY <1>7, <2>1 DEF SoundRead, NewlineLeft, Fields, asks
    <3> QED  BY <3>1, <3>2, <3>3, <3>4, <3>5
  <2>4. DOMAIN asks = 1..5 /\ Len(asks) = 5
    BY <2>1
  <2> HIDE EntriesAre DEF IsRead
  <2> QED  BY <2>2, <2>3, <2>4, SoundSteps DEF asks
<1>8. CASE o = "withdraw"
  <2> DEFINE asks == Entries[o].form
  <2>1. /\ DOMAIN asks = 1..2 /\ Len(asks) = 2
        /\ asks[1] = Number("amt")
        /\ asks[2] = Negate("amt")
    BY <1>8 DEF withdraw
  <2> HIDE DEF asks
  <2>2. SoundRead(asks, 1, NewlineLeft(o, 1)) /\ IsRead(asks[1])
    BY <2>1 DEF SoundRead, Fields
  <2>3. ~IsRead(asks[2]) /\ SoundAssign(o, asks[2])
    BY <1>8, <2>1 DEF SoundAssign, Negate
  <2> QED  BY <2>1, <2>2, <2>3 DEF SoundForm, asks
<1> QED  BY <1>1, <1>2, <1>3, <1>4, <1>5, <1>6, <1>7, <1>8 DEF Ops

\* Every field of a structure is read by its form, but for the account of a user
\* without a joint account.  Where an amount is negated it has been read before.
Filled(o) ==
  LET asks == Entries[o].form IN
  /\ Len(asks) # 0
  /\ Structure[Entries[o].action] \subseteq Fields
  /\ o = "withdraw" => /\ Structure[Entries[o].action] = {"amt"} /\ Len(asks) = 2
                       /\ asks[1] = Number("amt") /\ asks[2] = Negate("amt")
  /\ o = "create_user" => asks[Len(asks)] = Zero("aid")
  /\ \A f \in Structure[Entries[o].action] :
       \/ o = "create_user" /\ f = "aid"
       \/ \E k \in 1..Len(asks) : IsRead(asks[k]) /\ asks[k].field = f

LEMMA FormsFillStructures ==
  ASSUME NEW o \in Ops \ {"invalid"}, Entries[o].body = TRUE PROVE Filled(o)
<1> USE EntriesAre DEF Entry, Number, Line, DropNewline, Zero, IsRead, Structure, Fields
<1>1. CASE o = "login"
  BY <1>1 DEF login, Filled
<1>2. CASE o = "withdraw"
  BY <1>2 DEF withdraw, Filled
<1>3. CASE o \in {"deposit", "delete_user", "delete_account"}
  BY <1>3 DEF deposit, delete_user, delete_account, Filled
<1>4. CASE o = "password_change"
  <2> DEFINE asks == Entries[o].form
  <2>1. /\ Len(asks) = 2 /\ Structure[Entries[o].action] = {"password"}
        /\ asks[2] = Line("password")
    BY <1>4 DEF password_change
  <2> HIDE DEF asks
  <2> QED  BY <1>4, <2>1 DEF Filled, asks
<1>5. CASE o = "create_user"
  <2> DEFINE asks == Entries[o].form
  <2>1. /\ Len(asks) = 6
        /\ Structure[Entries[o].action] =
             {"name", "uname", "password", "is_admin", "aid"}
        /\ asks[2] = Line("name") /\ asks[3] = Line("uname")
        /\ asks[4] = Line("password") /\ asks[5] = Number("is_admin")
        /\ asks[6] = Zero("aid")
    BY <1>5 DEF create_user
  <2> HIDE DEF asks
  <2>2. \A k \in 2..5 : IsRead(asks[k])
    BY <2>1
  <2>3. \A f \in {"name", "uname", "password", "is_admin"} :
          \E k \in 2..5 : asks[k].field = f
    BY <2>1
  <2>4. \A f \in Structure[Entries[o].action] :
          \/ o = "create_user" /\ f = "aid"
          \/ \E k \in 1..Len(asks) : IsRead(asks[k]) /\ asks[k].field = f
    <3> HIDE DEF IsRead, Structure
    <3> QED  BY <1>5, <2>1, <2>2, <2>3
  <2>5. asks[Len(asks)] = Zero("aid") /\ Structure[Entries[o].action] \subseteq Fields
    BY <2>1
  <2> HIDE DEF IsRead, Structure, Fields, Zero
  <2> QED  BY <1>5, <2>1, <2>4, <2>5 DEF Filled, asks
<1>6. CASE o = "create_joint_user"
  <2> DEFINE asks == Entries[o].form
  <2>1. /\ Len(asks) = 6
        /\ Structure[Entries[o].action] =
             {"name", "uname", "password", "is_admin", "aid"}
        /\ asks[2] = Line("name") /\ asks[3] = Line("uname")
        /\ asks[4] = Line("password") /\ asks[5] = Number("is_admin")
        /\ asks[6] = Number("aid")
    BY <1>6 DEF create_joint_user
  <2> HIDE DEF asks
  <2>2. \A k \in 2..6 : IsRead(asks[k])
    BY <2>1
  <2>3. \A f \in {"name", "uname", "password", "is_admin", "aid"} :
          \E k \in 2..6 : asks[k].field = f
    BY <2>1
  <2>4. \A f \in Structure[Entries[o].action] :
          \E k \in 1..Len(asks) : IsRead(asks[k]) /\ asks[k].field = f
    <3> HIDE DEF IsRead, Structure
    <3> QED  BY <2>1, <2>2, <2>3
  <2>5. Structure[Entries[o].action] \subseteq Fields
    BY <2>1
  <2> HIDE DEF IsRead, Structure, Fields, Zero
  <2> QED  BY <1>6, <2>1, <2>4, <2>5 DEF Filled, asks
<1>7. CASE o = "modify_user"
  <2> DEFINE asks == Entries[o].form
  <2>1. /\ Len(asks) = 5
        /\ Structure[Entries[o].action] = {"name", "password", "is_admin", "uid"}
        /\ asks[1] = Number("uid") /\ asks[3] = Line("name")
        /\ asks[4] = Line("password") /\ asks[5] = Number("is_admin")
    BY <1>7 DEF modify_user
  <2> HIDE DEF asks
  <2>2. \A k \in {1, 3, 4, 5} : IsRead(asks[k])
    BY <2>1
  <2>3. \A f \in {"name", "password", "is_admin", "uid"} :
          \E k \in {1, 3, 4, 5} : asks[k].field = f
    BY <2>1
  <2> QED  BY <1>7, <2>1, <2>2, <2>3 DEF Filled, asks
<1>8. CASE o \in {"balance_enquiry", "view_details", "logout", "get_users", "get_accounts"}
  BY <1>8 DEF balance_enquiry, view_details, logout, get_users, get_accounts
<1> QED  BY <1>1, <1>2, <1>3, <1>4, <1>5, <1>6, <1>7, <1>8 DEF Ops

\* What is blank cannot be scanned; of a number the newline stays.
LEMMA NothingToScan ==
  ASSUME input = <<>> \/ input = <<NL>>
  PROVE  FirstNonBlank = {}
<1>1. \A k \in DOMAIN input : input[k] = NL
  <2>1. CASE input = <<>>
    BY <2>1
  <2>2. CASE input = <<NL>>
    BY <2>2
  <2> QED  BY <2>1, <2>2
<1> QED  BY <1>1 DEF FirstNonBlank, Blank

LEMMA NumbersAreNotBlank == ASSUME NEW n \in Numbers PROVE ~Blank(n) /\ n # Unset
<1>1. /\ \A k \in 1..14 : Positive[k] # " "
      /\ \A k \in 1..14 : Positive[k] # "\n"
      /\ \A k \in 1..14 : Positive[k] # "unset"
  BY DEF Positive
<1>2. /\ \A k \in 1..14 : Negative[k] # " "
      /\ \A k \in 1..14 : Negative[k] # "\n"
      /\ \A k \in 1..14 : Negative[k] # "unset"
  BY DEF Negative
<1>3. DOMAIN Positive = 1..14 /\ DOMAIN Negative = 1..14
  BY DEF Positive, Negative
<1>4. n = "0" \/ \E k \in 1..14 : n = Positive[k] \/ n = Negative[k]
  BY <1>3 DEF Numbers, Range
<1> QED  BY <1>1, <1>2, <1>4 DEF Blank, NL, Unset

LEMMA NegatedNumbers == ASSUME NEW n \in Numbers PROVE Negated(n) # Unset
<1>1. \A k \in 1..14 : Positive[k] # Unset
  BY DEF Positive, Unset
<1>2. \A k \in 1..14 : Negative[k] # Unset
  BY DEF Negative, Unset
<1>3. CASE \E k \in 1..14 : n \in {Positive[k], Negative[k]}
  <2>1. PICK k \in 1..14 : Negated(n) = IF n = Positive[k] THEN Negative[k] ELSE Positive[k]
    BY <1>3 DEF Negated
  <2> QED  BY <1>1, <1>2, <2>1
<1>4. CASE ~ \E k \in 1..14 : n \in {Positive[k], Negative[k]}
  BY <1>4, NumbersAreNotBlank DEF Negated
<1> QED  BY <1>3, <1>4

LEMMA NumberIsScanned ==
  ASSUME NEW n \in Numbers, input = <<n, NL>>
  PROVE  /\ FirstNonBlank = {1} /\ Unscanned(1) = <<NL>>
         /\ \A old : Scanned(old, 1) = n
<1>0. /\ DOMAIN input = 1..2 /\ Len(input) = 2 /\ input[1] = n
      /\ <<n, NL>> \in Seq({n, NL}) /\ <<NL>> \in Seq({n, NL})
  OBVIOUS
<1>1. FirstNonBlank = {1}
  BY <1>0, NumbersAreNotBlank DEF FirstNonBlank
<1>2. Unscanned(1) = SubSeq(<<n, NL>>, 2, 2)
  BY <1>0 DEF Unscanned
<1>3. SubSeq(<<n, NL>>, 2, 2) = <<NL>>
  <2> DEFINE rest == SubSeq(<<n, NL>>, 2, 2)
  <2>1. rest \in Seq({n, NL}) /\ Len(rest) = 1 /\ rest[1] = NL
    BY <1>0
  <2>2. Len(<<NL>>) = 1
    OBVIOUS
  <2>3. \A k \in 1..Len(rest) : rest[k] = <<NL>>[k]
    BY <2>1
  <2> HIDE DEF rest
  <2>4. rest = <<NL>>
    BY <1>0, <2>1, <2>2, <2>3, SeqEqual
  <2> QED  BY <2>4 DEF rest
<1> QED  BY <1>1, <1>2, <1>3 DEF Scanned

LEMMA NumberIsScannedBehind ==
  ASSUME NEW n \in Numbers, input = <<NL, n, NL>>
  PROVE  /\ FirstNonBlank = {2} /\ Unscanned(2) = <<NL>>
         /\ \A old : Scanned(old, 2) = n
<1>0. /\ DOMAIN input = 1..3 /\ Len(input) = 3 /\ input[1] = NL /\ input[2] = n
      /\ <<NL, n, NL>> \in Seq({n, NL}) /\ <<NL>> \in Seq({n, NL})
  OBVIOUS
<1>1. FirstNonBlank = {2}
  <2>1. Blank(NL) /\ ~Blank(n)
    BY NumbersAreNotBlank DEF Blank
  <2> QED  BY <1>0, <2>1 DEF FirstNonBlank
<1>2. Unscanned(2) = SubSeq(<<NL, n, NL>>, 3, 3)
  BY <1>0 DEF Unscanned
<1>3. SubSeq(<<NL, n, NL>>, 3, 3) = <<NL>>
  <2> DEFINE rest == SubSeq(<<NL, n, NL>>, 3, 3)
  <2>1. rest \in Seq({n, NL}) /\ Len(rest) = 1 /\ rest[1] = NL
    BY <1>0
  <2>2. Len(<<NL>>) = 1
    OBVIOUS
  <2>3. \A k \in 1..Len(rest) : rest[k] = <<NL>>[k]
    BY <2>1
  <2> HIDE DEF rest
  <2>4. rest = <<NL>>
    BY <1>0, <2>1, <2>2, <2>3, SeqEqual
  <2> QED  BY <2>4 DEF rest
<1> QED  BY <1>1, <1>2, <1>3 DEF Scanned

\* fgets has no line to end in nothing, and reads one that fits as a whole.
LEMMA NoLineYet == ASSUME input = <<>> PROVE LineEnds = {}
BY DEF LineEnds

LEMMA LineIsRead ==
  ASSUME FittingLine(input)
  PROVE  /\ LineEnds = {Len(input)}
         /\ SubSeq(input, 1, Len(input) - 1) = Front(input)
         /\ SubSeq(input, Len(input) + 1, Len(input)) = <<>>
<1> USE BoundsAssumption DEF FittingLine
<1>1. Len(input) \in Nat \ {0} /\ DOMAIN input = 1..Len(input)
  OBVIOUS
<1>2. Len(input) \in LineEnds
  BY <1>1 DEF LineEnds
<1>3. ASSUME NEW k \in LineEnds PROVE k = Len(input)
  BY <1>1, <1>3 DEF LineEnds
<1>4. SubSeq(input, Len(input) + 1, Len(input)) = <<>>
  BY <1>1
<1> QED  BY <1>2, <1>3, <1>4 DEF Front

\* What was typed is not what was never written.
LEMMA LinesAreWritten == ASSUME NEW line, FittingLine(line) PROVE Front(line) # NoText
<1> DEFINE n == Len(line) - 1
           front == Front(line)
<1>1. line \in Seq(STRING) /\ Len(line) \in Nat \ {0}
  BY DEF FittingLine
<1>2. n \in Nat /\ Len(line) = n + 1
  BY <1>1
<1>3. \A k \in 1..n : line[k] \in STRING /\ line[k] # Unset
  BY <1>1 DEF FittingLine
<1> HIDE DEF n
<1>4. front = SubSeq(line, 1, n)
  BY DEF Front, n
<1>5. /\ Len(front) = IF 1 <= n THEN n - 1 + 1 ELSE 0
      /\ \A k \in 1 .. n - 1 + 1 : front[k] = line[1 + k - 1]
  BY <1>2, <1>3, <1>4, SubSeqProperties
<1> HIDE DEF front
<1>6. ASSUME front = NoText PROVE FALSE
  <2>1. Len(front) = 1 /\ front[1] = Unset
    BY <1>6 DEF NoText
  <2>2. CASE n = 0
    BY <1>5, <2>1, <2>2
  <2>3. CASE n > 0
    <3>1. 1 \in 1 .. n - 1 + 1 /\ 1 \in 1..n /\ 1 + 1 - 1 = 1
      BY <1>2, <2>3
    <3> QED  BY <1>3, <1>5, <2>1, <3>1
  <2> QED  BY <1>2, <2>2, <2>3
<1> QED  BY <1>6 DEF front

\* A line as a prompt means it.
LEMMA NumberLine ==
  ASSUME NEW line \in MenuLines \cup NumberLines \cup TextLines, Len(line) = 2
  PROVE  line = <<line[1], NL>>
<1>1. line \in Seq(STRING) /\ line[2] = NL
  BY LinesAssumption DEF Last
<1>2. <<line[1], NL>> \in Seq({line[1], NL}) /\ line \in Seq({line[1], NL})
  BY <1>1
<1> QED  BY <1>1, <1>2, SeqEqual

LEMMA TextLine ==
  ASSUME NEW line \in MenuLines \cup NumberLines \cup TextLines, Len(line) < LineMax
  PROVE  FittingLine(line)
BY LinesAssumption DEF Last, FittingLine

LEMMA PrependNewline ==
  ASSUME NEW n PROVE <<NL>> \o <<n, NL>> = <<NL, n, NL>>
<1>1. <<NL>> \in Seq({n, NL}) /\ <<n, NL>> \in Seq({n, NL}) /\ <<NL, n, NL>> \in Seq({n, NL})
  OBVIOUS
<1>2. /\ <<NL>> \o <<n, NL>> \in Seq({n, NL}) /\ Len(<<NL>> \o <<n, NL>>) = 3
      /\ \A k \in 1..3 : (<<NL>> \o <<n, NL>>)[k] = <<NL, n, NL>>[k]
  BY <1>1
<1>3. Len(<<NL, n, NL>>) = 3
  OBVIOUS
<1> QED  BY <1>1, <1>2, <1>3, SeqEqual

LEMMA NextInForm == RInv /\ InForm /\ [Next]_vars => InForm'
<1> SUFFICES ASSUME RInv, InForm, [Next]_vars PROVE InForm'
  OBVIOUS
<1>d. op \in Ops
  BY DEF RInv, WireOK
<1>s. \A o \in Ops : DOMAIN Entries[o].form = 1..Len(Entries[o].form)
                     /\ Len(Entries[o].form) \in Nat
  BY FormsAreSound DEF SoundForm
<1> USE DEF InForm
<1>1. CASE ConnectToServer
  <2>1. /\ UNCHANGED <<op, fields, typed, step>> /\ step = 1
        /\ pc' \in {"exit", "enter", "header", "form"}
        /\ pc' = "form" => ~(1 > Len(Reads))
    BY <1>1 DEF ConnectToServer, AfterRead, form, user
  <2> QED  BY <2>1, <1>d, <1>s DEF Reads
<1>2. CASE ReadOption
  BY <1>2 DEF ReadOption, form
<1>3. CASE ReadNumber \/ ReadLine \/ SkipNewline \/ Assign
  <2>1. /\ UNCHANGED <<op, typed>> /\ step' = step + 1
        /\ pc' \in {"enter", "header", "form"}
        /\ pc' = "form" => ~(step + 1 > Len(Reads))
    BY <1>3 DEF ReadNumber, ReadLine, SkipNewline, Assign, ReadDone, AfterRead
  <2>2. fields' = fields \/ \E f, v : fields' = [fields EXCEPT ![f] = v]
    BY <1>3 DEF ReadNumber, ReadLine, SkipNewline, Assign
  <2>3. fields' = [f \in Fields |-> fields'[f]]
    BY <2>2
  <2> QED  BY <2>1, <2>3, <1>d, <1>s DEF Reads
<1>4. CASE WriteHeader \/ WriteBody \/ WriteFails
  <2>1. /\ UNCHANGED <<op, step, typed>> /\ fields' \in {fields, NoFields}
        /\ pc' \in {"body", "response", "close", "enter"}
    BY <1>4 DEF WriteHeader, WriteBody, WriteFails, Over, form, user
  <2> QED  BY <2>1 DEF NoFields
<1>5. CASE BrokenPipe
  BY <1>5 DEF BrokenPipe, form, user
<1>6. CASE ReadResponse \/ ReadFails \/ ReadItem \/ ReadItemFails \/ PrintItems
  <2>1. /\ UNCHANGED <<op, step, fields, typed>>
        /\ pc' \in {"items", "close", "enter"}
    BY <1>6 DEF ReadResponse, ReadFails, ReadItem, ReadItemFails, PrintItems, Over,
       form, user
  <2> QED  BY <2>1
<1>7. CASE WaitForEnter \/ SkipRest
  BY <1>7 DEF WaitForEnter, SkipRest, form
<1>8. CASE Close
  BY <1>8 DEF Close, Fresh, NoAnswers, NoFields
<1>9. CASE Types
  <2>1. UNCHANGED <<pc, op, step, fields>>
    BY <1>9 DEF Types, Type, form
  <2>2. \/ typed' = typed
        \/ \E v : typed' = [typed EXCEPT !.opt = v]
        \/ \E f, v : typed' = [typed EXCEPT !.fields[f] = v]
    BY <1>9 DEF Types, Type
  <2>3. typed' = [opt |-> typed'.opt, fields |-> [f \in Fields |-> typed'.fields[f]]]
    BY <2>2
  <2> QED  BY <2>1, <2>3 DEF Reads
<1>10. CASE Answer \/ Stop
  <2>1. UNCHANGED <<pc, op, step, fields>> /\ typed' \in {typed, NoAnswers}
    BY <1>10 DEF Answer, Stop, Ended, form
  <2> QED  BY <2>1 DEF NoAnswers, NoFields, Reads
<1>11. CASE UNCHANGED vars
  BY <1>11 DEF vars, form, user, Reads
<1> QED  BY <1>1, <1>2, <1>3, <1>4, <1>5, <1>6, <1>7, <1>8, <1>9, <1>10, <1>11
         DEF Next, Work, Finished

\* The answer to a prompt is the only thing in stdin, but for a newline.
LEMMA TypedTidily ==
  ASSUME RInv, Tidy, Types, clean', sd = "open" \/ pc = "menu" PROVE (TidyMenu /\ TidyForm)'
<1> PICK line \in MenuLines \cup NumberLines \cup TextLines \cup {<<NL>>} : Type(line)
  BY DEF Types
<1>0. /\ clean /\ AsAskedFor(Prompt, line) /\ Prompt # "none"
      /\ UNCHANGED <<pc, op, step, fields, sd>> /\ input' = input \o line
  BY DEF Type, form, wire
<1>d. op \in Ops /\ Reads = Entries[op].form
  BY DEF RInv, WireOK, Reads
<1>1. CASE pc = "menu"
  <2>1. FirstNonBlank = {} /\ Prompt = "menu"
    BY <1>0, <1>1 DEF Prompt
  <2>2. input = <<>>
    BY <1>0, <1>1, <2>1, NumberIsScanned DEF Tidy, TidyMenu
  <2>3. line \in MenuLines /\ Len(line) = 2 /\ line[1] \in Numbers
    BY <1>0, <2>1 DEF AsAskedFor, Type
  <2>4. input' = <<line[1], NL>>
    BY <1>0, <2>2, <2>3, NumberLine, LinesAssumption
  <2>5. typed'.opt = line[1]
    BY <2>1 DEF Type, Tidy, InForm
  <2>6. TidyMenu'
    BY <2>3, <2>4, <2>5 DEF TidyMenu
  <2>7. pc' = "menu" 
    BY <1>0, <1>1
  <2> QED  BY <2>6, <2>7 DEF TidyForm
<1>2. CASE pc = "form" /\ sd = "open"
  <2> DEFINE read == Reads[step]
  <2>0. IsRead(read)
    BY <1>0, <1>2 DEF Prompt, IsRead
  <2>1. /\ step \in DOMAIN Reads /\ SoundRead(Reads, step, NewlineLeft(op, step))
        /\ \A k \in DOMAIN Reads : IsRead(Reads[k]) /\ Reads[k].field = read.field => k = step
        /\ FieldsAsTyped /\ (op # "login" => op = Chosen(typed.opt))
        /\ AtRead
    BY <1>0, <1>2, <1>d, <2>0, FormsAreSound DEF Tidy, InForm, TidyForm, SoundForm
  <2>2. ASSUME NEW v, typed' = [typed EXCEPT !.fields[read.field] = v],
               read.field \in Fields
        PROVE  /\ FieldsAsTyped' /\ (op # "login" => op = Chosen(typed.opt))'
               /\ typed'.fields[read.field] = v
    <3>1. typed'.opt = typed.opt /\ typed'.fields = [typed.fields EXCEPT ![read.field] = v]
      BY <2>2 DEF Tidy, InForm
    <3>2. typed'.fields[read.field] = v
      BY <3>1, <2>2 DEF Tidy, InForm
    <3>3. ASSUME NEW k \in DOMAIN Reads, k < step, IsRead(Reads[k]), Reads[k].field # "none"
          PROVE  typed'.fields[Reads[k].field] = typed.fields[Reads[k].field]
      <4>1. k # step
        BY <2>1, <3>3 DEF Tidy, InForm
      <4>2. Reads[k].field # read.field
        BY <4>1, <2>1, <3>3
      <4> QED  BY <4>2, <3>1, <2>2 DEF Tidy, InForm
    <3>4. FieldsAsTyped'
      BY <3>3, <2>1, <1>0, <1>2 DEF FieldsAsTyped, Reads
    <3> QED  BY <3>1, <3>2, <3>4, <2>1, <1>0
  <2>3. CASE read.read = "scanf"
    <3>1. Prompt = "number" /\ FirstNonBlank = {}
      BY <1>0, <1>2, <2>3 DEF Prompt
    <3>2. input = LeftOver(op, step)
      BY <2>1, <2>3, <3>1, NumberIsScanned, NumberIsScannedBehind DEF AtRead, NumberTyped
    <3>3. line \in NumberLines /\ Len(line) = 2 /\ line[1] \in Numbers
      BY <1>0, <3>1 DEF AsAskedFor, Type
    <3>4. line = <<line[1], NL>> /\ line \in Seq(STRING)
      BY <3>3, NumberLine, LinesAssumption
    <3>5. input' = IF NewlineLeft(op, step) THEN <<NL, line[1], NL>> ELSE <<line[1], NL>>
      <4>1. CASE NewlineLeft(op, step)
        <5>1. input' = <<NL>> \o <<line[1], NL>>
          BY <1>0, <3>2, <3>4, <4>1 DEF LeftOver
        <5> QED  BY <4>1, <5>1, PrependNewline
      <4>2. CASE ~NewlineLeft(op, step)
        <5>1. input' = <<>> \o line
          BY <1>0, <3>2, <4>2 DEF LeftOver
        <5>2. input' = line
          BY <5>1, <3>4
        <5> QED  BY <3>4, <4>2, <5>2
      <4> QED  BY <4>1, <4>2
    <3>6. /\ read.field \in Fields
          /\ typed' = [typed EXCEPT !.fields[read.field] = <<line[1]>>]
      BY <2>1, <2>3, <3>1 DEF Type, AskedField, SoundRead
    <3>7. NumberTyped'
      BY <3>3, <3>5, <3>6, <2>2, <1>0 DEF NumberTyped, Reads, NewlineLeft
    <3>8. AtRead'
      BY <3>7, <2>3, <1>0 DEF AtRead, Reads
    <3> QED  BY <3>6, <3>8, <2>2, <1>0, <1>2 DEF TidyForm, TidyMenu
  <2>4. CASE read.read = "fgets"
    <3>1. Prompt = "text" /\ LineEnds = {}
      BY <1>0, <1>2, <2>4 DEF Prompt
    <3>2. ~LineTyped
      BY <3>1, LineIsRead DEF LineTyped
    <3>3. input = <<>>
      BY <2>1, <2>4, <3>2 DEF AtRead, LeftOver, SoundRead
    <3>4. line \in TextLines /\ Len(line) < LineMax
      BY <1>0, <3>1 DEF AsAskedFor, Type
    <3>5. FittingLine(line)
      BY <3>4, TextLine
    <3>6. input' = line
      BY <1>0, <3>3, <3>5 DEF FittingLine
    <3>7. /\ read.field \in Fields
          /\ typed' = [typed EXCEPT !.fields[read.field] = Front(line)]
      BY <2>1, <2>4, <3>1 DEF Type, AskedField, SoundRead
    <3>8. LineTyped'
      BY <3>5, <3>6, <3>7, <2>2, <1>0 DEF LineTyped, Reads
    <3>9. AtRead'
      BY <3>8, <2>4, <1>0 DEF AtRead, Reads
    <3> QED  BY <3>7, <3>9, <2>2, <1>0, <1>2 DEF TidyForm, TidyMenu
  <2>5. CASE read.read = "getchar"
    <3>1. input = <<>>
      BY <1>0, <1>2, <2>5 DEF Prompt
    <3>2. input = <<NL>>
      BY <2>1, <2>5 DEF AtRead, LeftOver, SoundRead
    <3> QED  BY <3>1, <3>2
  <2> QED  BY <2>1, <2>3, <2>4, <2>5 DEF SoundRead
<1>3. CASE pc \notin {"menu", "form"}
  <2>1. pc \notin {"header", "body"}
    BY <1>0, <1>3 DEF Prompt
  <2> QED  BY <1>0, <1>3, <2>1 DEF TidyMenu, TidyForm
<1> QED  BY <1>1, <1>2, <1>3

\* A read takes the answer to its own prompt, and leaves what the next one
\* expects.
LEMMA ReadsTidily ==
  ASSUME RInv, Tidy, ReadNumber \/ ReadLine \/ SkipNewline, clean, sd = "open"
  PROVE  (TidyMenu /\ TidyStart /\ TidyForm)'
<1> DEFINE read == Reads[step]
<1>0. /\ UNCHANGED <<op, sd, typed>> /\ step' = step + 1
      /\ pc = "form" /\ pc' = AfterRead(step + 1)
  BY DEF ReadNumber, ReadLine, SkipNewline, ReadDone, wire
<1>d. op \in Ops \ {"invalid"} /\ Reads = Entries[op].form
  BY <1>0 DEF RInv, WireOK, Reads
<1>1. /\ DOMAIN Reads = 1..Len(Reads) /\ Len(Reads) \in Nat
      /\ step \in 1..Len(Reads) /\ SoundRead(Reads, step, NewlineLeft(op, step))
      /\ \A k \in DOMAIN Reads : IsRead(Reads[k]) /\ Reads[k].field = read.field => k = step
      /\ FieldsAsTyped /\ (op # "login" => op = Chosen(typed.opt))
      /\ AtRead /\ IsRead(read)
  <2>1. IsRead(read)
    BY DEF ReadNumber, ReadLine, SkipNewline, IsRead
  <2> QED  BY <1>0, <1>d, <2>1, FormsAreSound DEF Tidy, InForm, TidyForm, SoundForm
<1>2. \/ pc' = "form"
      \/ pc' = "header" /\ step = Len(Reads)
  BY <1>0, <1>d, <1>1 DEF AfterRead
<1>3. NewlineLeft(op, step + 1) <=> read.read = "scanf"
  <2>1. step + 1 # 1 /\ (step + 1) - 1 = step
    BY <1>1
  <2> QED  BY <2>1, <1>d DEF NewlineLeft
<1> HIDE DEF read
<1>4. /\ input' = LeftOver(op, step + 1)
      /\ read.field # "none" =>
           /\ fields' = [fields EXCEPT ![read.field] = typed.fields[read.field]]
           /\ read.field \in Fields
           /\ typed.fields[read.field] # NoText
           /\ read.read = "scanf" => \E n \in Numbers : typed.fields[read.field] = <<n>>
      /\ read.field = "none" => UNCHANGED fields
  <2>1. CASE ReadNumber
    <3>1. read.read = "scanf" /\ FirstNonBlank # {}
      BY <2>1 DEF ReadNumber, read
    <3>2. NumberTyped
      BY <3>1, <1>1, NothingToScan DEF AtRead, LeftOver, read
    <3>3. PICK n \in Numbers :
            /\ typed.fields[read.field] = <<n>>
            /\ input = IF NewlineLeft(op, step) THEN <<NL, n, NL>> ELSE <<n, NL>>
      BY <3>2 DEF NumberTyped, read
    <3>4. PICK k \in FirstNonBlank :
            /\ fields' = [fields EXCEPT ![read.field] = <<Scanned(@[1], k)>>]
            /\ input' = Unscanned(k)
      BY <2>1 DEF ReadNumber, read
    <3>5. Unscanned(k) = <<NL>> /\ \A old : Scanned(old, k) = n
      BY <3>3, NumberIsScanned, NumberIsScannedBehind
    <3>6. read.field \in Fields
      BY <3>1, <1>1 DEF SoundRead, read
    <3>7. <<n>> # NoText
      BY NumbersAreNotBlank DEF NoText
    <3> QED  BY <3>1, <3>3, <3>4, <3>5, <3>6, <3>7, <1>3, <1>1 DEF LeftOver, SoundRead, read
  <2>2. CASE ReadLine
    <3>1. read.read = "fgets" /\ LineEnds # {}
      BY <2>2 DEF ReadLine, read
    <3>2. read.field \in Fields /\ ~NewlineLeft(op, step)
      BY <3>1, <1>1 DEF SoundRead, read
    <3>3. LineTyped
      BY <3>1, <3>2, <1>1, NoLineYet DEF AtRead, LeftOver, read
    <3>4. PICK k \in LineEnds :
            /\ fields' = [fields EXCEPT ![read.field] = SubSeq(input, 1, k - 1)]
            /\ input' = SubSeq(input, k + 1, Len(input))
      BY <2>2 DEF ReadLine, read
    <3>5. SubSeq(input, 1, k - 1) = Front(input) /\ input' = <<>>
      BY <3>3, <3>4, LineIsRead DEF LineTyped
    <3>6. typed.fields[read.field] = Front(input) /\ Front(input) # NoText
      BY <3>3, LinesAreWritten DEF LineTyped, read
    <3> QED  BY <3>1, <3>2, <3>4, <3>5, <3>6, <1>3, <1>1 DEF LeftOver, SoundRead, read
  <2>3. CASE SkipNewline
    <3>1. read.read = "getchar" /\ UNCHANGED fields /\ input' = Tail(input)
      BY <2>3 DEF SkipNewline, read
    <3>2. read.field = "none" /\ NewlineLeft(op, step)
      BY <3>1, <1>1 DEF SoundRead, read
    <3>3. input = <<NL>>
      BY <3>1, <3>2, <1>1 DEF AtRead, LeftOver, read
    <3>4. input' = <<>>
      BY <3>1, <3>3
    <3> QED  BY <3>1, <3>2, <3>4, <1>3 DEF LeftOver
  <2> QED  BY <2>1, <2>2, <2>3
<1>5. ASSUME NEW k \in DOMAIN Reads, k <= step, IsRead(Reads[k]), Reads[k].field # "none"
      PROVE  /\ fields'[Reads[k].field] = typed.fields[Reads[k].field]
             /\ fields'[Reads[k].field] # NoText
             /\ Reads[k].read = "scanf" =>
                  \E n \in Numbers : fields'[Reads[k].field] = <<n>>
  <2>1. CASE k = step
    BY <1>5, <2>1, <1>4 DEF read, Tidy, InForm
  <2>2. CASE k # step
    <3>1. k < step /\ Reads[k].field # read.field
      BY <1>5, <2>2, <1>1
    <3>2. fields'[Reads[k].field] = fields[Reads[k].field]
      BY <1>5, <3>1, <1>4, <1>1, <1>d, FormsAreSound
         DEF Tidy, InForm, SoundForm, SoundRead
    <3> QED  BY <1>5, <3>1, <3>2, <1>1 DEF FieldsAsTyped
  <2> QED  BY <2>1, <2>2
<1>6. CASE pc' = "form"
  <2>1. FieldsAsTyped'
    <3>1. Reads' = Reads /\ typed' = typed /\ step' = step + 1
      BY <1>0 DEF Reads
    <3>2. SUFFICES ASSUME NEW k \in DOMAIN Reads, k < step + 1, IsRead(Reads[k]),
                          Reads[k].field # "none"
                   PROVE  /\ fields'[Reads[k].field] = typed.fields[Reads[k].field]
                          /\ fields'[Reads[k].field] # NoText
                          /\ Reads[k].read = "scanf" =>
                               \E n \in Numbers : fields'[Reads[k].field] = <<n>>
      BY <3>1 DEF FieldsAsTyped
    <3>3. k <= step
      BY <1>1, <3>2
    <3> QED  BY <1>5, <3>2, <3>3
  <2>2. AtRead'
    BY <1>0, <1>4 DEF AtRead, LeftOver, NewlineLeft
  <2> QED  BY <1>0, <1>1, <1>6, <2>1, <2>2 DEF TidyMenu, TidyStart, TidyForm
<1>7. CASE pc' = "header"
  <2>1. step = Len(Reads)
    BY <1>2, <1>7
  <2>2. FieldsAsMeant'
    <3> SUFFICES ASSUME Entries[op].body = TRUE, NEW f \in Structure[Header]
                 PROVE  fields'[f] = Meant(f) /\ fields'[f] # NoText
      BY <1>0 DEF FieldsAsMeant, Header, Meant
    <3>1. Filled(op)
      BY <1>d, FormsFillStructures
    <3>2. op \notin {"withdraw", "create_user"}
      BY <1>1, <1>d, <2>1, <3>1 DEF Filled, IsRead, Negate, Zero, read
    <3>3. PICK k \in 1..Len(Reads) : IsRead(Reads[k]) /\ Reads[k].field = f
      BY <1>d, <3>1, <3>2 DEF Filled, Header
    <3>4. f \in Fields
      BY <3>1 DEF Filled, Header
    <3>5. f # "none"
      BY <3>4 DEF Fields
    <3> QED  BY <1>1, <1>5, <2>1, <3>2, <3>3, <3>5 DEF Meant
  <2> QED  BY <1>0, <1>1, <1>7, <2>2 DEF TidyMenu, TidyStart, TidyForm
<1> QED  BY <1>2, <1>6, <1>7

\* What a function puts in itself completes its request.
LEMMA AssignsTidily ==
  ASSUME RInv, Tidy, Assign, clean, sd = "open"
  PROVE  (TidyMenu /\ TidyStart /\ TidyForm)'
<1>0. /\ UNCHANGED <<op, sd, typed>> /\ step' = step + 1
      /\ pc = "form" /\ pc' = AfterRead(step + 1)
  BY DEF Assign, ReadDone, wire
<1>d. op \in Ops \ {"invalid"} /\ Reads = Entries[op].form
  BY <1>0 DEF RInv, WireOK, Reads
<1>1. /\ DOMAIN Reads = 1..Len(Reads) /\ Len(Reads) \in Nat /\ step \in 1..Len(Reads)
      /\ step = Len(Reads) /\ SoundAssign(op, Reads[step])
      /\ FieldsAsTyped /\ (op # "login" => op = Chosen(typed.opt))
  <2>1. ~IsRead(Reads[step])
    BY DEF Assign, IsRead
  <2> QED  BY <1>0, <1>d, <2>1, FormsAreSound DEF Tidy, InForm, TidyForm, SoundForm
<1>2. pc' = "header"
  BY <1>0, <1>d, <1>1 DEF AfterRead
<1>3. FieldsAsMeant'
  <2> SUFFICES ASSUME Entries[op].body = TRUE, NEW f \in Structure[Header]
               PROVE  fields'[f] = Meant(f) /\ fields'[f] # NoText
    BY <1>0 DEF FieldsAsMeant, Header, Meant
  <2>1. Filled(op) /\ f \in Fields
    BY <1>d, FormsFillStructures DEF Filled, Header
  <2>2. CASE op = "withdraw"
    <3>1. /\ f = "amt" /\ step = 2 /\ Reads[1] = Number("amt")
          /\ Reads[2] = Negate("amt")
      BY <1>1, <1>d, <2>1, <2>2 DEF Filled, Header
    <3>2. fields' = [fields EXCEPT !["amt"] = <<Negated(@[1])>>]
      BY <3>1 DEF Assign, Negate
    <3>3. PICK n \in Numbers : fields["amt"] = <<n>> /\ typed.fields["amt"] = <<n>>
      BY <1>1, <3>1 DEF FieldsAsTyped, Number, IsRead
    <3>4. fields'["amt"] = <<Negated(n)>> /\ Meant("amt") = <<Negated(n)>>
      BY <2>1, <2>2, <3>1, <3>2, <3>3 DEF Meant, Tidy, InForm
    <3>5. <<Negated(n)>> # NoText
      BY NegatedNumbers DEF NoText
    <3> QED  BY <3>1, <3>4, <3>5
  <2>3. CASE op = "create_user"
    <3>1. Reads[step] = Zero("aid")
      BY <1>1, <1>d, <2>1, <2>3 DEF Filled
    <3>2. fields' = [fields EXCEPT !["aid"] = <<"0">>]
      BY <3>1 DEF Assign, Zero
    <3>3. CASE f = "aid"
      <4>1. <<"0">> # NoText
        BY DEF NoText, Unset
      <4> QED  BY <2>1, <2>3, <3>2, <3>3, <4>1 DEF Meant, Tidy, InForm
    <3>4. CASE f # "aid"
      <4>1. PICK k \in 1..Len(Reads) : IsRead(Reads[k]) /\ Reads[k].field = f
        BY <1>d, <2>1, <3>4 DEF Filled, Header
      <4>2. k # step
        BY <3>1, <4>1 DEF IsRead, Zero
      <4>3. k < step
        <5>1. Len(Reads) \in Nat /\ step = Len(Reads)
          BY <1>1
        <5>2. k \in 1..Len(Reads)
          OBVIOUS
        <5> QED  BY <4>2, <5>1, <5>2
      <4>4. f # "none"
        BY <2>1 DEF Fields
      <4>5. fields[f] = typed.fields[f] /\ fields[f] # NoText
        BY <1>1, <4>1, <4>3, <4>4 DEF FieldsAsTyped
      <4>6. fields'[f] = fields[f]
        BY <2>1, <3>2, <3>4 DEF Tidy, InForm
      <4>7. Meant(f) = typed.fields[f]
        BY <2>3, <3>4 DEF Meant
      <4> QED  BY <4>5, <4>6, <4>7
    <3> QED  BY <3>3, <3>4
  <2> QED  BY <1>1, <2>2, <2>3 DEF SoundAssign
<1> QED  BY <1>0, <1>1, <1>2, <1>3 DEF TidyMenu, TidyStart, TidyForm

SentInv == RInv /\ Tidy /\ SentAsMeant

LEMMA InitSent == Init => SentInv
BY InitR DEF Init, SentInv, Tidy, InForm, TidyMenu, TidyStart, TidyForm, SentAsMeant,
   NoFields, NoAnswers

\* What is sent is put together from the fields.
LEMMA NextSent == SentInv /\ [Next]_vars => SentAsMeant'
<1> SUFFICES ASSUME RInv, Tidy, SentAsMeant, [Next]_vars, clean', asked' # <<>>
             PROVE  SentAsMeant'
  BY DEF SentInv, SentAsMeant
<1> HIDE DEF SentInv
<1>0. RInv' /\ op \in Ops
  BY NextR DEF RInv, WireOK
<1>1. /\ sd' = "open" /\ pc' \in {"body", "response"}
  BY <1>0 DEF RInv, AskedInOrder, WireOK
<1>2. CASE WriteHeader
  <2>1. sd = "open" /\ asked' = <<Header>> /\ clean /\ UNCHANGED <<op, typed>>
    BY <1>1, <1>2 DEF WriteHeader, Deliver, RInv, AskedInOrder, user
  <2>2. op # "login" => op = Chosen(typed.opt)
    BY <1>2, <2>1 DEF Tidy, TidyForm, WriteHeader
  <2>3. Len(asked') = 1 /\ asked'[1] = Header
    BY <2>1
  <2> QED  BY <2>1, <2>2, <2>3 DEF SentAsMeant, Header
<1>3. CASE WriteBody
  <2>1. sd = "open" /\ asked = <<Header>> /\ clean /\ UNCHANGED <<op, typed>>
    BY <1>1, <1>3 DEF WriteBody, RInv, AskedInOrder, user
  <2>2. asked' = <<Header, Body>>
    BY <1>3, <2>1, AppendToOne DEF WriteBody, Deliver
  <2>3. FieldsAsMeant /\ (op # "login" => op = Chosen(typed.opt))
    BY <1>3, <2>1 DEF Tidy, TidyForm, WriteBody
  <2>4. Entries[op].body = TRUE
    BY <1>3, <2>1 DEF WriteBody, RInv, AskedInOrder
  <2>5. /\ DOMAIN Body = Structure[Header]
        /\ \A f \in DOMAIN Body : Body[f] = Meant(f) /\ Body[f] # NoText
    BY <2>3, <2>4 DEF Body, FieldsAsMeant
  <2>6. asked'[1] = Header /\ asked'[2] = Body
    BY <2>2
  <2>7. \A f : Meant(f)' = Meant(f)
    BY <2>1 DEF Meant
  <2> HIDE DEF Body
  <2> QED  BY <2>1, <2>3, <2>5, <2>6, <2>7 DEF SentAsMeant, Header
<1>4. CASE Types
  <2>1. PICK line : Type(line)
    BY <1>4 DEF Types
  <2>2. pc \in {"body", "response"} /\ Prompt # "none"
    BY <1>1, <2>1 DEF Type
  <2> QED  BY <2>2 DEF Prompt
<1>5. CASE UNCHANGED <<op, asked, typed, clean>>
  BY <1>5 DEF SentAsMeant, Meant
<1>6. CASE ConnectToServer \/ BrokenPipe
  <2>1. UNCHANGED <<op, asked, typed, clean>>
    BY <1>6 DEF ConnectToServer, BrokenPipe, wire, user
  <2> QED  BY <2>1, <1>5
<1>7. /\ ~ReadOption /\ ~ReadNumber /\ ~ReadLine /\ ~SkipNewline /\ ~Assign
      /\ ~WriteFails /\ ~Close
  BY <1>1 DEF ReadOption, ReadNumber, ReadLine, SkipNewline, Assign, ReadDone, AfterRead,
     WriteFails, wire, Close, Fresh
<1>8. ~ReadResponse /\ ~ReadFails /\ ~ReadItem /\ ~ReadItemFails /\ ~PrintItems
  BY <1>1 DEF ReadResponse, ReadFails, ReadItem, ReadItemFails, PrintItems, Over
<1>9. ~WaitForEnter /\ ~SkipRest /\ ~Answer
  BY <1>1 DEF WaitForEnter, SkipRest, Answer, Ended
<1>10. CASE Stop
  <2>1. UNCHANGED <<op, asked, typed, clean>>
    BY <1>10, <1>1 DEF Stop, Ended, wire
  <2> QED  BY <2>1, <1>5
<1>11. CASE UNCHANGED vars
  BY <1>11, <1>5 DEF vars, wire, user
<1> QED  BY <1>2, <1>3, <1>4, <1>6, <1>7, <1>8, <1>9, <1>10, <1>11
         DEF Next, Work, Finished

LEMMA NextTidy == SentInv /\ [Next]_vars => Tidy'
<1> SUFFICES ASSUME RInv, Tidy, [Next]_vars, clean'
             PROVE  (TidyMenu /\ TidyStart /\ TidyForm)'
  BY NextInForm DEF SentInv, Tidy
<1>d. op \in Ops
  BY DEF RInv, WireOK
<1>1. CASE ConnectToServer
  <2>1. /\ pc = "connect" /\ clean /\ UNCHANGED <<op, step, fields, input, typed>>
        /\ step = 1 /\ pc' \notin {"menu", "connect"}
    BY <1>1 DEF ConnectToServer, AfterRead, form, user, Tidy, InForm
  <2>2. IF op = "login" THEN input = <<>> ELSE input = <<NL>> /\ op = Chosen(typed.opt)
    BY <2>1 DEF Tidy, TidyStart
  <2>3. AtRead'
    BY <2>1, <2>2 DEF AtRead, LeftOver, NewlineLeft
  <2>4. DOMAIN Reads = 1..Len(Reads) /\ Len(Reads) \in Nat /\ UNCHANGED Reads
    BY <1>d, <2>1, FormsAreSound DEF SoundForm, Reads
  <2>5. pc' = "form" => FieldsAsTyped'
    BY <2>1, <2>4 DEF FieldsAsTyped
  <2>6. pc' \in {"header", "body"} => FieldsAsMeant'
    <3>1. ASSUME pc' \in {"header", "body"}, Entries[op].body = TRUE PROVE FALSE
      <4>1. op # "invalid" /\ Len(Reads) < 1
        BY <1>1, <2>4, <3>1 DEF ConnectToServer, AfterRead
      <4>2. Len(Reads) # 0
        BY <1>d, <3>1, <4>1, FormsFillStructures DEF Filled, Reads
      <4> QED  BY <2>4, <4>1, <4>2
    <3>2. pc' \in {"header", "body"} => Entries[op'].body # TRUE
      BY <2>1, <3>1
    <3> QED  BY <3>2 DEF FieldsAsMeant
  <2> QED  BY <2>1, <2>2, <2>3, <2>5, <2>6 DEF TidyMenu, TidyStart, TidyForm
<1>2. CASE ReadOption
  <2>1. FirstNonBlank # {} /\ clean /\ pc = "menu" /\ pc' = "connect" /\ sd' # "open"
    BY <1>2 DEF ReadOption, wire, RInv, WireOK
  <2>2. PICK n \in Numbers : input = <<n, NL>> /\ typed.opt = n
    BY <2>1, NothingToScan DEF Tidy, TidyMenu
  <2>3. opt' = n /\ input' = <<NL>>
    BY <1>2, <2>2, NumberIsScanned DEF ReadOption
  <2>4. n # Unset
    BY NumbersAreNotBlank
  <2>5. op' = Chosen(n) /\ typed' = typed
    BY <1>2, <2>3, <2>4 DEF ReadOption
  <2> QED  BY <2>1, <2>2, <2>3, <2>5, ChosenIsEntry DEF TidyMenu, TidyStart, TidyForm
<1>3. CASE ReadNumber \/ ReadLine \/ SkipNewline \/ Assign
  <2>1. clean /\ pc' \notin {"menu", "connect"} /\ sd' = sd
    BY <1>3 DEF ReadNumber, ReadLine, SkipNewline, Assign, ReadDone, AfterRead, wire
  <2>2. CASE sd = "open"
    BY <1>3, <2>1, <2>2, ReadsTidily, AssignsTidily
  <2>3. CASE sd # "open"
    BY <2>1, <2>3 DEF TidyMenu, TidyStart, TidyForm
  <2> QED  BY <2>2, <2>3
<1>4. CASE WriteHeader
  <2>1. /\ pc = "header" /\ pc' \in {"body", "response"} /\ clean
        /\ UNCHANGED <<op, fields, typed, sd>>
    BY <1>4 DEF WriteHeader, form, user
  <2> QED  BY <2>1 DEF Tidy, TidyMenu, TidyStart, TidyForm, FieldsAsMeant, Meant, Header
<1>5. CASE WriteBody \/ WriteFails \/ BrokenPipe
  <2>1. pc' \in {"response", "close", "enter", "exit"}
    BY <1>5 DEF WriteBody, WriteFails, BrokenPipe, Over
  <2> QED  BY <2>1 DEF TidyMenu, TidyStart, TidyForm
<1>6. CASE ReadResponse \/ ReadFails \/ ReadItem \/ ReadItemFails \/ PrintItems
  <2>1. pc' \in {"items", "close", "enter"}
    BY <1>6 DEF ReadResponse, ReadFails, ReadItem, ReadItemFails, PrintItems, Over
  <2> QED  BY <2>1 DEF TidyMenu, TidyStart, TidyForm
<1>7. CASE WaitForEnter \/ SkipRest
  BY <1>7 DEF WaitForEnter, SkipRest, TidyMenu, TidyStart, TidyForm
<1>8. CASE Close
  BY <1>8 DEF Close, Fresh, TidyMenu, TidyStart, TidyForm
<1>9. CASE Types
  <2>1. /\ clean /\ UNCHANGED <<pc, op, sd>> /\ Prompt # "none"
    BY <1>9 DEF Types, Type, wire
  <2>2. pc # "connect"
    BY <2>1 DEF Prompt
  <2>3. CASE sd = "open" \/ pc = "menu"
    BY <1>9, <2>1, <2>2, <2>3, TypedTidily DEF TidyStart
  <2>4. CASE ~(sd = "open" \/ pc = "menu")
    BY <2>1, <2>2, <2>4 DEF TidyMenu, TidyStart, TidyForm
  <2> QED  BY <2>3, <2>4
<1>10. CASE Answer \/ Stop
  <2>1. CASE sd = "open"
    <3>1. sd' = "ended" /\ pc' \notin {"menu", "connect"}
      BY <1>10, <2>1 DEF Answer, Stop, Ended, RInv, WireOK
    <3> QED  BY <3>1 DEF TidyMenu, TidyStart, TidyForm
  <2>2. CASE sd # "open"
    <3>1. UNCHANGED <<pc, op, input, typed, clean, sd>>
      BY <1>10, <2>2 DEF Answer, Stop, wire
    <3> QED  BY <3>1, <2>2 DEF Tidy, TidyMenu, TidyStart, TidyForm
  <2> QED  BY <2>1, <2>2
<1>11. CASE UNCHANGED vars
  BY <1>11 DEF vars, wire, form, user, Tidy, TidyMenu, TidyStart, TidyForm, AtRead,
     FieldsAsTyped, FieldsAsMeant, Meant, Header, NumberTyped, LineTyped, Reads
<1> QED  BY <1>1, <1>2, <1>3, <1>4, <1>5, <1>6, <1>7, <1>8, <1>9, <1>10, <1>11
         DEF Next, Work, Finished

\* The server receives what the user has asked for: each field of the structure
\* as it was typed at its prompt, an amount to withdraw negated, account 0 for a
\* user without a joint account, and nothing that was not initialised, whatever
\* the reads before have left in stdin.
THEOREM RequestsAreAsMeant == Spec => []SentAsMeant
<1>1. SentInv /\ [Next]_vars => SentInv'
  BY NextR, NextTidy, NextSent DEF SentInv
<1>2. Spec => []SentInv
  BY <1>1, InitSent, PTL DEF Spec
<1>3. SentInv => SentAsMeant
  BY DEF SentInv
<1> QED  BY <1>2, <1>3, PTL
==============================================================================
