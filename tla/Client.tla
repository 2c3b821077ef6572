------------------------------- MODULE Client -------------------------------
(***************************************************************************)
(* client.c in motion: one client, the user at its terminal, and as much of*)
(* the server as a client can see of it.                                   *)
(*                                                                         *)
(* The user answers the prompt that is on the screen, a line at a time, and*)
(* only when the client waits for input.  What a read leaves of a line     *)
(* stays in stdin for the next one.  A connection serves one request: the  *)
(* server reads it, answers, and ends the connection, unless it is stopped *)
(* on the way.                                                             *)
(***************************************************************************)
EXTENDS ClientForms

CONSTANTS MenuLines, NumberLines, TextLines,  \* what the user may type where
          LineMax,                            \* INFO_STRING_LEN
          Data, MaxItems,                     \* what the server may answer
          MaxRounds                           \* menu choices in a behaviour

\* Variables that were never written.
Unset     == "unset"
NoText    == <<Unset>>
NoMessage == [stat |-> Unset]

\* A line ends where it ends, and nobody types what is not a character; a number
\* is asked for until something comes.
ASSUME LinesAssumption ==
  \A line \in MenuLines \cup NumberLines \cup TextLines :
    /\ line \in Seq(STRING) \ {<<>>}
    /\ Last(line) = NL /\ \A k \in 1..(Len(line) - 1) : line[k] \notin {NL, Unset}
    /\ line \notin TextLines => \E k \in DOMAIN line : ~Blank(line[k])

\* fgets has room for its terminator; a count of items is not negative.
ASSUME BoundsAssumption == LineMax \in Nat \ {0} /\ MaxItems \in Nat

Fields   == {"uname", "password", "name", "amt", "is_admin", "aid", "uid"}
NoFields == [f \in Fields |-> NoText]

\* The structure that goes behind the header of an action.
Structure ==
  [Login |-> {"uname", "password"}, Transaction |-> {"amt"},
   PasswordChange |-> {"password"},
   CreateUser |-> {"name", "uname", "password", "is_admin", "aid"},
   ModifyUser |-> {"name", "password", "is_admin", "uid"},
   DeleteUser |-> {"uid"}, DeleteAccount |-> {"aid"}]

\* What the controllers of server.c answer to each action.
StatusesOf ==
  [Login          |-> {"Success", "Failure", "Unauthorized"},
   Transaction    |-> {"Success", "Failure", "NoFunds"},
   BalanceEnquiry |-> {"Success", "Failure"},
   PasswordChange |-> {"Success", "Failure"},
   ViewDetails    |-> {"Success", "Failure"},
   Logout         |-> {"Success"},
   CreateUser     |-> {"Success", "Failure", "Unauthorized", "Conflict"},
   ModifyUser     |-> {"Success", "Failure", "Unauthorized", "NotFound"},
   GetUsers       |-> {"Success", "Failure", "Unauthorized"},
   DeleteUser     |-> {"Success", "Failure", "Unauthorized", "NotFound"},
   GetAccounts    |-> {"Success", "Failure", "Unauthorized"},
   DeleteAccount  |-> {"Success", "Failure", "Unauthorized", "NotFound",
                       "Conflict"}]

Status == {"Success", "Unauthorized", "Failure", "InternalError", "NoFunds",
           "Conflict", "NotFound"}

Response == [stat : Status, num : 0..MaxItems, d : Data]
Item     == [stat : {"Success", "Failure"}, d : Data]


VARIABLES
  pc, op, step,      \* where the client is, in which function, in which read
  input,             \* stdin
  opt,               \* menu's variable, never reset
  fields,            \* the request that is being filled in
  sd,                \* the connection: "none", "open", "ended" by the server
  asked,             \* what the server has received on it
  inbox,             \* what it has sent and the client has not read
  resp, i, iter,     \* the client's buffers and the loop over the items
  listed,            \* the items that were put into the table of a list
  report,            \* the verdict on the screen
  rounds,
  up,                \* the server is there
  typed, clean,      \* history: the user's answers; all of them as asked for
  answer, cut        \* history: what the server sent; it was stopped meanwhile

form    == <<step, fields>>
wire    == <<sd, asked, inbox, answer>>
buffers == <<resp, i, iter, listed>>
user    == <<input, opt, typed, clean>>
vars    == <<pc, op, form, user, wire, buffers, report, rounds, up, cut>>
-----------------------------------------------------------------------------
(* stdin.                                                                  *)

Reads == Entries[op].form

FirstNonBlank == { k \in DOMAIN input : ~Blank(input[k])
                                        /\ \A j \in 1..(k - 1) : Blank(input[j]) }

\* scanf, once there is something to read: what the variable that held old
\* holds afterwards, and what is left in stdin.
Scanned(old, k) == IF input[k] \in Numbers THEN input[k] ELSE old
Unscanned(k)    == SubSeq(input, IF input[k] \in Numbers THEN k + 1 ELSE k, Len(input))

\* Where fgets(s, LineMax, stdin) ends; what it read last is dropped.
LineEnds == { k \in DOMAIN input :
                /\ k = LineMax - 1 \/ input[k] = NL
                /\ k < LineMax
                /\ \A j \in 1..(k - 1) : input[j] # NL }

\* What the client is asking for, by the read it cannot finish.
Prompt ==
  CASE pc = "menu" /\ rounds < MaxRounds /\ FirstNonBlank = {} -> "menu"
    [] pc = "form" /\ Reads[step].read = "scanf" /\ FirstNonBlank = {} -> "number"
    [] pc = "form" /\ Reads[step].read = "fgets" /\ LineEnds = {} -> "text"
    [] pc = "form" /\ Reads[step].read = "getchar" /\ input = <<>> -> "text"
    [] pc \in {"enter", "rest"} /\ input = <<>> -> "enter"
    [] OTHER -> "none"

\* Lines as the prompts mean them: a number, or a text that fits.
AsAskedFor(prompt, line) ==
  CASE prompt = "text"  -> Len(line) < LineMax
    [] prompt = "enter" -> line = <<NL>>
    [] OTHER            -> Len(line) = 2 /\ line[1] \in Numbers

AskedField ==
  IF Reads[step].read = "getchar" THEN Reads[step + 1].field ELSE Reads[step].field

Type(line) ==
  /\ Prompt # "none"
  /\ line \in CASE Prompt = "menu"   -> MenuLines
                [] Prompt = "number" -> NumberLines
                [] Prompt = "text"   -> TextLines
                [] OTHER             -> {<<NL>>}
  /\ input' = input \o line
  /\ clean' = (clean /\ AsAskedFor(Prompt, line))
  /\ typed' = CASE Prompt = "menu" -> [typed EXCEPT !.opt = line[1]]
                [] Prompt = "number" -> [typed EXCEPT !.fields[AskedField] = <<line[1]>>]
                [] Prompt = "text" -> [typed EXCEPT !.fields[AskedField] = Front(line)]
                [] OTHER -> typed
  /\ UNCHANGED <<pc, op, form, opt, wire, buffers, report, rounds, up, cut>>
-----------------------------------------------------------------------------
(* main and menu.                                                          *)

\* An option that was never read may be anything.
ReadOption ==
  /\ pc = "menu" /\ rounds < MaxRounds
  /\ \E k \in FirstNonBlank : opt' = Scanned(opt, k) /\ input' = Unscanned(k)
  /\ op' \in IF opt' = Unset THEN DOMAIN Entries \ {"login"} ELSE {Chosen(opt')}
  /\ rounds' = rounds + 1
  /\ pc' = "connect"
  /\ UNCHANGED <<form, typed, clean, wire, buffers, report, up, cut>>

\* After the last read the request is sent; an invalid choice sends none.
AfterRead(n) ==
  IF op = "invalid" THEN "enter" ELSE IF n > Len(Reads) THEN "header" ELSE "form"

ConnectToServer ==
  /\ pc = "connect"
  /\ IF up THEN sd' = "open" /\ pc' = AfterRead(1)
           ELSE sd' = "none" /\ pc' = "exit"
  /\ UNCHANGED <<op, form, user, asked, inbox, answer, buffers, report, rounds,
                 up, cut>>

ReadDone == /\ step' = step + 1
            /\ pc' = AfterRead(step + 1)
            /\ UNCHANGED <<op, opt, typed, clean, wire, buffers, report, rounds,
                           up, cut>>

ReadNumber ==
  /\ pc = "form" /\ Reads[step].read = "scanf"
  /\ \E k \in FirstNonBlank :
       /\ fields' = [fields EXCEPT ![Reads[step].field] = <<Scanned(@[1], k)>>]
       /\ input' = Unscanned(k)
  /\ ReadDone

ReadLine ==
  /\ pc = "form" /\ Reads[step].read = "fgets"
  /\ \E k \in LineEnds :
       /\ fields' = [fields EXCEPT ![Reads[step].field] = SubSeq(input, 1, k - 1)]
       /\ input' = SubSeq(input, k + 1, Len(input))
  /\ ReadDone

SkipNewline ==
  /\ pc = "form" /\ Reads[step].read = "getchar" /\ input # <<>>
  /\ input' = Tail(input)
  /\ UNCHANGED fields
  /\ ReadDone

Assign ==
  /\ pc = "form" /\ Reads[step].read \in {"negate", "zero"}
  /\ fields' = [fields EXCEPT ![Reads[step].field] =
                  IF Reads[step].read = "zero" THEN <<"0">> ELSE <<Negated(@[1])>>]
  /\ UNCHANGED input
  /\ ReadDone
-----------------------------------------------------------------------------
(* A request.                                                              *)

Header == Entries[op].action
Body   == [f \in Structure[Header] |-> fields[f]]

\* To a connection the server has ended, a write may still be accepted, may
\* fail, or may raise SIGPIPE.
Deliver(message) ==
  asked' = IF sd = "open" THEN Append(asked, message) ELSE asked

\* Where a function goes on once the exchange is over: login and logout close
\* at once, the others return to menu.
Over == IF op \in {"login", "logout"} THEN "close" ELSE "enter"

\* The fields of a request are not used again once it is sent.
WriteHeader ==
  /\ pc = "header"
  /\ Deliver(Header)
  /\ pc' = IF Entries[op].body THEN "body" ELSE "response"
  /\ UNCHANGED <<op, form, user, sd, inbox, answer, buffers, report, rounds, up, cut>>

WriteBody ==
  /\ pc = "body"
  /\ Deliver(Body)
  /\ fields' = NoFields
  /\ pc' = "response"
  /\ UNCHANGED <<op, step, user, sd, inbox, answer, buffers, report, rounds, up, cut>>

\* withdraw and deposit go on to read after a failed write of the body.
WriteFails ==
  /\ pc \in {"header", "body"} /\ sd = "ended"
  /\ report' = "Communication Error"
  /\ fields' = NoFields
  /\ pc' = IF pc = "body" /\ op \in {"withdraw", "deposit"} THEN "response" ELSE Over
  /\ UNCHANGED <<op, step, user, wire, buffers, rounds, up, cut>>

BrokenPipe ==
  /\ pc \in {"header", "body"} /\ sd = "ended"
  /\ pc' = "exit"
  /\ UNCHANGED <<op, form, user, wire, buffers, report, rounds, up, cut>>
-----------------------------------------------------------------------------
(* Its response, and the items behind it.                                  *)

\* An end of the connection is not looked at: the buffer is taken as it is.
Received(message, arbitrary, old) ==
  IF inbox # <<>> THEN message = Head(inbox) /\ inbox' = Tail(inbox)
  ELSE /\ sd = "ended"
       /\ message \in IF old = NoMessage THEN arbitrary ELSE {old}
       /\ UNCHANGED inbox

ReadResponse ==
  /\ pc = "response"
  /\ \E message \in Response :
       /\ Received(message, Response, NoMessage)
       /\ resp' = message
       /\ report' = Verdict(op, message.stat)
       /\ pc' = IF message.stat = "Success" /\ op \in Lists THEN "items" ELSE Over
  /\ UNCHANGED <<op, form, user, sd, asked, answer, i, iter, listed, rounds, up, cut>>

ReadFails ==
  /\ pc = "response" /\ sd = "ended" /\ inbox = <<>>
  /\ report' = "Communication Error"
  /\ pc' = Over
  /\ UNCHANGED <<op, form, user, wire, buffers, rounds, up, cut>>

\* Mutant of ItemsLeft: the last item is forgotten.
ItemsLeft_Short == i + 1 < resp.num

ItemsLeft == i < resp.num

\* view_details does not look at the status of an item.
ReadItem ==
  /\ pc = "items" /\ ItemsLeft
  /\ \E message \in Item :
       /\ Received(message, Item, iter)
       /\ iter' = message
       /\ IF ChecksItems(op) /\ message.stat # "Success"
          THEN pc' = Over /\ UNCHANGED <<i, listed>>
          ELSE i' = i + 1 /\ listed' = Append(listed, message.d) /\ UNCHANGED pc
  /\ UNCHANGED <<op, form, user, sd, asked, answer, resp, report, rounds, up, cut>>

ReadItemFails ==
  /\ pc = "items" /\ ItemsLeft /\ sd = "ended" /\ inbox = <<>>
  /\ i' = i + 1
  /\ UNCHANGED <<pc, op, form, user, wire, resp, iter, listed, report, rounds, up,
                 cut>>

PrintItems ==
  /\ pc = "items" /\ ~ItemsLeft
  /\ pc' = Over
  /\ UNCHANGED <<op, form, user, wire, buffers, report, rounds, up, cut>>
-----------------------------------------------------------------------------
(* wait_for_enter, and the end of a round.                                 *)

WaitForEnter ==
  /\ pc = "enter" /\ input # <<>>
  /\ input' = Tail(input)
  /\ pc' = "rest"
  /\ UNCHANGED <<op, form, opt, typed, clean, wire, buffers, report, rounds, up, cut>>

SkipRest ==
  /\ pc = "rest"
  /\ \E k \in DOMAIN input :
       /\ input[k] = NL /\ \A j \in 1..(k - 1) : input[j] # NL
       /\ input' = SubSeq(input, k + 1, Len(input))
  /\ pc' = "close"
  /\ UNCHANGED <<op, form, opt, typed, clean, wire, buffers, report, rounds, up, cut>>

NoAnswers == [opt |-> Unset, fields |-> NoFields]

\* The variables of the function go out of scope.
Fresh(next) ==
  /\ step' = 1 /\ fields' = NoFields
  /\ sd' = "none" /\ asked' = <<>> /\ inbox' = <<>> /\ answer' = <<>>
  /\ resp' = NoMessage /\ i' = 0 /\ iter' = NoMessage /\ listed' = <<>>
  /\ report' = "none"
  /\ typed' = NoAnswers
  /\ cut' = FALSE
  /\ pc' = next

Close ==
  /\ pc = "close"
  /\ Fresh(IF op = "logout" \/ (op = "login" /\ report # "Success")
           THEN "exit" ELSE "menu")
  /\ clean' = (input = <<>>)
  /\ UNCHANGED <<op, input, opt, rounds, up>>
-----------------------------------------------------------------------------
(* The server.                                                             *)

\* The controllers that read a structure behind the header.
ReadsBody(action) ==
  action \in {"Login", "Transaction", "PasswordChange", "CreateUser", "ModifyUser",
              "DeleteUser", "DeleteAccount"}

\* Mutant of Complete: it answers before it has read the body.
Complete_HeaderOnly == Len(asked) >= 1

Complete == Len(asked) >= 1 /\ (ReadsBody(asked[1]) => Len(asked) = 2)

PlainAnswers(action) ==
  { <<r>> : r \in [stat : StatusesOf[action], num : {0}, d : Data] }

\* A list is announced, and then sent, or replaced by one failed item.
ItemsBehind(n) == [1..n -> [stat : {"Success"}, d : Data]]
                    \cup [1..1 -> [stat : {"Failure"}, d : Data]]
ListAnswers(n) ==
  UNION { { <<r>> \o items : items \in ItemsBehind(n) } :
            r \in [stat : {"Success"}, num : {n}, d : Data] }

AnswersTo(action) ==
  IF action \in {"ViewDetails", "GetUsers", "GetAccounts"}
  THEN { a \in PlainAnswers(action) : a[1].stat # "Success" }
         \cup UNION { ListAnswers(n) : n \in 0..MaxItems }
  ELSE PlainAnswers(action)

\* The end of a connection: what was asked on it is dealt with.
Ended == /\ sd' = "ended" /\ inbox' = answer'
         /\ asked' = <<>> /\ typed' = NoAnswers

Answer ==
  /\ sd = "open" /\ up /\ Complete
  /\ answer' \in AnswersTo(asked[1])
  /\ Ended
  /\ UNCHANGED <<pc, op, form, input, opt, clean, buffers, report, rounds, up, cut>>

\* SIGINT: whatever has been sent by then is all that comes.
Stop ==
  /\ up
  /\ up' = FALSE
  /\ IF sd = "open"
     THEN /\ cut' = TRUE
          /\ answer' \in {<<>>} \cup
                         IF Complete
                         THEN UNION { { SubSeq(a, 1, n) : n \in 1..(Len(a) - 1) } :
                                        a \in AnswersTo(asked[1]) } ELSE {}
          /\ Ended
     ELSE UNCHANGED <<wire, typed, cut>>
  /\ UNCHANGED <<pc, op, form, input, opt, clean, buffers, report, rounds>>
-----------------------------------------------------------------------------
Init ==
  /\ pc = "connect" /\ op = "login" /\ step = 1 /\ fields = NoFields
  /\ input = <<>> /\ opt = Unset
  /\ sd = "none" /\ asked = <<>> /\ inbox = <<>> /\ answer = <<>>
  /\ resp = NoMessage /\ i = 0 /\ iter = NoMessage /\ listed = <<>>
  /\ report = "none" /\ rounds = 0
  /\ up \in BOOLEAN
  /\ typed = NoAnswers /\ clean = TRUE /\ cut = FALSE

Work ==
  \/ ConnectToServer \/ ReadOption
  \/ ReadNumber \/ ReadLine \/ SkipNewline \/ Assign
  \/ WriteHeader \/ WriteBody \/ WriteFails \/ BrokenPipe
  \/ ReadResponse \/ ReadFails \/ ReadItem \/ ReadItemFails \/ PrintItems
  \/ WaitForEnter \/ SkipRest \/ Close

Types == \E line \in MenuLines \cup NumberLines \cup TextLines \cup {<<NL>>} : Type(line)

\* The tables on the screen: those of the response, and the list once all of
\* its items have been read.
Shown ==
  IF report # "Success" THEN <<>>
  ELSE TablesOf(op, resp.d)
         \o IF op \in Lists /\ pc # "items" THEN <<ListTable(op, listed)>> ELSE <<>>

\* The client has exited, or waits for a choice that the bound leaves out.
Finished == /\ pc = "exit" \/ (pc = "menu" /\ rounds = MaxRounds)
            /\ UNCHANGED vars

Next == Work \/ Types \/ Answer \/ Stop \/ Finished

\* The client is run, the user answers, and so does the server while it is up.
Spec == Init /\ [][Next]_vars /\ WF_vars(Work) /\ WF_vars(Types) /\ WF_vars(Answer)
=============================================================================
