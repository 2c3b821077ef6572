--------------------------- MODULE ClientProperties ---------------------------
(***************************************************************************)
(* What the user of client.c can rely on.                                  *)
(***************************************************************************)
EXTENDS Client
-----------------------------------------------------------------------------
(* What is sent.                                                           *)

\* What the user has asked for: a withdrawal is a negative amount (client.c:90),
\* a user without a joint account has account 0 (communicate.h, "0 if creating
\* new account"), and all else is what was typed at the prompt of the field.
Meant(f) ==
  IF op = "withdraw" /\ f = "amt" THEN <<Negated(typed.fields[f][1])>>
  ELSE IF op = "create_user" /\ f = "aid" THEN <<"0">>
  ELSE typed.fields[f]

\* The server receives the action of the chosen function with what the user has
\* asked for in every field of its structure, and no field holds what was on
\* the stack, whatever was left in stdin by the reads before, as long as the
\* answers of this round were of the kind asked for and fitted (client.c:328,
\* "Newline from menu input", and the reads and assignments around it).
SentAsMeant ==
  clean /\ asked # <<>> =>
    /\ op # "login" => op = Chosen(typed.opt)
    /\ asked[1] = Entries[op].action
    /\ Len(asked) = 2 =>
         /\ DOMAIN asked[2] = Structure[asked[1]]
         /\ \A f \in DOMAIN asked[2] : asked[2][f] = Meant(f) /\ asked[2][f] # NoText
-----------------------------------------------------------------------------
(* What is reported.                                                       *)

\* Success is reported if and only if the server has answered so, and a cause
\* is given only if it is the one in the answer.  A report without an answer
\* comes from a connection that was cut: the response is then whatever was in
\* the buffer (client.c:65, safe_read's count is not looked at).
ReportIsTrue ==
  report # "none" =>
    \/ /\ answer # <<>>
       /\ (report = "Success") <=> (answer[1].stat = "Success")
       /\ report \in {"Other", answer[1].stat}
    \/ answer = <<>> /\ cut

HasBars(d) == d.bars > 0

\* The rows a list should have: one for every item that came, but for those
\* with a '|' in a string, which libfort refuses.
ListedItems ==
  SelectSeq(Tail(answer),
            LAMBDA m : /\ m.stat = "Success"
                       /\ op = "get_users" => ~HasBars(m.d))

\* A list that is printed starts with what the server has sent, in its order,
\* and shows nothing else unless the connection was cut on the way or the
\* server could not send the journal (client.c:267 looks at neither).
ListsShowWhatWasSent ==
  pc = "close" /\ op \in Lists /\ report = "Success" /\ answer # <<>> =>
    LET head   == ListHead(op).rows
        rows   == Last(Shown).rows
        wanted == head \o [k \in DOMAIN ListedItems |->
                          CreateRowFromFormat(ItemRow(op, ListedItems[k].d))]
        failed == \E k \in 2..Len(answer) : answer[k].stat = "Failure"
    IN  /\ IsPrefix(wanted, rows)
        /\ rows = wanted \/ cut \/ (op = "view_details" /\ failed)

\* The client goes away on its own account only: nobody logged in, the user has
\* logged out, or there is no server any more.
LeavesForAReason ==
  [][pc # "exit" /\ pc' = "exit" => op \in {"login", "logout"} \/ ~up]_vars
-----------------------------------------------------------------------------
(* How it looks.                                                           *)

\* What a round has printed, looked at when it is over.
Tables  == IF pc = "close" THEN { Shown[k] : k \in DOMAIN Shown } ELSE {}
Printed == { TableToString(t) : t \in Tables }

TablesFit       == \A p \in Printed : p.ok
CellsAreVisible ==
  \A t \in Tables : \A r \in DOMAIN t.rows :
    LET row == t.rows[r]
    IN  \A c \in DOMAIN row : row[c].text.w > 0 => ~Covered(row, c)

\* Everything that was put into a table is printed: the size that is computed
\* beforehand is enough, or ft_to_string would return NULL, which the client
\* prints (client.c:286), and no text is in a cell under one that spans its
\* column.
EverythingIsPrinted == TablesFit /\ CellsAreVisible

LinesAlign ==
  \A p \in Printed : \A a, b \in DOMAIN p.lines :
    p.lines[a].width = p.lines[b].width
SeparatorsMeetRows ==
  \A p \in Printed : \A k \in DOMAIN p.lines :
    LET line == p.lines[k] IN
    line.kind = "separator" =>
      /\ k > 1 => line.up = p.lines[k - 1].down
      /\ k < Len(p.lines) => line.down = p.lines[k + 1].up

\* All lines of a table are equally wide, whatever cells span its columns, and
\* a separator meets a boundary exactly where the rows above and below it have
\* one.
LinesMeet == LinesAlign /\ SeparatorsMeetRows
-----------------------------------------------------------------------------
(* What must happen.                                                       *)

\* Every exchange ends: the client asks in full, and the server's answer or
\* its end brings it back to the menu.
EveryRoundEnds == (pc = "connect") ~> (pc \in {"menu", "exit"})
=============================================================================
