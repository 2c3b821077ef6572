----------------------------- MODULE Connections -----------------------------
(***************************************************************************)
(* The accept loop of server.c, the threads it starts and the connections  *)
(* they serve, with the kernel's part in it: the queue of connections that *)
(* were not accepted yet, the table of descriptors, and what has been sent *)
(* and not been read.                                                      *)
(*                                                                         *)
(* main hands every thread the address of its variable nsd, and a thread   *)
(* reads it when it first runs.  A descriptor is looked up by each call    *)
(* that uses it; a read that waits keeps the connection it has found.      *)
(* What a request does to the data is the subject of Server; here it is    *)
(* one of two kinds: with a body, or without one and answered by a list.   *)
(***************************************************************************)
EXTENDS Naturals, Sequences, FiniteSets

CONSTANTS Conns,         \* the connections clients make, one request each
          Threads,       \* threads that can exist at the same time
          MaxFds,        \* descriptors the server may have open for them
          Backlog,       \* listen(sd, 5)
          MaxFailures,   \* failed calls of accept in a behaviour
          Nobody         \* no connection

ASSUME NobodyAssumption  == Nobody \notin Conns
ASSUME ThreadsAssumption == Threads \subseteq Nat   \* pthread_t, in some order
ASSUME BoundsAssumption  == MaxFds \in Nat /\ Backlog \in Nat /\ MaxFailures \in Nat

Fds   == 1..MaxFds
BadFd == 0               \* the -1 of a failed accept
Kinds == {"body", "list"}

\* What the controllers read behind the header, and how often they write.
HasBody(kind) == kind = "body"
Answers(kind) == IF kind = "list" THEN 2 ELSE 1

VARIABLES
  server,                \* "off", "listening", "down"
  nsd,                   \* the variable of main's loop
  queue, fds,            \* connections to accept; the table of descriptors
  thr,                   \* the threads
  cst, kind, sent, rx,   \* the client of a connection, what it asks, has sent,
                         \*   and what of it was not read
  got, reset,            \* answers it has received; the connection was reset
  crossed, unasked,      \* history: somebody was given the answer to another's
                         \*   request; a request was carried out that nobody made
  overrun, failures,     \* history: nsd overwritten unread; failed accepts
  interrupted            \* history: SIGINT

main    == <<server, nsd>>
kernel  == <<queue, fds>>
clients == <<cst, kind, sent, rx, got, reset>>
history == <<crossed, unasked, overrun, failures, interrupted>>
vars    == <<main, kernel, thr, clients, history>>

Idle   == [pc |-> "none", fd |-> BadFd, at |-> Nobody, head |-> Nobody,
           body |-> Nobody, act |-> "nothing", left |-> 0]
FreeFds == { f \in Fds : fds[f] = Nobody }
Lowest(S) == CHOOSE f \in S : \A g \in S : f <= g
FileAt(f) == IF f \in Fds THEN fds[f] ELSE Nobody
Live == { t \in Threads : thr[t].pc # "none" }

Gone(c) == cst[c] \in {"closed", "killed"}

\* A client that does not wait for its answer, or never asked.
Early == \E c \in Conns : cst[c] = "killed" \/ (cst[c] = "closed" /\ kind[c] = "none")

\* No descriptor and no waiting read is left of it: the client sees its end.
ServerClosed(c) ==
  \/ server = "down"
  \/ /\ \A k \in DOMAIN queue : queue[k] # c
     /\ \A f \in Fds : fds[f] # c
     /\ \A t \in Threads : thr[t].at # c
-----------------------------------------------------------------------------
(* main.                                                                   *)

\* server_init: without a socket, an address or a queue the program ends.
Start ==
  /\ server = "off"
  /\ server' \in {"listening", "down"}
  /\ UNCHANGED <<nsd, kernel, thr, clients, history>>

\* One round of the loop: accept has returned value, and a thread is created.
\* One that has not read nsd yet will read what is written to it now.
NextRound(value) ==
  /\ server = "listening"
  /\ Threads # Live
  /\ nsd' = value
  /\ overrun' = (overrun \/ \E t \in Threads : thr[t].pc = "start")
  /\ thr' = [thr EXCEPT ![Lowest(Threads \ Live)].pc = "start"]
  /\ UNCHANGED <<server, clients, crossed, unasked, interrupted>>

Accept ==
  /\ queue # <<>> /\ FreeFds # {}
  /\ NextRound(Lowest(FreeFds))
  /\ fds' = [fds EXCEPT ![Lowest(FreeFds)] = Head(queue)]
  /\ queue' = Tail(queue)
  /\ UNCHANGED failures

\* No descriptor is left, the files of the database take some as well: what is
\* in the queue stays there, and the loop goes on with -1.
AcceptFails ==
  /\ failures < MaxFailures /\ failures' = failures + 1
  /\ NextRound(BadFd)
  /\ UNCHANGED kernel

\* kill_server, and a signal that nobody handles: every thread is gone.
GoDown ==
  /\ server' = "down"
  /\ thr' = [t \in Threads |-> Idle]
  /\ queue' = <<>> /\ fds' = [f \in Fds |-> Nobody]
  /\ nsd' = BadFd

Interrupt ==
  /\ server = "listening"
  /\ GoDown
  /\ interrupted' = TRUE
  /\ UNCHANGED <<clients, crossed, unasked, overrun, failures>>
-----------------------------------------------------------------------------
(* handle_request, and the calls of a controller on its connection.        *)

Runs(t, pc) == server = "listening" /\ thr[t].pc = pc

TakeDescriptor(t) ==
  /\ Runs(t, "start")
  /\ thr' = [thr EXCEPT ![t].fd = nsd, ![t].pc = "header"]
  /\ UNCHANGED <<main, kernel, clients, history>>

BeginRead(t) ==
  LET c == FileAt(thr[t].fd) IN
  /\ Runs(t, "header") \/ Runs(t, "body")
  /\ thr[t].at = Nobody /\ c # Nobody
  /\ thr' = [thr EXCEPT ![t].at = c]
  /\ UNCHANGED <<main, kernel, clients, history>>

\* Mutant of EndsEmpty: read does not wait.
EndsEmpty_Impatient(r) == IF r.at = Nobody THEN FileAt(r.fd) = Nobody ELSE rx[r.at] = <<>>

\* What safe_read returns with: the next thing that was sent, or, at the end of
\* the connection and on a bad descriptor, nothing: the buffer stays as it is.
EndsWith(r, piece) == r.at # Nobody /\ rx[r.at] # <<>> /\ Head(rx[r.at]) = piece
EndsEmpty(r) == IF r.at = Nobody THEN FileAt(r.fd) = Nobody
                ELSE rx[r.at] = <<>> /\ Gone(r.at)
Take(c) == rx' = [rx EXCEPT ![c] = Tail(@)]

\* Mutant of AfterHeader: more is sent than was announced.
AfterHeader_MoreItems(r, act) ==
  [r EXCEPT !.at = Nobody, !.act = act,
            !.left = IF act \in Kinds THEN Answers(act) + 2 ELSE 0,
            !.pc = CASE act = "nothing" -> "close"
                     [] act \in Kinds /\ HasBody(act) -> "body"
                     [] OTHER -> "write"]

\* Mutant of AfterHeader: nothing follows the response.
AfterHeader_NoItems(r, act) ==
  [r EXCEPT !.at = Nobody, !.act = act, !.left = IF act \in Kinds THEN 1 ELSE 0,
            !.pc = CASE act = "nothing" -> "close"
                     [] act \in Kinds /\ HasBody(act) -> "body"
                     [] OTHER -> "write"]

AfterHeader(r, act) ==
  [r EXCEPT !.at = Nobody, !.act = act,
            !.left = IF act \in Kinds THEN Answers(act) ELSE 0,
            !.pc = CASE act = "nothing" -> "close"
                     [] act \in Kinds /\ HasBody(act) -> "body"
                     [] OTHER -> "write"]

ReadHeader(t) ==
  LET r == thr[t] IN
  /\ Runs(t, "header")
  /\ \/ /\ EndsWith(r, "header") /\ Take(r.at)
        /\ thr' = [thr EXCEPT ![t] = AfterHeader([@ EXCEPT !.head = r.at], kind[r.at])]
     \/ /\ \/ EndsWith(r, "body") /\ Take(r.at)
           \/ EndsEmpty(r) /\ UNCHANGED rx
        /\ \E act \in Kinds \cup {"nothing"} :
             thr' = [thr EXCEPT ![t] = AfterHeader(@, act)]
  /\ UNCHANGED <<main, kernel, cst, kind, sent, got, reset, history>>

ReadBody(t) ==
  LET r == thr[t] IN
  /\ Runs(t, "body")
  /\ \/ /\ EndsWith(r, "body") /\ Take(r.at)
        /\ thr' = [thr EXCEPT ![t].at = Nobody, ![t].pc = "write", ![t].body = r.at]
     \/ /\ \/ EndsWith(r, "header") /\ Take(r.at)
           \/ EndsEmpty(r) /\ UNCHANGED rx
        /\ thr' = [thr EXCEPT ![t].at = Nobody, ![t].pc = "write"]
  /\ UNCHANGED <<main, kernel, cst, kind, sent, got, reset, history>>

\* Mutant of Wrote: the loop over the items does not end in time.
Wrote_OneMore(r) == [r EXCEPT !.left = IF @ > 0 THEN @ - 1 ELSE 0,
                              !.pc = IF r.left = 0 THEN "close" ELSE "write"]

Wrote(r) == [r EXCEPT !.left = @ - 1, !.pc = IF r.left = 1 THEN "close" ELSE "write"]

\* Mutant of Destination: the variable of the accept loop is used throughout.
Destination_Shared(r) == FileAt(nsd)

Destination(r) == FileAt(r.fd)

\* A controller writes a response, and the items of a list.
Write(t) ==
  LET r == thr[t]
      c == Destination(r)
  IN  /\ Runs(t, "write")
      /\ thr' = [thr EXCEPT ![t] = Wrote(@)]
      /\ crossed' = (crossed \/ \E from \in {r.head, r.body} \ {Nobody} : from # c)
      /\ unasked' = (unasked \/ r.head = Nobody)
      /\ IF c = Nobody THEN UNCHANGED <<got, reset>>
         ELSE IF cst[c] = "connected"
         THEN got' = [got EXCEPT ![c] = @ + 1] /\ UNCHANGED reset
         ELSE reset' = [reset EXCEPT ![c] = TRUE] /\ UNCHANGED got
      /\ UNCHANGED <<main, kernel, cst, kind, sent, rx, overrun, failures,
                     interrupted>>

\* SIGPIPE, on a connection its client has reset.
BrokenPipe(t) ==
  LET c == Destination(thr[t]) IN
  /\ Runs(t, "write") /\ c # Nobody
  /\ Gone(c) /\ reset[c]
  /\ GoDown
  /\ UNCHANGED <<clients, history>>

\* Mutants of CloseConnection: it is closed twice, or not at all.
CloseConnection_Twice(t) ==
  /\ Runs(t, "close")
  /\ fds' = [f \in Fds |-> IF f = thr[t].fd THEN Nobody ELSE fds[f]]
  /\ thr' = [thr EXCEPT ![t] = IF @.act = "closed" THEN Idle ELSE [@ EXCEPT !.act = "closed"]]
  /\ UNCHANGED <<main, queue, clients, history>>
CloseConnection_Forgotten(t) ==
  /\ Runs(t, "close")
  /\ thr' = [thr EXCEPT ![t] = Idle]
  /\ UNCHANGED <<main, kernel, clients, history>>

\* The end of handle_request, and of the thread.
CloseConnection(t) ==
  /\ Runs(t, "close")
  /\ fds' = [f \in Fds |-> IF f = thr[t].fd THEN Nobody ELSE fds[f]]
  /\ thr' = [thr EXCEPT ![t] = Idle]
  /\ UNCHANGED <<main, queue, clients, history>>
-----------------------------------------------------------------------------
(* The clients, as far as the server can tell.                             *)

Connect(c) ==
  /\ server = "listening" /\ cst[c] = "new" /\ Len(queue) <= Backlog
  /\ queue' = Append(queue, c)
  /\ cst' = [cst EXCEPT ![c] = "connected"]
  /\ UNCHANGED <<main, fds, thr, kind, sent, rx, got, reset, history>>

\* What is sent to an end that is closed is lost.
Send(c, piece) ==
  /\ cst[c] = "connected"
  /\ sent' = [sent EXCEPT ![c] = @ + 1]
  /\ rx' = [rx EXCEPT ![c] = IF ServerClosed(c) THEN @ ELSE Append(@, piece)]
  /\ UNCHANGED <<main, kernel, thr, cst, got, reset, history>>

SendHeader(c) == /\ kind[c] = "none"
                 /\ \E k \in Kinds : kind' = [kind EXCEPT ![c] = k]
                 /\ Send(c, "header")
SendBody(c)   == /\ HasBody(kind[c]) /\ sent[c] = 1
                 /\ Send(c, "body")
                 /\ UNCHANGED kind

Answered(c) == kind[c] \in Kinds /\ got[c] >= Answers(kind[c])

\* With its answer, without one that still could come, or, after an invalid
\* choice, without having asked.
Leave(c) ==
  /\ cst[c] = "connected" /\ ~(HasBody(kind[c]) /\ sent[c] = 1)
  /\ kind[c] = "none" \/ Answered(c) \/ ServerClosed(c)
  /\ cst' = [cst EXCEPT ![c] = "closed"]
  /\ UNCHANGED <<main, kernel, thr, kind, sent, rx, got, reset, history>>

\* The client is killed, one in a behaviour.  What it has not read may reset the connection at once.
Quit(c) ==
  /\ cst[c] = "connected" /\ \A d \in Conns : cst[d] # "killed"
  /\ cst' = [cst EXCEPT ![c] = "killed"]
  /\ \E r \in BOOLEAN : (r => got[c] > 0) /\ reset' = [reset EXCEPT ![c] = r]
  /\ UNCHANGED <<main, kernel, thr, kind, sent, rx, got, history>>
-----------------------------------------------------------------------------
Init ==
  /\ server = "off" /\ nsd = BadFd
  /\ queue = <<>> /\ fds = [f \in Fds |-> Nobody]
  /\ thr = [t \in Threads |-> Idle]
  /\ cst = [c \in Conns |-> "new"] /\ kind = [c \in Conns |-> "none"]
  /\ sent = [c \in Conns |-> 0] /\ rx = [c \in Conns |-> <<>>]
  /\ got = [c \in Conns |-> 0] /\ reset = [c \in Conns |-> FALSE]
  /\ crossed = FALSE /\ unasked = FALSE /\ overrun = FALSE /\ failures = 0
  /\ interrupted = FALSE

Main == Start \/ Accept \/ AcceptFails

HandleRequest(t) ==
  TakeDescriptor(t) \/ BeginRead(t) \/ ReadHeader(t) \/ ReadBody(t) \/ Write(t)
    \/ CloseConnection(t)

ClientStep(c) == SendHeader(c) \/ SendBody(c) \/ Leave(c)

\* Nothing more will come.
Finished == /\ \A c \in Conns : cst[c] # "connected"
            /\ server = "down" \/ (queue = <<>> /\ Live = {})
            /\ UNCHANGED vars

Next ==
  \/ Main \/ Interrupt \/ Finished
  \/ \E t \in Threads : HandleRequest(t) \/ BrokenPipe(t)
  \/ \E c \in Conns : Connect(c) \/ ClientStep(c) \/ Quit(c)

\* main, the threads and the clients go on as long as they can.
Spec ==
  /\ Init /\ [][Next]_vars
  /\ WF_vars(Main)
  /\ \A t \in Threads : WF_vars(HandleRequest(t))
  /\ \A c \in Conns : WF_vars(ClientStep(c))
-----------------------------------------------------------------------------
Pcs == {"none", "start", "header", "body", "write", "close"}

\* Every variable has its type; a connection has one descriptor at most, and is
\* either in the queue or has one.
ConnectionsTypeOK ==
  /\ server \in {"off", "listening", "down"} /\ nsd \in Fds \cup {BadFd} /\ fds \in [Fds -> Conns \cup {Nobody}]
  /\ \A t \in Threads : /\ thr[t].pc \in Pcs /\ thr[t].fd \in Fds \cup {BadFd}
                         /\ thr[t].at \in Conns \cup {Nobody}
                         /\ thr[t].pc = "write" => thr[t].left > 0
  /\ \A f, g \in Fds : f # g => fds[f] = Nobody \/ fds[f] # fds[g]
  /\ \A k \in DOMAIN queue : \A f \in Fds : fds[f] # queue[k]
  /\ Len(queue) <= Backlog + 1

\* Unless main overwrote its variable before a thread had read it (server.c:711),
\* no two threads use one descriptor, though numbers are used again and again.
OneThreadEach ==
  \A t, u \in Live :
    t # u /\ thr[t].pc # "start" /\ thr[u].pc # "start"
          /\ thr[t].fd = thr[u].fd /\ thr[t].fd # BadFd => overrun

\* Unless it did, every connection that was accepted has somebody to close it:
\* no descriptor is lost.
OnlyOverrunsStrand ==
  \A f \in Fds :
    fds[f] # Nobody =>
      \/ overrun
      \/ \E t \in Live : IF thr[t].pc = "start" THEN nsd = f ELSE thr[t].fd = f

\* Unless it did, an answer goes to the client whose request it is: header and
\* body come from the connection it is written to.
AnswersGoToTheAsker == crossed => overrun

\* A request that nobody made is carried out only where a connection ended, or
\* was none, before its header came: handle_request does not look at what
\* safe_read returns (server.c:604).
ActsOnRequest == unasked => overrun \/ failures > 0 \/ Early

\* Only SIGINT, or a client that did not wait for the end of its answer, ends a
\* server that was listening.
GoesDownForAReason ==
  [][server = "listening" /\ server' = "down" => interrupted' \/ Early \/ overrun]_vars

\* Whoever asks, and waits, is answered in full, unless the server ends or a
\* thread lost its connection: a failure of accept is only a delay, and so is
\* whoever else connects and goes.
EveryoneIsServed ==
  \A c \in Conns :
    (kind[c] \in Kinds)
      ~> (Answered(c) \/ cst[c] = "killed" \/ server = "down" \/ overrun)
=============================================================================
