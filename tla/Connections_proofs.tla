------------------------- MODULE Connections_proofs -------------------------
(***************************************************************************)
(* Proofs about Connections, for any number of connections, threads and    *)
(* descriptors, and a queue of any length.                                 *)
(***************************************************************************)
EXTENDS Connections, SequenceTheorems, FiniteSetTheorems,
        TLAPS

(***************************************************************************)
(* The inductive invariant: types, what each variable says of the others   *)
(* at any time, and what is true of the threads until nsd is overwritten.  *)
(***************************************************************************)

Acts   == Kinds \cup {"nothing"}
Pieces == {"header", "body"}
ThrRec == [pc : Pcs, fd : Fds \cup {BadFd}, at : Conns \cup {Nobody},
           head : Conns \cup {Nobody}, body : Conns \cup {Nobody},
           act : Acts, left : Nat]

KernelTypes ==
  /\ server \in {"off", "listening", "down"}
  /\ nsd \in Fds \cup {BadFd}
  /\ queue \in Seq(Conns)
  /\ fds \in [Fds -> Conns \cup {Nobody}]

ThreadTypes == thr \in [Threads -> ThrRec]

ClientTypes ==
  /\ cst \in [Conns -> {"new", "connected", "closed", "killed"}]
  /\ kind \in [Conns -> Kinds \cup {"none"}]
  /\ sent \in [Conns -> Nat]
  /\ rx \in [Conns -> Seq(Pieces)]
  /\ got \in [Conns -> Nat]
  /\ reset \in [Conns -> BOOLEAN]

HistoryTypes ==
  /\ crossed \in BOOLEAN /\ unasked \in BOOLEAN /\ overrun \in BOOLEAN
  /\ interrupted \in BOOLEAN /\ failures \in Nat

Types == KernelTypes /\ ThreadTypes /\ ClientTypes /\ HistoryTypes

Queued(c)   == \E k \in DOMAIN queue : queue[k] = c
Accepted(c) == \E f \in Fds : fds[f] = c

\* A connection is in one place at most, and one that was not made in none.
OnePlace ==
  /\ \A f, g \in Fds : f # g => fds[f] = Nobody \/ fds[f] # fds[g]
  /\ \A j, k \in DOMAIN queue : j # k => queue[j] # queue[k]
  /\ \A c \in Conns : ~(Queued(c) /\ Accepted(c))
  /\ \A c \in Conns : cst[c] = "new" => ~Queued(c) /\ ~Accepted(c)

\* A server that does not listen has nothing open.
Quiescent ==
  server # "listening" =>
    queue = <<>> /\ FreeFds = Fds /\ Live = {} /\ nsd = BadFd

\* What a client has sent fits what it asks.
Clients ==
  \A c \in Conns :
    /\ kind[c] = "none" => rx[c] = <<>>
    /\ cst[c] = "new" => kind[c] = "none" /\ got[c] = 0

ThreadShape(r) ==
  /\ r.pc \in {"none", "start"} => r.at = Nobody
  /\ r.pc \in {"none", "start", "header"} => r.head = Nobody /\ r.body = Nobody
  /\ r.pc \in {"body", "write"} => r.left > 0

\* The descriptor a thread works on, or will take.
Mine(t) == IF thr[t].pc = "start" THEN nsd ELSE thr[t].fd
Conn(t) == FileAt(Mine(t))

\* Descriptors and the threads that have them match.
OneToOne ==
  /\ \A t, u \in Live : t # u => Mine(t) # Mine(u) \/ Mine(t) = BadFd
  /\ \A t, u \in Live : thr[t].pc = "start" /\ thr[u].pc = "start" => t = u
  /\ \A t \in Live : Mine(t) \in Fds => fds[Mine(t)] # Nobody
  /\ \A f \in Fds : fds[f] # Nobody => \E t \in Live : Mine(t) = f
  /\ \A t \in Live : Mine(t) = BadFd => failures > 0

\* Nothing has been read from the connection, nothing has been written to it.
Untouched(c) ==
  /\ got[c] = 0
  /\ kind[c] # "none" => rx[c] # <<>> /\ Head(rx[c]) = "header"
  /\ cst[c] = "connected" \/ Early

\* The thread serves the request of the connection it has.
Serves(t) ==
  /\ thr[t].at \in {Nobody, Conn(t)}
  /\ thr[t].head \in {Nobody, Conn(t)}
  /\ thr[t].body \in {Nobody, Conn(t)}
  /\ Conn(t) # Nobody =>
       /\ thr[t].pc \in {"start", "header"} => Untouched(Conn(t))
       /\ thr[t].pc \in {"body", "write"} =>
            \/ Early
            \/ /\ thr[t].head = Conn(t)
               /\ cst[Conn(t)] = "connected" /\ kind[Conn(t)] # "none"
               /\ got[Conn(t)] + thr[t].left = Answers(kind[Conn(t)])

NoMixUp ==
  /\ OneToOne
  /\ \A k \in DOMAIN queue : Untouched(queue[k])
  /\ \A t \in Live : Serves(t)
  /\ ~crossed
  /\ unasked => failures > 0 \/ Early

CInv ==
  /\ Types /\ OnePlace /\ Quiescent /\ Clients
  /\ Len(queue) <= Backlog + 1
  /\ \A t \in Threads : ThreadShape(thr[t])
  /\ overrun \/ NoMixUp

(***************************************************************************)
(* Constants and operators.                                                *)
(***************************************************************************)

\* Some natural numbers have a least one: the intervals that end at them are
\* finite sets, ordered by inclusion.
LEMMA LeastNumber ==
  ASSUME NEW S, S \subseteq Nat, S # {}
  PROVE  \E m \in S : \A n \in S : m <= n
<1>1. PICK x \in S : x \in Nat
  OBVIOUS
<1> DEFINE T == {0 .. n : n \in {k \in S : k <= x}}
           R == StrictSubsetOrdering(0 .. x)
<1>2. IsWellFoundedOn(R, FiniteSubsetsOf(0 .. x))
  BY FS_StrictSubsetOrderingWellFounded
<1>3. T \subseteq FiniteSubsetsOf(0 .. x)
  <2>1. ASSUME NEW n \in S, n <= x PROVE 0 .. n \in FiniteSubsetsOf(0 .. x)
    <3>1. IsFiniteSet(0 .. n)
      BY FS_Interval
    <3>2. 0 .. n \subseteq 0 .. x
      BY <1>1, <2>1
    <3> QED
      BY <3>1, <3>2 DEF FiniteSubsetsOf
  <2> QED
    BY <2>1
<1>4. T # {}
  <2>1. x <= x
    BY <1>1
  <2> QED
    BY <2>1
<1>5. PICK s \in T : \A u \in T : <<u, s>> \notin R
  <2> HIDE DEF T, R
  <2> QED
    BY <1>2, <1>3, <1>4, WFMin
<1>6. PICK m \in S : m <= x /\ s = 0 .. m
  OBVIOUS
<1>7. ASSUME NEW n \in S, ~(m <= n) PROVE FALSE
  <2>1. n \in Nat /\ m \in Nat /\ n < m /\ n <= x
    BY <1>1, <1>6, <1>7
  <2>2. 0 .. n \in T
    BY <2>1
  <2>3. 0 .. n \subseteq 0 .. m /\ 0 .. m \subseteq 0 .. x /\ 0 .. n \subseteq 0 .. x
    BY <2>1, <1>6, <1>1
  <2>4. m \in 0 .. m /\ m \notin 0 .. n
    BY <2>1
  <2>5. <<0 .. n, 0 .. m>> \in R
    BY <2>3, <2>4 DEF StrictSubsetOrdering
  <2> QED
    BY <2>2, <2>5, <1>5, <1>6
<1> QED
  BY <1>7

\* The lowest of some numbers is one of them: the kernel gives out a free
\* descriptor, main a free place for a thread.
LEMMA LowestIsMember ==
  ASSUME NEW S, S \subseteq Nat, S # {} PROVE Lowest(S) \in S
BY LeastNumber DEF Lowest

\* Where a descriptor leads.
LEMMA FileAtType ==
  ASSUME KernelTypes, NEW f \in Fds \cup {BadFd}
  PROVE  FileAt(f) \in Conns \cup {Nobody}
BY DEF KernelTypes, FileAt

\* What becomes of a thread that has read its header.
LEMMA AfterHeaderType ==
  ASSUME NEW r \in ThrRec, NEW a \in Acts
  PROVE  /\ AfterHeader(r, a) \in ThrRec
         /\ AfterHeader(r, a).pc \in {"close", "body", "write"}
         /\ AfterHeader(r, a).pc = "close" <=> a = "nothing"
         /\ AfterHeader(r, a).at = Nobody
         /\ AfterHeader(r, a).act = a
         /\ AfterHeader(r, a).fd = r.fd
         /\ AfterHeader(r, a).head = r.head /\ AfterHeader(r, a).body = r.body
         /\ a # "nothing" => AfterHeader(r, a).left = Answers(a)
         /\ a # "nothing" => AfterHeader(r, a).left > 0
<1> DEFINE x == AfterHeader(r, a)
<1>1. a \in {"body", "list", "nothing"}
  BY DEF Acts, Kinds
<1>2. CASE a = "nothing"
  <2>1. x = [r EXCEPT !.at = Nobody, !.act = a, !.left = 0, !.pc = "close"]
    BY <1>2 DEF AfterHeader, Kinds
  <2> HIDE DEF x
  <2>2. x \in ThrRec
    BY <2>1 DEF ThrRec, Pcs
  <2>3. /\ x.at = Nobody /\ x.act = a
        /\ x.pc = "close" /\ x.left = 0
        /\ x.fd = r.fd
        /\ x.head = r.head /\ x.body = r.body
    BY <2>1 DEF ThrRec
  <2> QED
    BY <1>2, <2>2, <2>3 DEF x, Answers
<1>3. CASE a = "body"
  <2>1. x = [r EXCEPT !.at = Nobody, !.act = a, !.left = 1, !.pc = "body"]
    BY <1>3 DEF AfterHeader, Kinds, HasBody, Answers
  <2> HIDE DEF x
  <2>2. x \in ThrRec
    BY <2>1 DEF ThrRec, Pcs
  <2>3. /\ x.at = Nobody /\ x.act = a
        /\ x.pc = "body" /\ x.left = 1
        /\ x.fd = r.fd
        /\ x.head = r.head /\ x.body = r.body
    BY <2>1 DEF ThrRec
  <2> QED
    BY <1>3, <2>2, <2>3 DEF x, Answers
<1>4. CASE a = "list"
  <2>1. x = [r EXCEPT !.at = Nobody, !.act = a, !.left = 2, !.pc = "write"]
    BY <1>4 DEF AfterHeader, Kinds, HasBody, Answers
  <2> HIDE DEF x
  <2>2. x \in ThrRec
    BY <2>1 DEF ThrRec, Pcs
  <2>3. /\ x.at = Nobody /\ x.act = a
        /\ x.pc = "write" /\ x.left = 2
        /\ x.fd = r.fd
        /\ x.head = r.head /\ x.body = r.body
    BY <2>1 DEF ThrRec
  <2> QED
    BY <1>4, <2>2, <2>3 DEF x, Answers
<1> QED
  BY <1>1, <1>2, <1>3, <1>4

\* What becomes of one that has written.
LEMMA WroteType ==
  ASSUME NEW r \in ThrRec, r.left > 0
  PROVE  /\ Wrote(r) \in ThrRec
         /\ Wrote(r).left = r.left - 1
         /\ Wrote(r).pc \in {"close", "write"}
         /\ Wrote(r).pc = "write" => Wrote(r).left > 0
         /\ Wrote(r).fd = r.fd /\ Wrote(r).at = r.at
         /\ Wrote(r).head = r.head /\ Wrote(r).body = r.body
<1>1. r.left \in Nat /\ r.left - 1 \in Nat /\ (r.left # 1 => r.left - 1 > 0)
  BY DEF ThrRec
<1>2. CASE r.left = 1
  <2>1. Wrote(r) = [r EXCEPT !.left = r.left - 1, !.pc = "close"]
    BY <1>2 DEF Wrote
  <2> QED
    BY <1>1, <2>1 DEF ThrRec, Pcs
<1>3. CASE r.left # 1
  <2>1. Wrote(r) = [r EXCEPT !.left = r.left - 1, !.pc = "write"]
    BY <1>3 DEF Wrote
  <2> QED
    BY <1>1, <1>3, <2>1 DEF ThrRec, Pcs
<1> QED
  BY <1>2, <1>3

LEMMA IdleType == Idle \in ThrRec
BY DEF Idle, ThrRec, Pcs, Acts, Kinds

\* The first place for a thread, and the first descriptor.
LEMMA NextFree ==
  /\ Threads # Live => Lowest(Threads \ Live) \in Threads \ Live
  /\ FreeFds # {} => Lowest(FreeFds) \in FreeFds
<1>1. Live \subseteq Threads /\ Threads \subseteq Nat /\ FreeFds \subseteq Nat
  BY ThreadsAssumption, BoundsAssumption DEF Live, FreeFds, Fds
<1>2. Threads # Live => Threads \ Live # {} /\ Threads \ Live \subseteq Nat
  BY <1>1
<1> QED
  BY <1>1, <1>2, LowestIsMember

(***************************************************************************)
(* The types.                                                              *)
(***************************************************************************)

LEMMA InitTypes == Init => Types
<1> SUFFICES ASSUME Init PROVE Types
  OBVIOUS
<1>1. KernelTypes
  BY DEF Init, KernelTypes
<1>2. ThreadTypes
  BY IdleType DEF Init, ThreadTypes
<1>3. ClientTypes
  BY DEF Init, ClientTypes
<1>4. HistoryTypes
  BY DEF Init, HistoryTypes
<1> QED
  BY <1>1, <1>2, <1>3, <1>4 DEF Types

\* One round of the loop.
LEMMA RoundTypes ==
  ASSUME CInv, Accept \/ AcceptFails PROVE Types'
<1> USE DEF CInv, Types
<1> DEFINE t == Lowest(Threads \ Live)
<1>1. t \in Threads \ Live
  BY NextFree DEF Accept, AcceptFails, NextRound
<1>2. thr' = [thr EXCEPT ![t].pc = "start"]
  BY DEF Accept, AcceptFails, NextRound
<1>3. ThreadTypes'
  BY <1>1, <1>2 DEF ThreadTypes, ThrRec, Pcs
<1>4. ClientTypes'
  BY DEF Accept, AcceptFails, NextRound, clients, ClientTypes
<1>5. HistoryTypes'
  <2>1. overrun' \in BOOLEAN
    BY DEF Accept, AcceptFails, NextRound
  <2>2. failures' \in Nat
    BY DEF Accept, AcceptFails, HistoryTypes
  <2> QED
    BY <2>1, <2>2 DEF Accept, AcceptFails, NextRound, HistoryTypes
<1>6. KernelTypes'
  <2>1. CASE Accept
    <3>1. Lowest(FreeFds) \in Fds
      BY <2>1, NextFree DEF Accept, FreeFds
    <3>2. queue # <<>> /\ queue \in Seq(Conns)
      BY <2>1 DEF Accept, KernelTypes
    <3>3. Head(queue) \in Conns /\ Tail(queue) \in Seq(Conns)
      BY <3>2, HeadTailProperties
    <3> QED
      BY <2>1, <3>1, <3>3 DEF Accept, NextRound, KernelTypes
  <2>2. CASE AcceptFails
    BY <2>2 DEF AcceptFails, NextRound, KernelTypes, kernel
  <2> QED
    BY <2>1, <2>2
<1> QED
  BY <1>3, <1>4, <1>5, <1>6

\* Everything else main does.
LEMMA MainTypes ==
  ASSUME CInv, \/ Start \/ Interrupt \/ \E t \in Threads : BrokenPipe(t)
  PROVE  Types'
<1> USE DEF CInv, Types
<1>1. CASE Start
  BY <1>1 DEF Start, KernelTypes, ThreadTypes, ClientTypes, HistoryTypes,
              kernel, clients, history
<1>2. ASSUME GoDown PROVE KernelTypes' /\ ThreadTypes'
  BY <1>2, IdleType DEF GoDown, KernelTypes, ThreadTypes
<1>3. CASE Interrupt
  BY <1>2, <1>3 DEF Interrupt, ClientTypes, HistoryTypes, clients
<1>4. CASE \E t \in Threads : BrokenPipe(t)
  BY <1>2, <1>4 DEF BrokenPipe, ClientTypes, HistoryTypes, clients, history
<1> QED
  BY <1>1, <1>3, <1>4

LEMMA TakeType ==
  ASSUME ClientTypes, NEW c \in Conns, rx[c] # <<>>, Take(c)
  PROVE  rx' \in [Conns -> Seq(Pieces)]
<1>1. Tail(rx[c]) \in Seq(Pieces)
  BY HeadTailProperties DEF ClientTypes
<1> QED
  BY <1>1 DEF ClientTypes, Take

\* A thread.
LEMMA RequestTypes ==
  ASSUME CInv, NEW t \in Threads, HandleRequest(t) PROVE Types'
<1> USE DEF CInv, Types
<1>1. thr[t] \in ThrRec
  BY DEF ThreadTypes
<1>2. CASE TakeDescriptor(t)
  BY <1>1, <1>2 DEF TakeDescriptor, main, kernel, clients, history, KernelTypes,
                    ThreadTypes, ClientTypes, HistoryTypes, ThrRec, Pcs
<1>3. CASE BeginRead(t)
  <2>1. FileAt(thr[t].fd) \in Conns \cup {Nobody}
    BY <1>1, FileAtType DEF ThrRec
  <2> QED
    BY <1>1, <1>3, <2>1
       DEF BeginRead, main, kernel, clients, history, KernelTypes,
           ThreadTypes, ClientTypes, HistoryTypes, ThrRec
<1>4. ASSUME EndsWith(thr[t], "header") \/ EndsWith(thr[t], "body"), Take(thr[t].at)
      PROVE  rx' \in [Conns -> Seq(Pieces)]
  BY <1>1, <1>4, TakeType DEF EndsWith, ThrRec
<1>5. CASE ReadHeader(t)
  <2>1. KernelTypes' /\ HistoryTypes'
    BY <1>5 DEF ReadHeader, main, kernel, history, KernelTypes, HistoryTypes
  <2>2. ClientTypes'
    BY <1>4, <1>5 DEF ReadHeader, ClientTypes
  <2>3. ThreadTypes'
    <3>1. CASE EndsWith(thr[t], "header")
                 /\ thr' = [thr EXCEPT ![t] = AfterHeader([@ EXCEPT !.head = thr[t].at],
                                                          kind[thr[t].at])]
      <4>1. thr[t].at \in Conns /\ rx[thr[t].at] # <<>>
        BY <1>1, <3>1 DEF EndsWith, ThrRec
      <4>2. kind[thr[t].at] \in Acts
        BY <4>1 DEF Clients, ClientTypes, Acts
      <4>3. [thr[t] EXCEPT !.head = thr[t].at] \in ThrRec
        BY <1>1, <4>1 DEF ThrRec
      <4> QED
        BY <3>1, <4>2, <4>3, AfterHeaderType DEF ThreadTypes
    <3>2. CASE \E act \in Kinds \cup {"nothing"} :
                 thr' = [thr EXCEPT ![t] = AfterHeader(@, act)]
      BY <1>1, <3>2, AfterHeaderType DEF ThreadTypes, Acts
    <3> QED
      BY <1>5, <3>1, <3>2 DEF ReadHeader
  <2> QED
    BY <2>1, <2>2, <2>3
<1>6. CASE ReadBody(t)
  <2>1. KernelTypes' /\ HistoryTypes'
    BY <1>6 DEF ReadBody, main, kernel, history, KernelTypes, HistoryTypes
  <2>2. ClientTypes'
    BY <1>4, <1>6 DEF ReadBody, ClientTypes
  <2>3. ThreadTypes'
    <3>1. [thr[t] EXCEPT !.at = Nobody, !.pc = "write"] \in ThrRec
      BY <1>1 DEF ThrRec, Pcs
    <3>2. [thr[t] EXCEPT !.at = Nobody, !.pc = "write", !.body = thr[t].at] \in ThrRec
      BY <1>1 DEF ThrRec, Pcs
    <3>3. \/ thr' = [thr EXCEPT ![t] = [thr[t] EXCEPT !.at = Nobody, !.pc = "write"]]
          \/ thr' = [thr EXCEPT ![t] = [thr[t] EXCEPT !.at = Nobody, !.pc = "write",
                                                    !.body = thr[t].at]]
      BY <1>6 DEF ReadBody
    <3> QED
      BY <3>1, <3>2, <3>3 DEF ThreadTypes
  <2> QED
    BY <2>1, <2>2, <2>3
<1>7. CASE Write(t)
  <2>1. Destination(thr[t]) \in Conns \cup {Nobody}
    BY <1>1, FileAtType DEF Destination, ThrRec
  <2>2. KernelTypes' /\ HistoryTypes'
    <3>1. crossed' \in BOOLEAN
      BY <1>7, Zenon DEF Write
    <3>2. unasked' \in BOOLEAN
      BY <1>7, Zenon DEF Write
    <3> QED
      BY <1>7, <3>1, <3>2 DEF Write, main, kernel, KernelTypes, HistoryTypes
  <2>3. ClientTypes'
    <3>1. UNCHANGED <<cst, kind, sent, rx>>
      BY <1>7 DEF Write
    <3> DEFINE c == Destination(thr[t])
    <3>2. \/ UNCHANGED <<got, reset>>
          \/ c \in Conns /\ got' = [got EXCEPT ![c] = @ + 1] /\ UNCHANGED reset
          \/ c \in Conns /\ reset' = [reset EXCEPT ![c] = TRUE] /\ UNCHANGED got
      BY <1>7, <2>1 DEF Write
    <3>3. got' \in [Conns -> Nat]
      <4>1. got \in [Conns -> Nat]
        BY DEF ClientTypes
      <4> HIDE DEF c, CInv
      <4> QED
        BY <3>2, <4>1
    <3>4. reset' \in [Conns -> BOOLEAN]
      <4>1. reset \in [Conns -> BOOLEAN]
        BY DEF ClientTypes
      <4> HIDE DEF c, CInv
      <4>2. [reset EXCEPT ![c] = TRUE] \in [Conns -> BOOLEAN]
        BY <4>1
      <4> QED
        BY <3>2, <4>1, <4>2
    <3> QED
      BY <3>1, <3>3, <3>4 DEF ClientTypes
  <2>4. Wrote(thr[t]) \in ThrRec
    BY <1>1, <1>7, WroteType DEF Write, Runs, ThreadShape
  <2> QED
    BY <1>7, <2>2, <2>3, <2>4 DEF Write, ThreadTypes
<1>8. CASE CloseConnection(t)
  BY <1>8, IdleType
     DEF CloseConnection, main, clients, history, KernelTypes,
         ThreadTypes, ClientTypes, HistoryTypes
<1> QED
  BY <1>2, <1>3, <1>5, <1>6, <1>7, <1>8 DEF HandleRequest

\* A client.
LEMMA SendTypes ==
  ASSUME ClientTypes, NEW c \in Conns, NEW piece \in Pieces, Send(c, piece)
  PROVE  sent' \in [Conns -> Nat] /\ rx' \in [Conns -> Seq(Pieces)]
<1>1. Append(rx[c], piece) \in Seq(Pieces)
  BY AppendProperties DEF ClientTypes
<1> QED
  BY <1>1 DEF Send, ClientTypes

LEMMA ConnTypes ==
  ASSUME CInv, NEW c \in Conns, Connect(c) \/ ClientStep(c) \/ Quit(c)
  PROVE  Types'
<1> USE DEF CInv, Types
<1>1. CASE Connect(c)
  <2>1. Append(queue, c) \in Seq(Conns)
    BY AppendProperties DEF KernelTypes
  <2> QED
    BY <1>1, <2>1 DEF Connect, main, history, KernelTypes, ThreadTypes, ClientTypes,
                      HistoryTypes
<1>2. CASE SendHeader(c)
  <2>1. ClientTypes'
    BY <1>2, SendTypes DEF SendHeader, Send, Pieces, ClientTypes
  <2> QED
    BY <1>2, <2>1 DEF SendHeader, Send, main, kernel, history, KernelTypes,
                      ThreadTypes, HistoryTypes
<1>3. CASE SendBody(c)
  <2>1. ClientTypes'
    BY <1>3, SendTypes DEF SendBody, Send, Pieces, ClientTypes
  <2> QED
    BY <1>3, <2>1 DEF SendBody, Send, main, kernel, history, KernelTypes,
                      ThreadTypes, HistoryTypes
<1>4. CASE Leave(c) \/ Quit(c)
  <2>1. UNCHANGED <<main, kernel, thr, kind, sent, rx, got, history>>
    BY <1>4 DEF Leave, Quit
  <2>2. cst' \in [Conns -> {"new", "connected", "closed", "killed"}]
    BY <1>4 DEF Leave, Quit, ClientTypes
  <2>3. reset' \in [Conns -> BOOLEAN]
    <3>1. CASE Leave(c)
      BY <3>1 DEF Leave, ClientTypes
    <3>2. CASE Quit(c)
      <4>1. PICK r \in BOOLEAN : reset' = [reset EXCEPT ![c] = r]
        BY <3>2 DEF Quit
      <4> QED
        BY <4>1 DEF ClientTypes
    <3> QED
      BY <1>4, <3>1, <3>2
  <2> QED
    BY <2>1, <2>2, <2>3
       DEF main, kernel, history, KernelTypes, ThreadTypes, ClientTypes, HistoryTypes
<1> QED
  BY <1>1, <1>2, <1>3, <1>4 DEF ClientStep

(***************************************************************************)
(* What a thread that goes on changes: itself, what is left to be read of  *)
(* the connection it reads, and what its own connection has been given.    *)
(***************************************************************************)

Moves(t) ==
  /\ server = "listening" /\ t \in Live
  /\ thr'[t].pc \notin {"none", "start"}
  /\ Mine(t)' = Mine(t)
  /\ ThreadShape(thr'[t])
  /\ \A u \in Threads \ {t} : thr'[u] = thr[u]
  /\ UNCHANGED <<server, nsd, queue, fds, cst, kind, overrun, failures>>
  /\ \A c \in Conns : rx'[c] # rx[c] => c = thr[t].at /\ rx[c] # <<>>
  /\ \A c \in Conns : got'[c] # got[c] => c = Conn(t) /\ cst[c] = "connected"

GoesOn(t) ==
  TakeDescriptor(t) \/ BeginRead(t) \/ ReadHeader(t) \/ ReadBody(t) \/ Write(t)

LEMMA TakeOne ==
  ASSUME ClientTypes, NEW d, Take(d)
  PROVE  \A c \in Conns : rx'[c] # rx[c] => c = d
BY DEF ClientTypes, Take

LEMMA ThreadMoves ==
  ASSUME CInv, NEW t \in Threads, GoesOn(t) PROVE Moves(t)
<1>1. /\ thr \in [Threads -> ThrRec] /\ thr[t] \in ThrRec
      /\ ClientTypes /\ ThreadShape(thr[t])
  BY DEF CInv, Types, ThreadTypes
<1>2. CASE TakeDescriptor(t)
  BY <1>1, <1>2 DEF TakeDescriptor, Runs, Moves, main, kernel, clients, history, Live,
                    Mine, ThreadShape, ThrRec
<1>3. CASE BeginRead(t)
  BY <1>1, <1>3 DEF BeginRead, Runs, Moves, main, kernel, clients, history, Live,
                    Mine, ThreadShape, ThrRec
<1>4. CASE ReadHeader(t)
  <2> DEFINE r == thr[t]
             h == [r EXCEPT !.head = r.at]
  <2>1. /\ server = "listening" /\ r.pc = "header" /\ t \in Live
        /\ UNCHANGED <<server, nsd, queue, fds, cst, kind, got, overrun, failures>>
    BY <1>4 DEF ReadHeader, Runs, main, kernel, history, Live
  <2>2. PICK q \in {r, h}, a \in Acts : thr' = [thr EXCEPT ![t] = AfterHeader(q, a)]
    <3>1. CASE EndsWith(r, "header") /\ thr' = [thr EXCEPT ![t] = AfterHeader(h, kind[r.at])]
      <4>1. kind[r.at] \in Acts
        BY <1>1, <3>1 DEF CInv, Clients, ClientTypes, Acts, EndsWith, ThrRec
      <4> QED
        BY <3>1, <4>1
    <3>2. CASE \E a \in Kinds \cup {"nothing"} : thr' = [thr EXCEPT ![t] = AfterHeader(r, a)]
      BY <3>2 DEF Acts
    <3> QED
      BY <1>4, <3>1, <3>2 DEF ReadHeader
  <2>3. q \in ThrRec /\ q.fd = r.fd /\ q.body = r.body
    BY <1>1 DEF ThrRec
  <2>4. /\ thr'[t].pc \in {"close", "body", "write"} /\ thr'[t].fd = r.fd
        /\ thr'[t].pc # "close" => thr'[t].left > 0
    BY <1>1, <2>2, <2>3, AfterHeaderType
  <2>5. \A u \in Threads \ {t} : thr'[u] = thr[u]
    BY <1>1, <2>2
  <2>6. \A c \in Conns : rx'[c] # rx[c] => c = r.at /\ rx[c] # <<>>
    <3>1. \/ Take(r.at) /\ rx[r.at] # <<>>
          \/ UNCHANGED rx
      BY <1>4 DEF ReadHeader, EndsWith
    <3> QED
      BY <1>1, <3>1, TakeOne
  <2> QED
    BY <2>1, <2>4, <2>5, <2>6 DEF Moves, Mine, ThreadShape
<1>5. CASE ReadBody(t)
  <2> DEFINE r == thr[t]
  <2>1. /\ server = "listening" /\ r.pc = "body" /\ t \in Live
        /\ UNCHANGED <<server, nsd, queue, fds, cst, kind, got, overrun, failures>>
    BY <1>5 DEF ReadBody, Runs, main, kernel, history, Live
  <2>2. thr'[t].pc = "write" /\ thr'[t].fd = r.fd /\ thr'[t].left = r.left
    BY <1>1, <1>5 DEF ReadBody, ThrRec
  <2>3. \A u \in Threads \ {t} : thr'[u] = thr[u]
    BY <1>1, <1>5 DEF ReadBody
  <2>4. \A c \in Conns : rx'[c] # rx[c] => c = r.at /\ rx[c] # <<>>
    <3>1. \/ Take(r.at) /\ rx[r.at] # <<>>
          \/ UNCHANGED rx
      BY <1>5 DEF ReadBody, EndsWith
    <3> QED
      BY <1>1, <3>1, TakeOne
  <2> QED
    BY <1>1, <2>1, <2>2, <2>3, <2>4 DEF Moves, Mine, ThreadShape
<1>6. CASE Write(t)
  <2> DEFINE r == thr[t]
             d == Destination(r)
  <2>1. /\ server = "listening" /\ r.pc = "write" /\ t \in Live
        /\ UNCHANGED <<server, nsd, queue, fds, cst, kind, rx, overrun, failures>>
    BY <1>6 DEF Write, Runs, main, kernel, Live
  <2>2. thr' = [thr EXCEPT ![t] = Wrote(r)]
    BY <1>6 DEF Write
  <2>3. /\ thr'[t].pc \in {"close", "write"} /\ thr'[t].fd = r.fd
        /\ thr'[t].pc = "write" => thr'[t].left > 0
    BY <1>1, <2>1, <2>2, WroteType DEF ThreadShape
  <2>4. thr'[t].at = r.at /\ thr'[t].head = r.head /\ thr'[t].body = r.body
    BY <1>1, <2>1, <2>2, WroteType DEF ThreadShape
  <2>5. \A c \in Conns : got'[c] # got[c] => c = d /\ cst[c] = "connected"
    BY <1>1, <1>6 DEF Write, ClientTypes
  <2>6. d = Conn(t)
    BY <2>1 DEF Destination, Conn, Mine
  <2> QED
    BY <1>1, <2>1, <2>2, <2>3, <2>5, <2>6 DEF Moves, Mine, ThreadShape
<1> QED
  BY <1>2, <1>3, <1>4, <1>5, <1>6 DEF GoesOn

(***************************************************************************)
(* Connections are in one place, whatever main overwrites.                 *)
(***************************************************************************)

Shape ==
  /\ OnePlace /\ Quiescent /\ Clients
  /\ Len(queue) <= Backlog + 1
  /\ \A t \in Threads : ThreadShape(thr[t])

LEMMA InitShape == Init => Shape
<1> SUFFICES ASSUME Init PROVE Shape
  OBVIOUS
<1>1. OnePlace
  BY NobodyAssumption DEF Init, OnePlace, Queued, Accepted
<1>2. Quiescent
  BY DEF Init, Quiescent, Idle, Live, FreeFds
<1>3. Clients
  BY DEF Init, Clients
<1>4. \A t \in Threads : ThreadShape(thr[t])
  BY DEF Init, ThreadShape, Idle
<1> QED
  BY <1>1, <1>2, <1>3, <1>4, BoundsAssumption DEF Init, Shape

LEMMA MovesShape ==
  ASSUME CInv, NEW t \in Threads, Moves(t) PROVE Shape'
<1>1. OnePlace'
  BY DEF CInv, Moves, OnePlace, Queued, Accepted
<1>2. Quiescent'
  BY DEF Moves, Quiescent
<1>3. Clients'
  BY DEF CInv, Moves, Clients
<1>4. \A u \in Threads : ThreadShape(thr[u])'
  BY DEF CInv, Moves, ThreadShape
<1> QED
  BY <1>1, <1>2, <1>3, <1>4 DEF CInv, Moves, Shape

\* What a call of accept that succeeds does to the queue and the descriptors.
LEMMA Dequeued ==
  ASSUME CInv, Accept
  PROVE  /\ Lowest(FreeFds) \in FreeFds
         /\ Head(queue) \in Conns /\ queue[1] = Head(queue) /\ 1 \in DOMAIN queue
         /\ Len(queue') = Len(queue) - 1
         /\ \A k \in DOMAIN queue' : k + 1 \in DOMAIN queue /\ queue'[k] = queue[k + 1]
         /\ \A f \in Fds : fds'[f] = IF f = Lowest(FreeFds) THEN Head(queue) ELSE fds[f]
<1>1. queue # <<>> /\ queue \in Seq(Conns) /\ queue' = Tail(queue)
  BY DEF Accept, CInv, Types, KernelTypes
<1>2. Lowest(FreeFds) \in FreeFds
  BY NextFree DEF Accept
<1>3. \A f \in Fds : fds'[f] = IF f = Lowest(FreeFds) THEN Head(queue) ELSE fds[f]
  BY <1>2 DEF Accept, CInv, Types, KernelTypes, FreeFds
<1> QED
  BY <1>1, <1>2, <1>3, HeadTailProperties

LEMMA RoundShape ==
  ASSUME CInv, Accept \/ AcceptFails PROVE Shape'
<1> DEFINE t == Lowest(Threads \ Live)
<1>1. /\ server = "listening" /\ server' = server
      /\ UNCHANGED <<cst, kind, rx, got>>
      /\ t \in Threads \ Live /\ thr' = [thr EXCEPT ![t].pc = "start"]
  BY NextFree DEF Accept, AcceptFails, NextRound, clients
<1>2. \A u \in Threads : ThreadShape(thr[u])'
  BY <1>1 DEF CInv, Types, ThreadTypes, ThrRec, ThreadShape, Live
<1>3. Quiescent' /\ Clients'
  BY <1>1 DEF CInv, Quiescent, Clients
<1>4. CASE AcceptFails
  BY <1>2, <1>3, <1>4, <1>1
     DEF AcceptFails, kernel, CInv, Shape, OnePlace, Queued, Accepted
<1>5. CASE Accept
  <2> DEFINE f0 == Lowest(FreeFds)
             c0 == Head(queue)
  <2>1. OnePlace /\ queue \in Seq(Conns) /\ Len(queue) <= Backlog + 1
    BY DEF CInv, Types, KernelTypes
  <2>2. f0 \in Fds /\ fds[f0] = Nobody /\ Queued(c0)
    BY <1>5, Dequeued DEF FreeFds, Queued
  <2>3. ~Accepted(c0) /\ cst[c0] # "new" /\ c0 \in Conns
    BY <1>5, <2>1, <2>2, Dequeued DEF OnePlace
  <2>4. \A c \in Conns : Queued(c)' => Queued(c) /\ c # c0
    <3> SUFFICES ASSUME NEW c \in Conns, NEW k \in DOMAIN queue', queue'[k] = c
                 PROVE  Queued(c) /\ c # c0
      BY DEF Queued
    <3>1. /\ k + 1 \in DOMAIN queue /\ queue[k + 1] = c
          /\ 1 \in DOMAIN queue /\ queue[1] = c0
      BY <1>5, Dequeued
    <3>2. DOMAIN queue' = 1 .. Len(queue')
      BY <1>5, <2>1, HeadTailProperties DEF Accept
    <3>3. k + 1 # 1
      BY <3>2
    <3> QED
      BY <2>1, <3>1, <3>3 DEF Queued, OnePlace
  <2>5. \A c \in Conns : Accepted(c)' => Accepted(c) \/ c = c0
    BY <1>5, Dequeued DEF Accepted
  <2>6. \A f, g \in Fds : f # g => fds'[f] = Nobody \/ fds'[f] # fds'[g]
    BY <1>5, <2>1, <2>3, Dequeued DEF OnePlace, Accepted
  <2>7. \A j, k \in DOMAIN queue' : j # k => queue'[j] # queue'[k]
    BY <1>5, <2>1, Dequeued DEF OnePlace
  <2>8. OnePlace'
    BY <1>1, <2>1, <2>3, <2>4, <2>5, <2>6, <2>7 DEF OnePlace
  <2>9. (Len(queue) <= Backlog + 1)'
    BY <1>5, <2>1, Dequeued, BoundsAssumption
  <2> QED
    BY <1>2, <1>3, <2>8, <2>9 DEF Shape
<1> QED
  BY <1>4, <1>5

LEMMA DownShape ==
  ASSUME CInv, GoDown, UNCHANGED clients PROVE Shape'
<1>1. queue' = <<>> /\ nsd' = BadFd /\ thr' = [t \in Threads |-> Idle]
      /\ fds' = [f \in Fds |-> Nobody]
  BY DEF GoDown
<1>2. OnePlace'
  BY <1>1, NobodyAssumption DEF OnePlace, Queued, Accepted
<1>3. Quiescent'
  BY <1>1 DEF Quiescent, FreeFds, Live, Idle
<1>4. Clients'
  BY DEF CInv, clients, Clients
<1>5. \A t \in Threads : ThreadShape(thr[t])'
  BY <1>1 DEF ThreadShape, Idle
<1> QED
  BY <1>1, <1>2, <1>3, <1>4, <1>5, BoundsAssumption DEF Shape

LEMMA StartShape ==
  ASSUME CInv, Start PROVE Shape'
BY DEF CInv, Start, Shape, kernel, clients, OnePlace, Queued, Accepted, Quiescent,
       FreeFds, Live, Clients

LEMMA CloseShape ==
  ASSUME CInv, NEW t \in Threads, CloseConnection(t) PROVE Shape'
<1>1. /\ server = "listening" /\ UNCHANGED <<server, queue, cst, kind, rx, got>>
      /\ \A f \in Fds : fds'[f] \in {fds[f], Nobody}
  BY DEF CloseConnection, Runs, main, clients
<1>2. \A u \in Threads : ThreadShape(thr[u])'
  BY DEF CInv, Types, ThreadTypes, CloseConnection, ThreadShape, Idle
<1>3. OnePlace'
  BY <1>1, NobodyAssumption DEF CInv, OnePlace, Queued, Accepted
<1> QED
  BY <1>1, <1>2, <1>3 DEF CInv, Shape, Quiescent, Clients

LEMMA Enqueued ==
  ASSUME CInv, NEW c \in Conns, Connect(c)
  PROVE  /\ Len(queue') = Len(queue) + 1
         /\ \A k \in DOMAIN queue' : \/ k \in DOMAIN queue /\ queue'[k] = queue[k]
                                     \/ k = Len(queue) + 1 /\ queue'[k] = c
<1>1. queue \in Seq(Conns) /\ queue' = Append(queue, c)
  BY DEF CInv, Types, KernelTypes, Connect
<1> QED
  BY <1>1, AppendProperties

LEMMA ConnectShape ==
  ASSUME CInv, NEW c \in Conns, Connect(c) PROVE Shape'
<1>1. /\ server = "listening" /\ cst[c] = "new" /\ Len(queue) <= Backlog
      /\ UNCHANGED <<server, fds, thr, kind, rx, got>>
      /\ cst \in [Conns -> {"new", "connected", "closed", "killed"}]
      /\ cst' = [cst EXCEPT ![c] = "connected"]
      /\ queue \in Seq(Conns) /\ OnePlace
  BY DEF Connect, main, CInv, Types, ClientTypes, KernelTypes
<1>2. \A d \in Conns : Queued(d)' => Queued(d) \/ d = c
  BY Enqueued DEF Queued
<1>3. OnePlace'
  <2>1. \A j, k \in DOMAIN queue' : j # k => queue'[j] # queue'[k]
    BY <1>1, Enqueued DEF OnePlace, Queued
  <2> QED
    BY <1>1, <1>2, <2>1 DEF OnePlace, Accepted
<1>4. Clients'
  BY <1>1 DEF CInv, Clients
<1>5. (Len(queue) <= Backlog + 1)'
  BY <1>1, Enqueued, BoundsAssumption
<1> QED
  BY <1>1, <1>3, <1>4, <1>5 DEF CInv, Shape, Quiescent, ThreadShape

LEMMA ClientShape ==
  ASSUME CInv, NEW c \in Conns, ClientStep(c) \/ Quit(c) PROVE Shape'
<1>1. UNCHANGED <<server, nsd, queue, fds, thr>>
  BY DEF ClientStep, SendHeader, SendBody, Send, Leave, Quit, main, kernel
<1>2. ClientTypes /\ Clients
  BY DEF CInv, Types
<1>3. \A d \in Conns : cst'[d] = "new" => cst[d] = "new" /\ d # c
  BY <1>2 DEF ClientStep, SendHeader, SendBody, Send, Leave, Quit, ClientTypes
<1>4. \A d \in Conns : kind'[d] = "none" => kind[d] = "none" /\ rx'[d] = rx[d]
  BY <1>2 DEF ClientStep, SendHeader, SendBody, Send, Leave, Quit, ClientTypes, HasBody,
              Kinds
<1>5. \A d \in Conns : got'[d] = got[d] /\ (d # c => kind'[d] = kind[d])
  BY <1>2 DEF ClientStep, SendHeader, SendBody, Send, Leave, Quit, ClientTypes
<1>6. Clients'
  BY <1>2, <1>3, <1>4, <1>5 DEF Clients
<1>7. OnePlace'
  BY <1>1, <1>3 DEF CInv, OnePlace, Queued, Accepted
<1> QED
  BY <1>1, <1>6, <1>7
     DEF CInv, Shape, Quiescent, FreeFds, Live, ThreadShape

(***************************************************************************)
(* Until nsd is overwritten, every connection has a thread of its own.     *)
(***************************************************************************)

\* Who has left has left.
LEMMA EarlyStays ==
  ASSUME Early, \A c \in Conns : Gone(c) => cst'[c] = cst[c] /\ kind'[c] = kind[c]
  PROVE  Early'
BY DEF Early, Gone

\* A connection that is waited for, or worked on, has not been given up.
LEMMA StillOpen ==
  ASSUME CInv, NEW c \in Conns, Queued(c) \/ Accepted(c)
  PROVE  ~ServerClosed(c)
<1>1. server # "down"
  BY NobodyAssumption DEF CInv, Quiescent, FreeFds, Queued, Accepted
<1> QED
  BY <1>1 DEF ServerClosed, Queued, Accepted

\* The connection of a thread is accepted, and nobody else's.
LEMMA OwnConn ==
  ASSUME CInv, NoMixUp, NEW t \in Live
  PROVE  /\ Mine(t) \in Fds \cup {BadFd} /\ Conn(t) \in Conns \cup {Nobody}
         /\ Conn(t) = Nobody <=> Mine(t) = BadFd
         /\ Conn(t) # Nobody => Accepted(Conn(t))
         /\ \A u \in Live \ {t} : Conn(u) = Nobody \/ Conn(u) # Conn(t)
         /\ \A k \in DOMAIN queue : queue[k] # Conn(t)
<1>1. KernelTypes /\ OnePlace /\ OneToOne /\ BadFd \notin Fds
  BY BoundsAssumption DEF CInv, Types, NoMixUp, BadFd, Fds
<1>2. \A u \in Live : Mine(u) \in Fds \cup {BadFd}
  BY DEF CInv, Types, ThreadTypes, KernelTypes, ThrRec, Live, Mine
<1>3. Conn(t) = Nobody <=> Mine(t) = BadFd
  BY <1>1, <1>2 DEF OneToOne, Conn, FileAt
<1>4. Conn(t) # Nobody => Accepted(Conn(t)) /\ Conn(t) \in Conns
  BY <1>1, <1>2 DEF Conn, FileAt, Accepted, KernelTypes
<1>5. \A u \in Live \ {t} : Conn(u) = Nobody \/ Conn(u) # Conn(t)
  BY <1>1, <1>2 DEF OneToOne, OnePlace, Conn, FileAt
<1>6. \A k \in DOMAIN queue : queue[k] \in Conns /\ queue[k] # Conn(t)
  BY <1>1, <1>4, NobodyAssumption DEF OnePlace, Queued, KernelTypes
<1> QED
  BY <1>2, <1>3, <1>4, <1>5, <1>6

\* A thread that goes on does not disturb the others.
LEMMA MovesOthers ==
  ASSUME CInv, NoMixUp, NEW t \in Threads, Moves(t)
  PROVE  /\ OneToOne'
         /\ Early' <=> Early
         /\ Live' = Live /\ Conn(t)' = Conn(t)
         /\ \A k \in DOMAIN queue' : Untouched(queue[k])'
         /\ \A u \in Live \ {t} : Serves(u)'
<1>1. t \in Live /\ Live' = Live
  BY DEF Moves, Live
<1>2. \A u \in Live : Mine(u)' = Mine(u) /\ Conn(u)' = Conn(u)
  BY <1>1 DEF Moves, Live, Mine, Conn, FileAt
<1>3. OneToOne'
  BY <1>1, <1>2 DEF NoMixUp, OneToOne, Moves, Live
<1>4. Early' <=> Early
  BY DEF Early, Moves
<1>5. ASSUME NEW c \in Conns, c # Conn(t)
      PROVE  rx'[c] = rx[c] /\ got'[c] = got[c] /\ (Untouched(c) => Untouched(c)')
  <2>1. thr[t].at \in {Nobody, Conn(t)}
    BY <1>1 DEF NoMixUp, Serves
  <2>2. rx'[c] = rx[c] /\ got'[c] = got[c]
    BY <1>5, <2>1, NobodyAssumption DEF Moves
  <2> QED
    BY <1>4, <2>2 DEF Untouched, Moves
<1>6. ASSUME NEW k \in DOMAIN queue' PROVE Untouched(queue[k])'
  <2>1. k \in DOMAIN queue /\ queue[k] \in Conns /\ queue' = queue
    BY DEF Moves, CInv, Types, KernelTypes
  <2>2. Untouched(queue[k]) /\ queue[k] # Conn(t)
    BY <1>1, <2>1, OwnConn DEF NoMixUp
  <2> QED
    BY <1>5, <2>1, <2>2
<1>7. ASSUME NEW u \in Live \ {t} PROVE Serves(u)'
  <2>1. Serves(u) /\ Conn(u)' = Conn(u) /\ thr'[u] = thr[u]
    BY <1>2 DEF NoMixUp, Moves, Live
  <2>2. Conn(u) # Nobody =>
          /\ Conn(u) \in Conns /\ rx'[Conn(u)] = rx[Conn(u)] /\ got'[Conn(u)] = got[Conn(u)]
          /\ Untouched(Conn(u)) => Untouched(Conn(u))'
    <3> SUFFICES ASSUME NEW d, d = Conn(u), d = Conn(u)', d # Nobody
                 PROVE  /\ d \in Conns /\ rx'[d] = rx[d] /\ got'[d] = got[d]
                        /\ Untouched(d) => Untouched(d)'
      BY <2>1 DEF Untouched
    <3>1. d \in Conns /\ d # Conn(t)
      BY <1>1, OwnConn
    <3> QED
      BY <1>5, <3>1
  <2>3. UNCHANGED <<cst, kind>>
    BY DEF Moves
  <2> HIDE DEF Early, Conn
  <2>4. CASE Conn(u) = Nobody
    BY <2>1, <2>4 DEF Serves
  <2>5. CASE Conn(u) # Nobody
    BY <1>4, <2>1, <2>2, <2>3, <2>5 DEF Serves, Untouched
  <2> QED
    BY <2>4, <2>5
<1> QED
  BY <1>1, <1>2, <1>3, <1>4, <1>6, <1>7

\* A thread that goes on keeps serving the connection it has, or had nobody to
\* serve: its descriptor is that of a failed accept, or its client is gone.
LEMMA ReadHeaderServes ==
  ASSUME CInv, NoMixUp, NEW t \in Threads, ReadHeader(t), Moves(t) PROVE Serves(t)'
<1> DEFINE r == thr[t]
           c == Conn(t)
<1>1. /\ thr \in [Threads -> ThrRec] /\ r \in ThrRec /\ r.pc = "header" /\ t \in Live
      /\ r.head = Nobody /\ r.body = Nobody /\ r.at \in {Nobody, c}
      /\ UNCHANGED <<fds, nsd, cst, kind, got>>
  BY DEF CInv, Types, ThreadTypes, ReadHeader, Runs, Moves, ThreadShape, NoMixUp, Serves,
         main, kernel
<1>2. Conn(t)' = c /\ (Early' <=> Early)
  BY <1>1, MovesOthers
<1>3. c \in Conns \cup {Nobody} /\ c = FileAt(r.fd)
  BY <1>1, OwnConn DEF Conn, Mine
<1>4. c # Nobody => Untouched(c)
  BY <1>1 DEF NoMixUp, Serves
<1>5. ClientTypes /\ Clients
  BY DEF CInv, Types
<1>6. CASE EndsWith(r, "header")
             /\ thr' = [thr EXCEPT ![t] = AfterHeader([r EXCEPT !.head = r.at], kind[r.at])]
  <2>1. r.at = c /\ c # Nobody /\ c \in Conns /\ rx[c] # <<>>
    BY <1>1, <1>3, <1>6 DEF EndsWith
  <2>2. kind[c] # "none" /\ kind[c] \in Kinds /\ kind[c] \in Acts /\ kind[c] # "nothing"
    BY <1>5, <2>1 DEF Clients, ClientTypes, Acts, Kinds
  <2> DEFINE q == [r EXCEPT !.head = c]
  <2>3. q \in ThrRec /\ q.head = c /\ q.body = Nobody
    BY <1>1, <2>1 DEF ThrRec
  <2>4. thr'[t] = AfterHeader(q, kind[c])
    BY <1>1, <1>6, <2>1
  <2>5. /\ thr'[t].pc \in {"body", "write"} /\ thr'[t].at = Nobody
        /\ thr'[t].head = c /\ thr'[t].body = Nobody
        /\ thr'[t].left = Answers(kind[c])
    <3> DEFINE a == kind[c]
    <3> HIDE DEF a, q, c, r, CInv, NoMixUp
    <3>1. a \in Acts /\ a # "nothing" /\ thr'[t] = AfterHeader(q, a)
      BY <2>2, <2>4 DEF a
    <3>2. /\ AfterHeader(q, a).pc \in {"close", "body", "write"}
          /\ AfterHeader(q, a).pc # "close"
          /\ AfterHeader(q, a).at = Nobody
          /\ AfterHeader(q, a).head = c /\ AfterHeader(q, a).body = Nobody
          /\ AfterHeader(q, a).left = Answers(a)
      BY <2>3, <3>1, AfterHeaderType
    <3> QED
      BY <3>1, <3>2 DEF a
  <2>6. got[c] = 0 /\ (cst[c] = "connected" \/ Early)
    BY <1>4, <2>1 DEF Untouched
  <2>7. got[c] + thr'[t].left = Answers(kind[c])
    <3>1. Answers(kind[c]) \in Nat
      BY DEF Answers
    <3> QED
      BY <2>5, <2>6, <3>1
  <2> HIDE DEF c, r
  <2> QED
    BY <1>1, <1>2, <2>2, <2>5, <2>6, <2>7 DEF Serves
<1>7. CASE /\ EndsWith(r, "body") \/ EndsEmpty(r)
           /\ \E a \in Acts : thr' = [thr EXCEPT ![t] = AfterHeader(r, a)]
  <2>1. /\ thr'[t].pc \in {"body", "write", "close"} /\ thr'[t].at = Nobody
        /\ thr'[t].head = Nobody /\ thr'[t].body = Nobody
    BY <1>1, <1>7, AfterHeaderType
  <2>2. c # Nobody => Early
    <3> SUFFICES ASSUME c # Nobody PROVE Early
      OBVIOUS
    <3>1. Untouched(c) /\ c \in Conns
      BY <1>3, <1>4
    <3>2. ~EndsWith(r, "body")
      BY <1>1, <1>5, <3>1 DEF EndsWith, Untouched, Clients
    <3>3. r.at = c /\ rx[c] = <<>> /\ Gone(c)
      BY <1>1, <1>3, <1>7, <3>2 DEF EndsEmpty
    <3>4. kind[c] = "none"
      BY <3>1, <3>3 DEF Untouched
    <3> QED
      BY <3>1, <3>3, <3>4 DEF Gone, Early
  <2> HIDE DEF c, r
  <2> QED
    BY <1>2, <2>1, <2>2 DEF Serves
<1> QED
  BY <1>6, <1>7 DEF ReadHeader, Acts

LEMMA GoesOnServes ==
  ASSUME CInv, NoMixUp, NEW t \in Threads, GoesOn(t), Moves(t) PROVE Serves(t)'
<1> DEFINE r == thr[t]
           c == Conn(t)
<1>1. /\ thr \in [Threads -> ThrRec] /\ r \in ThrRec /\ t \in Live
      /\ ThreadShape(r) /\ Serves(t)
      /\ UNCHANGED <<fds, nsd, cst, kind>>
  BY DEF CInv, Types, ThreadTypes, Moves, NoMixUp
<1>2. Conn(t)' = c /\ (Early' <=> Early)
  BY MovesOthers
<1>3. c \in Conns \cup {Nobody}
  BY <1>1, OwnConn
<1>4. CASE TakeDescriptor(t)
  <2>1. /\ r.pc = "start" /\ thr'[t].pc = "header" /\ thr'[t].at = r.at
        /\ thr'[t].head = r.head /\ thr'[t].body = r.body
        /\ UNCHANGED <<rx, got>>
    BY <1>1, <1>4 DEF TakeDescriptor, Runs, ThrRec, clients
  <2> HIDE DEF c, r
  <2> QED
    BY <1>1, <1>2, <2>1 DEF c, r, Serves, Untouched
<1>5. CASE BeginRead(t)
  <2>1. /\ r.pc \in {"header", "body"} /\ thr'[t].pc = r.pc /\ thr'[t].at = c
        /\ thr'[t].head = r.head /\ thr'[t].body = r.body /\ thr'[t].left = r.left
        /\ UNCHANGED <<rx, got>>
    BY <1>1, <1>5 DEF BeginRead, Runs, ThrRec, clients, Conn, Mine
  <2> HIDE DEF c, r
  <2> QED
    BY <1>1, <1>2, <2>1 DEF c, r, Serves, Untouched
<1>6. CASE ReadBody(t)
  <2>1. /\ r.pc = "body" /\ thr'[t].pc = "write" /\ thr'[t].at = Nobody
        /\ thr'[t].head = r.head /\ thr'[t].body \in {r.body, r.at} /\ thr'[t].left = r.left
        /\ UNCHANGED got
    BY <1>1, <1>6 DEF ReadBody, Runs, ThrRec
  <2> HIDE DEF c, r
  <2> QED
    BY <1>1, <1>2, <2>1 DEF c, r, Serves
<1>7. CASE Write(t)
  <2>1. r.pc = "write" /\ thr' = [thr EXCEPT ![t] = Wrote(r)] /\ r.left > 0
    BY <1>1, <1>7 DEF Write, Runs, ThreadShape
  <2>2. /\ thr'[t].pc \in {"close", "write"} /\ thr'[t].at = r.at
        /\ thr'[t].head = r.head /\ thr'[t].body = r.body
        /\ thr'[t].left = r.left - 1 /\ r.left \in Nat
    BY <1>1, <2>1, WroteType DEF ThrRec
  <2>3. c \in Conns => got[c] \in Nat /\ Answers(kind[c]) \in Nat
    BY DEF CInv, Types, ClientTypes, Answers
  <2>4. c \in Conns /\ cst[c] = "connected" => got'[c] = got[c] + 1
    <3>1. Destination(r) = c
      BY <2>1 DEF Destination, Conn, Mine
    <3>2. got \in [Conns -> Nat]
      BY DEF CInv, Types, ClientTypes
    <3> HIDE DEF c
    <3> QED
      BY <1>7, <3>1, <3>2, NobodyAssumption DEF Write
  <2>5. ASSUME c # Nobody, ~Early
        PROVE  /\ r.head = c /\ cst[c] = "connected" /\ kind[c] # "none"
               /\ got'[c] + thr'[t].left = Answers(kind[c])
    <3>1. /\ r.head = c /\ cst[c] = "connected" /\ kind[c] # "none"
          /\ got[c] + r.left = Answers(kind[c])
      BY <1>1, <2>1, <2>5 DEF Serves
    <3> QED
      BY <1>3, <2>2, <2>3, <2>4, <2>5, <3>1
  <2> HIDE DEF c
  <2> QED
    BY <1>1, <1>2, <2>2, <2>5 DEF c, Serves
<1> QED
  BY <1>4, <1>5, <1>6, <1>7, ReadHeaderServes DEF GoesOn

\* It writes nothing that is not for the client of that connection.
LEMMA WriteIsForOwn ==
  ASSUME CInv, NoMixUp, NEW t \in Threads, Write(t)
  PROVE  crossed' = FALSE /\ (unasked' => failures > 0 \/ Early)
<1>1. t \in Live /\ Serves(t) /\ thr[t].pc = "write" /\ ~crossed
  BY DEF NoMixUp, Write, Runs, Live
<1>2. Destination(thr[t]) = Conn(t)
  BY <1>1 DEF Destination, Conn, Mine
<1>3. thr[t].head \in {Nobody, Conn(t)} /\ thr[t].body \in {Nobody, Conn(t)}
  BY <1>1 DEF Serves
<1>4. crossed' = FALSE
  BY <1>1, <1>2, <1>3 DEF Write, CInv, Types, HistoryTypes
<1>5. thr[t].head = Nobody => failures > 0 \/ Early
  <2>1. CASE Conn(t) = Nobody
    BY <1>1, <2>1, OwnConn DEF NoMixUp, OneToOne
  <2>2. CASE Conn(t) # Nobody
    BY <1>1, <2>2 DEF Serves
  <2> QED
    BY <2>1, <2>2
<1>6. unasked' => unasked \/ thr[t].head = Nobody
  BY DEF Write
<1> QED
  BY <1>4, <1>5, <1>6 DEF NoMixUp

LEMMA GoesOnNoMixUp ==
  ASSUME CInv, NoMixUp, NEW t \in Threads, GoesOn(t) PROVE NoMixUp'
<1>1. Moves(t)
  BY ThreadMoves
<1>2. /\ OneToOne' /\ (Early' <=> Early) /\ Live' = Live
      /\ \A k \in DOMAIN queue' : Untouched(queue[k])'
      /\ \A u \in Live : Serves(u)'
  BY <1>1, MovesOthers, GoesOnServes
<1>3. UNCHANGED failures
  BY <1>1 DEF Moves
<1>4. ~crossed' /\ (unasked' => failures > 0 \/ Early)
  <2>1. CASE Write(t)
    BY <2>1, WriteIsForOwn
  <2>2. CASE ~Write(t)
    <3>1. UNCHANGED <<crossed, unasked>>
      BY <2>2 DEF GoesOn, TakeDescriptor, BeginRead, ReadHeader, ReadBody, history
    <3> QED
      BY <3>1 DEF NoMixUp
  <2> QED
    BY <2>1, <2>2
<1> QED
  BY <1>2, <1>3, <1>4 DEF NoMixUp

\* Who has what it had, and is where it was, is served as it was.
LEMMA SameServes ==
  ASSUME NEW u, thr'[u] = thr[u], Conn(u)' = Conn(u), Serves(u),
         UNCHANGED <<cst, kind, rx, got>>
  PROVE  Serves(u)'
<1> SUFFICES ASSUME NEW d, d = Conn(u), d = Conn(u)' PROVE Serves(u)'
  OBVIOUS
<1>1. Untouched(d) => Untouched(d)'
  BY DEF Untouched, Early
<1>2. Early' <=> Early
  BY DEF Early
<1> QED
  BY <1>1, <1>2 DEF Serves, Untouched

\* A thread that ends leaves no descriptor behind and takes nobody's.
LEMMA CloseNoMixUp ==
  ASSUME CInv, NoMixUp, NEW t \in Threads, CloseConnection(t) PROVE NoMixUp'
<1>1. /\ t \in Live /\ Mine(t) = thr[t].fd
      /\ UNCHANGED <<server, nsd, queue, cst, kind, rx, got, reset,
                     crossed, unasked, overrun, failures>>
  BY DEF CloseConnection, Runs, main, clients, history, Live, Mine
<1>2. \A f \in Fds : fds'[f] = IF f = Mine(t) THEN Nobody ELSE fds[f]
  BY <1>1 DEF CloseConnection
<1>3. Live' = Live \ {t} /\ \A u \in Live \ {t} : thr'[u] = thr[u]
  BY <1>1 DEF CInv, Types, ThreadTypes, CloseConnection, Live, Idle
<1>4. \A u \in Live \ {t} : Mine(u)' = Mine(u) /\ (Mine(u) # Mine(t) \/ Mine(u) = BadFd)
  BY <1>1, <1>3 DEF NoMixUp, OneToOne, Mine
<1>5. ASSUME NEW u \in Live \ {t} PROVE Conn(u)' = Conn(u)
  <2>1. Mine(u) \in Fds => fds'[Mine(u)] = fds[Mine(u)]
    BY <1>2, <1>4, BoundsAssumption DEF Fds, BadFd
  <2> QED
    BY <1>4, <2>1 DEF Conn, FileAt
<1>6. OneToOne'
  <2>1. \A u, v \in Live' : u # v => Mine(u)' # Mine(v)' \/ Mine(u)' = BadFd
    BY <1>3, <1>4 DEF NoMixUp, OneToOne
  <2>2. \A u, v \in Live' : thr'[u].pc = "start" /\ thr'[v].pc = "start" => u = v
    BY <1>3 DEF NoMixUp, OneToOne
  <2>3. ASSUME NEW u \in Live', Mine(u)' \in Fds PROVE fds'[Mine(u)'] # Nobody
    <3>1. u \in Live \ {t} /\ Mine(u)' = Mine(u) /\ Mine(u) # BadFd
      BY <1>3, <1>4, <2>3, BoundsAssumption DEF Fds, BadFd
    <3> QED
      BY <1>2, <1>4, <2>3, <3>1 DEF NoMixUp, OneToOne
  <2>4. ASSUME NEW f \in Fds, fds'[f] # Nobody PROVE \E u \in Live' : Mine(u)' = f
    <3>1. fds[f] # Nobody /\ f # Mine(t)
      BY <1>2, <2>4
    <3>2. PICK u \in Live : Mine(u) = f
      BY <3>1 DEF NoMixUp, OneToOne
    <3> QED
      BY <1>3, <1>4, <3>1, <3>2
  <2>5. \A u \in Live' : Mine(u)' = BadFd => failures' > 0
    BY <1>1, <1>3, <1>4 DEF NoMixUp, OneToOne
  <2> QED
    BY <2>1, <2>2, <2>3, <2>4, <2>5 DEF OneToOne
<1>7. \A u \in Live' : Serves(u)'
  BY <1>1, <1>3, <1>5, SameServes DEF NoMixUp
<1>8. \A k \in DOMAIN queue' : Untouched(queue[k])'
  BY <1>1 DEF NoMixUp, Untouched, Early
<1>9. ~crossed' /\ (unasked' => failures' > 0 \/ Early')
  BY <1>1 DEF NoMixUp, Early
<1> QED
  BY <1>6, <1>7, <1>8, <1>9 DEF NoMixUp

\* A new thread will find in nsd what the call of accept returned, for as long as
\* no other thread still has to look.
LEMMA RoundNoMixUp ==
  ASSUME CInv, NoMixUp, Accept \/ AcceptFails, ~overrun' PROVE NoMixUp'
<1> PICK n \in Threads \ Live : thr' = [thr EXCEPT ![n].pc = "start"]
  BY NextFree DEF Accept, AcceptFails, NextRound
<1>1. /\ \A t \in Threads : thr[t].pc # "start"
      /\ UNCHANGED <<cst, kind, rx, got, crossed, unasked>>
  BY DEF Accept, AcceptFails, NextRound, clients
<1>2. thr \in [Threads -> ThrRec] /\ KernelTypes
  BY DEF CInv, Types, ThreadTypes
<1>3. /\ Live' = Live \cup {n} /\ thr'[n].pc = "start"
      /\ \A u \in Live : thr'[u] = thr[u] /\ thr[u].pc # "start" /\ u # n
  <2>1. thr'[n] = [thr[n] EXCEPT !.pc = "start"] /\ thr[n] \in ThrRec
    BY <1>1, <1>2
  <2>2. thr'[n].pc = "start"
    BY <2>1 DEF ThrRec
  <2>3. \A u \in Threads : u # n => thr'[u] = thr[u]
    BY <1>1, <1>2
  <2> QED
    BY <1>1, <2>2, <2>3 DEF Live
<1>4. /\ thr[n].at = Nobody /\ thr[n].head = Nobody /\ thr[n].body = Nobody
      /\ thr'[n].at = Nobody /\ thr'[n].head = Nobody /\ thr'[n].body = Nobody
  <2>1. thr[n].pc = "none" /\ ThreadShape(thr[n])
    BY <1>1 DEF CInv, Live
  <2> QED
    BY <1>1, <1>2, <2>1 DEF ThreadShape, ThrRec
<1>5. \A u \in Live : Mine(u)' = Mine(u)
  BY <1>3 DEF Mine
<1>6. Mine(n)' = nsd'
  BY <1>3 DEF Mine
<1>7. failures' >= failures /\ failures' \in Nat /\ failures \in Nat
  BY DEF Accept, AcceptFails, CInv, Types, HistoryTypes
<1>8. /\ nsd' = BadFd => failures' > 0
      /\ nsd' \in Fds \cup {BadFd}
      /\ nsd' \in Fds => fds[nsd'] = Nobody /\ fds'[nsd'] # Nobody /\ fds'[nsd'] \in Conns
                         /\ Untouched(fds'[nsd'])
      /\ \A f \in Fds : f # nsd' => fds'[f] = fds[f]
      /\ \A k \in DOMAIN queue' : Untouched(queue'[k])
  <2>1. CASE AcceptFails
    BY <2>1, <1>7, BoundsAssumption
       DEF AcceptFails, NextRound, kernel, NoMixUp, BadFd, Fds
  <2>2. CASE Accept
    <3>1. nsd' = Lowest(FreeFds) /\ nsd' \in Fds /\ fds[nsd'] = Nobody
      BY <2>2, Dequeued DEF Accept, NextRound, FreeFds
    <3>2. fds'[nsd'] = Head(queue) /\ \A f \in Fds : f # nsd' => fds'[f] = fds[f]
      BY <2>2, <3>1, Dequeued
    <3>3. Head(queue) \in Conns /\ Untouched(Head(queue))
      BY <2>2, Dequeued DEF NoMixUp
    <3>4. \A k \in DOMAIN queue' : Untouched(queue'[k])
      BY <2>2, Dequeued DEF NoMixUp
    <3>5. nsd' # BadFd
      BY <3>1, BoundsAssumption DEF Fds, BadFd
    <3> QED
      BY <3>1, <3>2, <3>3, <3>4, <3>5, NobodyAssumption
  <2> QED
    BY <2>1, <2>2
<1>9. \A u \in Live : Mine(u) # nsd' \/ Mine(u) = BadFd
  <2>1. \A u \in Live : Mine(u) \in Fds => fds[Mine(u)] # Nobody
    BY DEF NoMixUp, OneToOne
  <2> QED
    BY <1>8, <2>1
<1>10. ASSUME NEW u \in Live PROVE Conn(u)' = Conn(u)
  <2>1. Mine(u) \in Fds => fds'[Mine(u)] = fds[Mine(u)]
    BY <1>8, <1>9, BoundsAssumption DEF Fds, BadFd
  <2> QED
    BY <1>5, <2>1 DEF Conn, FileAt
<1>11. OneToOne'
  <2>1. \A u, v \in Live' : u # v => Mine(u)' # Mine(v)' \/ Mine(u)' = BadFd
    BY <1>3, <1>5, <1>6, <1>9 DEF NoMixUp, OneToOne
  <2>2. \A u, v \in Live' : thr'[u].pc = "start" /\ thr'[v].pc = "start" => u = v
    BY <1>3
  <2>3. \A u \in Live' : Mine(u)' \in Fds => fds'[Mine(u)'] # Nobody
    <3>1. \A u \in Live : Mine(u) \in Fds => fds'[Mine(u)] # Nobody
      BY <1>8, <1>9, BoundsAssumption DEF NoMixUp, OneToOne, Fds, BadFd
    <3> QED
      BY <1>3, <1>5, <1>6, <1>8, <3>1
  <2>4. \A f \in Fds : fds'[f] # Nobody => \E u \in Live' : Mine(u)' = f
    BY <1>3, <1>5, <1>6, <1>8 DEF NoMixUp, OneToOne
  <2>5. \A u \in Live' : Mine(u)' = BadFd => failures' > 0
    BY <1>3, <1>5, <1>6, <1>7, <1>8 DEF NoMixUp, OneToOne
  <2> QED
    BY <2>1, <2>2, <2>3, <2>4, <2>5 DEF OneToOne
<1>12. ASSUME NEW d, Untouched(d) PROVE Untouched(d)'
  BY <1>1, <1>12 DEF Untouched, Early
<1>13. Serves(n)'
  <2> SUFFICES ASSUME NEW d, d = Conn(n)' PROVE Serves(n)'
    OBVIOUS
  <2>1. d # Nobody => d = fds'[nsd'] /\ nsd' \in Fds
    BY <1>6 DEF Conn, FileAt
  <2>2. d # Nobody => Untouched(d)'
    BY <1>8, <1>12, <2>1
  <2> QED
    BY <1>3, <1>4, <2>2 DEF Serves, Untouched
<1>14. \A u \in Live' : Serves(u)'
  BY <1>1, <1>3, <1>10, <1>13, SameServes DEF NoMixUp
<1>15. \A k \in DOMAIN queue' : Untouched(queue[k])'
  BY <1>8, <1>12
<1>16. ~crossed' /\ (unasked' => failures' > 0 \/ Early')
  BY <1>1, <1>7 DEF NoMixUp, Early
<1> QED
  BY <1>11, <1>14, <1>15, <1>16 DEF NoMixUp

\* A client that connects is in the queue, and has not been read from.
LEMMA ConnectNoMixUp ==
  ASSUME CInv, NoMixUp, NEW c \in Conns, Connect(c) PROVE NoMixUp'
<1>1. /\ cst[c] = "new" /\ cst' = [cst EXCEPT ![c] = "connected"]
      /\ UNCHANGED <<nsd, fds, thr, kind, rx, got, crossed, unasked, failures>>
      /\ ClientTypes /\ OnePlace /\ queue \in Seq(Conns)
  BY DEF Connect, main, history, CInv, Types, KernelTypes
<1>2. \A d \in Conns : d # c => cst'[d] = cst[d]
  BY <1>1 DEF ClientTypes
<1>3. cst'[c] = "connected" /\ kind[c] = "none" /\ got[c] = 0
  BY <1>1 DEF ClientTypes, CInv, Clients
<1>4. Early' <=> Early
  BY <1>1, <1>2, <1>3 DEF Early
<1>5. \A d \in Conns : Untouched(d) => Untouched(d)'
  BY <1>1, <1>2, <1>3, <1>4 DEF Untouched
<1>6. Untouched(c)'
  BY <1>1, <1>3 DEF Untouched
<1>7. \A k \in DOMAIN queue' : Untouched(queue[k])'
  <2> SUFFICES ASSUME NEW k \in DOMAIN queue', NEW d, d = queue'[k]
               PROVE  Untouched(d)'
    BY DEF Untouched
  <2>1. CASE queue'[k] = c
    BY <1>6, <2>1
  <2>2. CASE k \in DOMAIN queue /\ queue'[k] = queue[k]
    <3>1. d \in Conns /\ Untouched(d)
      BY <1>1, <2>2 DEF NoMixUp
    <3> QED
      BY <1>5, <2>2, <3>1
  <2> QED
    BY <2>1, <2>2, Enqueued
<1>8. OneToOne' /\ Live' = Live
  BY <1>1 DEF NoMixUp, OneToOne, Live, Mine
<1>9. ASSUME NEW u \in Live PROVE Serves(u)'
  <2>1. Conn(u)' = Conn(u) /\ thr' = thr /\ Serves(u)
    BY <1>1 DEF Conn, Mine, FileAt, NoMixUp
  <2> SUFFICES ASSUME NEW d, d = Conn(u), d = Conn(u)' PROVE Serves(u)'
    BY <2>1
  <2>2. d # Nobody => d \in Conns /\ d # c
    BY <1>1, OwnConn DEF OnePlace
  <2>3. d # Nobody => cst'[d] = cst[d] /\ (Untouched(d) => Untouched(d)')
    BY <1>2, <1>5, <2>2
  <2> QED
    BY <1>1, <1>4, <2>1, <2>3 DEF Serves, Untouched
<1> QED
  BY <1>1, <1>4, <1>7, <1>8, <1>9 DEF NoMixUp

\* What a client does next to a connection that the server still holds: its
\* header is the first thing to be read of it, and it does not leave before it
\* has its answer without giving up.
LEMMA ClientKeepsOpen ==
  ASSUME CInv, NEW c \in Conns, ClientStep(c) \/ Quit(c)
  PROVE  /\ Early => Early'
         /\ \A d \in Conns : (Queued(d) \/ Accepted(d)) /\ Untouched(d) => Untouched(d)'
         /\ \A d \in Conns :
              /\ Accepted(d) /\ kind[d] # "none" /\ cst[d] = "connected"
              /\ got[d] < Answers(kind[d])
              => Early' \/ (cst'[d] = "connected" /\ kind'[d] = kind[d] /\ got'[d] = got[d])
<1>1. ClientTypes /\ Clients
  BY DEF CInv, Types
<1>2. /\ cst[c] = "connected" /\ UNCHANGED got
      /\ \A d \in Conns : d # c => cst'[d] = cst[d] /\ kind'[d] = kind[d] /\ rx'[d] = rx[d]
  BY <1>1 DEF ClientStep, SendHeader, SendBody, Send, Leave, Quit, ClientTypes
<1>3. Early => Early'
  BY <1>2, EarlyStays DEF Gone
<1>4. ASSUME Queued(c) \/ Accepted(c), Untouched(c)
      PROVE  /\ Untouched(c)'
             /\ Early' \/ cst'[c] = "connected"
  <2>1. got'[c] = 0 /\ ~ServerClosed(c) /\ rx[c] \in Seq(Pieces)
    BY <1>1, <1>2, <1>4, StillOpen DEF Untouched, ClientTypes
  <2>2. CASE SendHeader(c)
    <3>1. rx'[c] = Append(rx[c], "header") /\ rx[c] = <<>> /\ UNCHANGED cst
      BY <1>1, <2>1, <2>2 DEF SendHeader, Send, Clients, ClientTypes
    <3>2. rx'[c] # <<>> /\ Head(rx'[c]) = "header"
      BY <3>1
    <3> QED
      BY <1>2, <2>1, <3>1, <3>2 DEF Untouched
  <2>3. CASE SendBody(c)
    <3>1. rx'[c] = Append(rx[c], "body") /\ UNCHANGED <<cst, kind>> /\ kind[c] # "none"
      BY <1>1, <2>1, <2>3 DEF SendBody, Send, HasBody, ClientTypes
    <3>2. rx[c] # <<>> /\ Head(rx[c]) = "header"
      BY <1>4, <3>1 DEF Untouched
    <3>3. rx'[c] # <<>> /\ Head(rx'[c]) = "header"
      BY <2>1, <3>1, <3>2
    <3> QED
      BY <1>2, <2>1, <3>1, <3>3 DEF Untouched
  <2>4. CASE Leave(c)
    <3>1. ~Answered(c)
      BY <1>4 DEF Untouched, Answered, Answers
    <3>2. kind[c] = "none" /\ cst' = [cst EXCEPT ![c] = "closed"] /\ UNCHANGED <<kind, rx>>
      BY <2>1, <2>4, <3>1 DEF Leave
    <3>3. Early'
      BY <1>1, <3>2 DEF Early, ClientTypes
    <3> QED
      BY <2>1, <3>2, <3>3 DEF Untouched
  <2>5. CASE Quit(c)
    <3>1. cst' = [cst EXCEPT ![c] = "killed"] /\ UNCHANGED <<kind, rx>>
      BY <2>5 DEF Quit
    <3>2. Early'
      BY <1>1, <3>1 DEF Early, ClientTypes
    <3> QED
      BY <1>4, <2>1, <3>1, <3>2 DEF Untouched
  <2> QED
    BY <2>2, <2>3, <2>4, <2>5 DEF ClientStep
<1>5. ASSUME NEW d \in Conns, Queued(d) \/ Accepted(d), Untouched(d) PROVE Untouched(d)'
  <2>1. CASE d = c
    BY <1>4, <1>5, <2>1
  <2>2. CASE d # c
    BY <1>2, <1>3, <1>5, <2>2 DEF Untouched
  <2> QED
    BY <2>1, <2>2
<1>6. ASSUME Accepted(c), kind[c] # "none", got[c] < Answers(kind[c])
      PROVE  Early' \/ (cst'[c] = "connected" /\ kind'[c] = kind[c])
  <2>1. ~ServerClosed(c)
    BY <1>6, StillOpen
  <2>2. ~Answered(c)
    <3>1. got[c] \in Nat /\ Answers(kind[c]) \in Nat
      BY <1>1 DEF ClientTypes, Answers
    <3> QED
      BY <1>6, <3>1 DEF Answered
  <2>3. CASE SendHeader(c) \/ SendBody(c)
    BY <1>2, <1>6, <2>3 DEF SendHeader, SendBody, Send
  <2>4. CASE Leave(c)
    BY <1>6, <2>1, <2>2, <2>4 DEF Leave
  <2>5. CASE Quit(c)
    BY <1>1, <2>5 DEF Quit, Early, ClientTypes
  <2> QED
    BY <2>3, <2>4, <2>5 DEF ClientStep
<1>7. \A d \in Conns :
        /\ Accepted(d) /\ kind[d] # "none" /\ cst[d] = "connected"
        /\ got[d] < Answers(kind[d])
        => Early' \/ (cst'[d] = "connected" /\ kind'[d] = kind[d] /\ got'[d] = got[d])
  BY <1>2, <1>6
<1> QED
  BY <1>3, <1>5, <1>7

LEMMA ClientNoMixUp ==
  ASSUME CInv, NoMixUp, NEW c \in Conns, ClientStep(c) \/ Quit(c) PROVE NoMixUp'
<1>1. UNCHANGED <<nsd, queue, fds, thr, crossed, unasked, failures>>
  BY DEF ClientStep, SendHeader, SendBody, Send, Leave, Quit, main, kernel, history
<1>2. Early => Early'
  BY ClientKeepsOpen
<1>3. OneToOne' /\ Live' = Live
  BY <1>1 DEF NoMixUp, OneToOne, Live, Mine
<1>4. \A k \in DOMAIN queue' : Untouched(queue[k])'
  <2> SUFFICES ASSUME NEW k \in DOMAIN queue, NEW d, d = queue[k]
               PROVE  Untouched(d)'
    BY <1>1 DEF Untouched
  <2>1. d \in Conns /\ Queued(d) /\ Untouched(d)
    BY DEF CInv, Types, KernelTypes, Queued, NoMixUp
  <2> QED
    BY <2>1, ClientKeepsOpen
<1>5. ASSUME NEW u \in Live PROVE Serves(u)'
  <2>1. Conn(u)' = Conn(u) /\ thr' = thr /\ Serves(u)
    BY <1>1 DEF Conn, Mine, FileAt, NoMixUp
  <2> SUFFICES ASSUME NEW d, d = Conn(u), d = Conn(u)' PROVE Serves(u)'
    BY <2>1
  <2>2. d # Nobody => d \in Conns /\ Accepted(d)
    BY OwnConn
  <2>3. d # Nobody /\ Untouched(d) => Untouched(d)'
    BY <2>2, ClientKeepsOpen
  <2>4. CASE d = Nobody \/ thr[u].pc \notin {"body", "write"}
    BY <2>1, <2>3, <2>4 DEF Serves
  <2>5. CASE d # Nobody /\ thr[u].pc \in {"body", "write"}
    <3>1. \/ Early
          \/ /\ thr[u].head = d
             /\ cst[d] = "connected" /\ kind[d] # "none"
             /\ got[d] + thr[u].left = Answers(kind[d])
      BY <2>1, <2>5 DEF Serves
    <3>2. thr[u].left > 0 /\ thr[u].left \in Nat /\ got[d] \in Nat
          /\ Answers(kind[d]) \in Nat
      BY <2>2, <2>5
         DEF CInv, Types, ThreadTypes, ClientTypes, ThrRec, ThreadShape, Live, Answers
    <3>3. \/ Early'
          \/ /\ thr[u].head = d
             /\ cst'[d] = "connected" /\ kind'[d] # "none"
             /\ got'[d] + thr[u].left = Answers(kind'[d])
      <4>1. CASE Early
        BY <1>2, <4>1
      <4>2. CASE ~Early
        <5>1. got[d] < Answers(kind[d])
          BY <3>1, <3>2, <4>2
        <5> QED
          BY <2>2, <2>5, <3>1, <4>2, <5>1, ClientKeepsOpen
      <4> QED
        BY <4>1, <4>2
    <3> QED
      BY <2>1, <2>5, <3>3 DEF Serves
  <2> QED
    BY <2>4, <2>5
<1>6. ~crossed' /\ (unasked' => failures' > 0 \/ Early')
  BY <1>1, <1>2 DEF NoMixUp
<1> QED
  BY <1>1, <1>3, <1>4, <1>5, <1>6 DEF NoMixUp

\* Once the server is down nothing is left to be mixed up.
LEMMA DownNoMixUp ==
  ASSUME CInv, NoMixUp, GoDown, UNCHANGED <<clients, crossed, unasked, failures>>
  PROVE  NoMixUp'
<1>1. Live' = {} /\ queue' = <<>> /\ \A f \in Fds : fds'[f] = Nobody
  BY DEF GoDown, Live, Idle
<1>2. OneToOne'
  BY <1>1 DEF OneToOne
<1> QED
  BY <1>1, <1>2 DEF NoMixUp, clients, Early

\* Nothing that a connection or a thread knows of has changed.
LEMMA SameNoMixUp ==
  ASSUME CInv, NoMixUp,
         UNCHANGED <<nsd, queue, fds, thr, clients, crossed, unasked, failures>>
  PROVE  NoMixUp'
BY DEF NoMixUp, OneToOne, Untouched, Serves, Conn, FileAt, Mine, Live, Early, clients

(***************************************************************************)
(* The invariant.                                                          *)
(***************************************************************************)

LEMMA InitCInv == Init => CInv
<1> SUFFICES ASSUME Init PROVE CInv
  OBVIOUS
<1>1. Types /\ Shape
  BY InitTypes, InitShape
<1>2. Live = {} /\ queue = <<>> /\ \A f \in Fds : fds[f] = Nobody
  BY DEF Init, Live, Idle
<1>3. OneToOne
  BY <1>2 DEF OneToOne
<1>4. NoMixUp
  BY <1>2, <1>3 DEF NoMixUp, Init
<1> QED
  BY <1>1, <1>4 DEF Shape, CInv

LEMMA NextTypes == CInv /\ [Next]_vars => Types'
<1> SUFFICES ASSUME CInv, [Next]_vars PROVE Types'
  OBVIOUS
<1>1. CASE Main
  BY <1>1, RoundTypes, MainTypes DEF Main
<1>2. CASE Interrupt
  BY <1>2, MainTypes
<1>3. CASE \E t \in Threads : HandleRequest(t) \/ BrokenPipe(t)
  BY <1>3, RequestTypes, MainTypes
<1>4. CASE \E c \in Conns : Connect(c) \/ ClientStep(c) \/ Quit(c)
  BY <1>4, ConnTypes
<1>5. CASE UNCHANGED vars
  BY <1>5 DEF vars, main, kernel, clients, history, CInv, Types, KernelTypes, ThreadTypes,
              ClientTypes, HistoryTypes
<1> QED
  BY <1>1, <1>2, <1>3, <1>4, <1>5 DEF Next, Finished

LEMMA NextShape == CInv /\ [Next]_vars => Shape'
<1> SUFFICES ASSUME CInv, [Next]_vars PROVE Shape'
  OBVIOUS
<1>1. CASE Main
  BY <1>1, RoundShape, StartShape DEF Main
<1>2. CASE Interrupt
  BY <1>2, DownShape DEF Interrupt
<1>3. ASSUME NEW t \in Threads, HandleRequest(t) \/ BrokenPipe(t) PROVE Shape'
  <2>1. CASE GoesOn(t)
    BY <2>1, ThreadMoves, MovesShape
  <2>2. CASE CloseConnection(t)
    BY <2>2, CloseShape
  <2>3. CASE BrokenPipe(t)
    BY <2>3, DownShape DEF BrokenPipe
  <2> QED
    BY <1>3, <2>1, <2>2, <2>3 DEF HandleRequest, GoesOn
<1>4. CASE \E c \in Conns : Connect(c) \/ ClientStep(c) \/ Quit(c)
  BY <1>4, ConnectShape, ClientShape
<1>5. CASE UNCHANGED vars
  BY <1>5 DEF vars, main, kernel, clients, history, CInv, Shape, OnePlace, Queued, Accepted,
              Quiescent, FreeFds, Live, Clients, ThreadShape
<1> QED
  BY <1>1, <1>2, <1>3, <1>4, <1>5 DEF Next, Finished

LEMMA NextNoMixUp == CInv /\ [Next]_vars => (overrun \/ NoMixUp)'
<1> SUFFICES ASSUME CInv, [Next]_vars, ~overrun' PROVE NoMixUp'
  OBVIOUS
<1>0. ~overrun
  BY DEF Next, Main, Start, Accept, AcceptFails, NextRound, Interrupt, Finished,
         HandleRequest, TakeDescriptor, BeginRead, ReadHeader, ReadBody, Write,
         CloseConnection, BrokenPipe, Connect, ClientStep, SendHeader, SendBody, Send,
         Leave, Quit, vars, history
<1> NoMixUp
  BY <1>0 DEF CInv
<1>1. CASE Main
  <2>1. CASE Start
    BY <2>1, SameNoMixUp DEF Start, kernel, history
  <2> QED
    BY <1>1, <2>1, RoundNoMixUp DEF Main
<1>2. CASE Interrupt
  BY <1>2, DownNoMixUp DEF Interrupt
<1>3. ASSUME NEW t \in Threads, HandleRequest(t) \/ BrokenPipe(t) PROVE NoMixUp'
  <2>1. CASE GoesOn(t)
    BY <2>1, GoesOnNoMixUp
  <2>2. CASE CloseConnection(t)
    BY <2>2, CloseNoMixUp
  <2>3. CASE BrokenPipe(t)
    BY <2>3, DownNoMixUp DEF BrokenPipe, history
  <2> QED
    BY <1>3, <2>1, <2>2, <2>3 DEF HandleRequest, GoesOn
<1>4. CASE \E c \in Conns : Connect(c) \/ ClientStep(c) \/ Quit(c)
  BY <1>4, ConnectNoMixUp, ClientNoMixUp
<1>5. CASE UNCHANGED vars
  BY <1>5, SameNoMixUp DEF vars, main, kernel, history
<1> QED
  BY <1>1, <1>2, <1>3, <1>4, <1>5 DEF Next, Finished

LEMMA CInvInductive == Spec => []CInv
<1>1. CInv /\ [Next]_vars => CInv'
  BY NextTypes, NextShape, NextNoMixUp DEF CInv, Shape
<1> QED
  BY InitCInv, <1>1, PTL DEF Spec

(***************************************************************************)
(* What the runs check, for every value of the constants.                  *)
(***************************************************************************)

\* Every variable has its type, a connection is in one place, and the queue is
\* never longer than the kernel lets it be, overwritten nsd or not.
THEOREM ConnectionsTypes == Spec => []ConnectionsTypeOK
<1>1. CInv => ConnectionsTypeOK
  <2> SUFFICES ASSUME CInv PROVE ConnectionsTypeOK
    OBVIOUS
  <2>1. \A t \in Threads : /\ thr[t].pc \in Pcs /\ thr[t].fd \in Fds \cup {BadFd}
                            /\ thr[t].at \in Conns \cup {Nobody}
                            /\ thr[t].pc = "write" => thr[t].left > 0
    BY DEF CInv, Types, ThreadTypes, ThrRec, ThreadShape
  <2>2. \A k \in DOMAIN queue : \A f \in Fds : fds[f] # queue[k]
    BY DEF CInv, Types, KernelTypes, OnePlace, Queued, Accepted
  <2> QED
    BY <2>1, <2>2 DEF CInv, Types, KernelTypes, OnePlace, ConnectionsTypeOK
<1> QED
  BY <1>1, CInvInductive, PTL

\* No two threads use one descriptor unless nsd was overwritten before one of
\* them had read it (server.c:711), though the kernel gives out the numbers of
\* closed descriptors again.
THEOREM NoDescriptorIsShared == Spec => []OneThreadEach
<1>1. CInv => OneThreadEach
  BY DEF CInv, NoMixUp, OneToOne, Mine, OneThreadEach
<1> QED
  BY <1>1, CInvInductive, PTL

\* A descriptor that accept has returned belongs to a thread that will close it.
THEOREM NoDescriptorIsLost == Spec => []OnlyOverrunsStrand
<1>1. CInv => OnlyOverrunsStrand
  <2> SUFFICES ASSUME CInv, ~overrun, NEW f \in Fds, fds[f] # Nobody
               PROVE  \E t \in Live : IF thr[t].pc = "start" THEN nsd = f ELSE thr[t].fd = f
    BY DEF OnlyOverrunsStrand
  <2>1. PICK t \in Live : Mine(t) = f
    BY DEF CInv, NoMixUp, OneToOne
  <2> QED
    BY <2>1 DEF Mine
<1> QED
  BY <1>1, CInvInductive, PTL

\* An answer goes to the client whose header and body made it: the threads of
\* handle_request do not mix up the connections they have.
THEOREM AnswersAreNotCrossed == Spec => []AnswersGoToTheAsker
<1>1. CInv => AnswersGoToTheAsker
  BY DEF CInv, NoMixUp, AnswersGoToTheAsker
<1> QED
  BY <1>1, CInvInductive, PTL

\* A controller runs for a request that nobody made only after a failed accept,
\* or on the connection of a client that did not wait (server.c:604).
THEOREM NothingIsDoneUnasked == Spec => []ActsOnRequest
<1>1. CInv => ActsOnRequest
  BY DEF CInv, NoMixUp, ActsOnRequest
<1> QED
  BY <1>1, CInvInductive, PTL

\* A listening server ends by SIGINT, or because it writes to a client that did
\* not wait for the end of its answer: a client that waits never ends it.
THEOREM NoOtherWayDown == Spec => GoesDownForAReason
<1>1. CInv /\ [Next]_vars
        => [server = "listening" /\ server' = "down" => interrupted' \/ Early \/ overrun]_vars
  <2> SUFFICES ASSUME CInv, Next, server = "listening", server' = "down", ~Early, ~overrun
               PROVE  interrupted'
    OBVIOUS
  <2>1. ASSUME NEW t \in Threads PROVE ~BrokenPipe(t)
    <3> SUFFICES ASSUME BrokenPipe(t) PROVE FALSE
      OBVIOUS
    <3>1. t \in Live /\ thr[t].pc = "write" /\ Destination(thr[t]) = Conn(t)
      BY DEF BrokenPipe, Runs, Live, Destination, Conn, Mine
    <3>2. Serves(t)
      BY <3>1 DEF CInv, NoMixUp
    <3>3. cst[Conn(t)] = "connected"
      BY <3>1, <3>2 DEF BrokenPipe, Serves
    <3> QED
      BY <3>1, <3>3 DEF BrokenPipe, Gone
  <2>2. CASE Interrupt
    BY <2>2 DEF Interrupt
  <2>3. CASE ~Interrupt
    <3>1. server' = server
      BY <2>1, <2>3
         DEF Next, Main, Start, Accept, AcceptFails, NextRound, Finished,
             HandleRequest, TakeDescriptor, BeginRead, ReadHeader, ReadBody, Write,
             CloseConnection, Connect, ClientStep, SendHeader, SendBody, Send,
             Leave, Quit, vars, main
    <3> QED
      BY <3>1
  <2> QED
    BY <2>2, <2>3
<1> QED
  BY <1>1, CInvInductive, PTL DEF Spec, GoesDownForAReason
=============================================================================
