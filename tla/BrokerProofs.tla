---------------------------- MODULE BrokerProofs ----------------------------
(***************************************************************************)
(* Theorems about ManagementBroker, for every number of commands, events   *)
(* and connections, every channel capacity and every set of faults:        *)
(*                                                                         *)
(*   OrderedOnceHolds   commands are written in order and at most once     *)
(*   InSyncHolds        no response is taken for another command's         *)
(*   BrokerTypes        every variable keeps its type, the channels their  *)
(*                      capacities                                         *)
(*                                                                         *)
(* OrderedOnce speaks of what has been written; it is kept because the     *)
(* commands on their way, in cmdCh and in the broker's queue, are ordered  *)
(* too and newer than what has been written (Queue).                       *)
(***************************************************************************)
EXTENDS ManagementBroker, FiniteSetTheorems, TLAPS

\* Numbers rise along s, zeros (requests not from cmdCh) left aside.
Rises(s) == \A i, j \in 1 .. Len(s) : i < j /\ s[j] # 0 => s[i] < s[j]

\* What is in s is older than what is in t.
Below(s, t) == \A i \in 1 .. Len(s) : \A j \in 1 .. Len(t) : t[j] # 0 => s[i] < t[j]

\* The commands in cmdCh (c), in the broker's queue (q) and written (l), when
\* h have been handed over.
Queue(h, c, q, l) ==
    /\ h \in Nat /\ c \in Seq(1 .. h) /\ q \in Seq(0 .. h) /\ l \in Seq(1 .. h)
    /\ Rises(c) /\ Rises(q) /\ Rises(l)
    /\ Below(q, c) /\ Below(l, c) /\ Below(l, q)

Pending == [i \in 1 .. Len(reqs) |-> reqs[i].cmd]

QueueInv == reqs \in Seq(BrokerRequests) /\ Queue(handed, cmdCh, Pending, log)

Lines == {"resp"} \cup Notifications
SyncTypes == ovin \in Nat /\ respLine \in Nat /\ wire \in Seq(Lines)

\* Both theorems follow from this one.
BrokerInv == QueueInv /\ SyncTypes /\ InSync

-----------------------------------------------------------------------------
(* Sequences of command numbers. *)

LEMMA AppendTail ==
    ASSUME NEW S, NEW s \in Seq(S)
    PROVE  /\ Len(s) \in Nat
           /\ \A i \in 1 .. Len(s) : s[i] \in S
           /\ \A x \in S : /\ Append(s, x) \in Seq(S)
                           /\ Len(Append(s, x)) = Len(s) + 1
                           /\ \A i \in 1 .. Len(s) : Append(s, x)[i] = s[i]
                           /\ Append(s, x)[Len(s) + 1] = x
           /\ s # <<>> => /\ Tail(s) \in Seq(S)
                          /\ Len(Tail(s)) = Len(s) - 1
                          /\ \A i \in 1 .. Len(s) - 1 : Tail(s)[i] = s[i + 1]
                          /\ Head(s) = s[1] /\ Head(s) \in S
                          /\ Len(s) > 0
  OBVIOUS

LEMMA SeqIsFunction ==
    ASSUME NEW S, NEW s \in Seq(S)
    PROVE  s = [i \in 1 .. Len(s) |-> s[i]] /\ Len(s) \in Nat
  OBVIOUS

LEMMA WiderSeq == ASSUME NEW S, NEW T, S \subseteq T, NEW s \in Seq(S) PROVE s \in Seq(T)
  OBVIOUS

LEMMA RisesAppend ==
    ASSUME NEW s \in Seq(Nat), Rises(s), NEW x \in Nat,
           x # 0 => \A i \in 1 .. Len(s) : s[i] < x
    PROVE  Rises(Append(s, x))
<1> DEFINE t == Append(s, x)
<1> SUFFICES ASSUME NEW i \in 1 .. Len(t), NEW j \in 1 .. Len(t), i < j, t[j] # 0
             PROVE  t[i] < t[j]
  BY Zenon DEF Rises
<1>1. i \in 1 .. Len(s) /\ t[i] = s[i]
  BY AppendTail
<1>2. CASE j \in 1 .. Len(s) /\ t[j] = s[j]
  BY <1>1, <1>2, Zenon DEF Rises
<1>3. CASE t[j] = x
  BY <1>1, <1>3, Zenon
<1> QED BY <1>2, <1>3, AppendTail

LEMMA RisesTail ==
    ASSUME NEW s \in Seq(Nat), Rises(s), s # <<>> PROVE Rises(Tail(s))
<1> SUFFICES ASSUME NEW i \in 1 .. Len(Tail(s)), NEW j \in 1 .. Len(Tail(s)), i < j,
                    Tail(s)[j] # 0
             PROVE  Tail(s)[i] < Tail(s)[j]
  BY Zenon DEF Rises
<1>1. /\ i + 1 \in 1 .. Len(s) /\ j + 1 \in 1 .. Len(s) /\ i + 1 < j + 1
      /\ Tail(s)[i] = s[i + 1] /\ Tail(s)[j] = s[j + 1]
  BY AppendTail
<1> QED BY <1>1, Zenon DEF Rises

LEMMA BelowAppend ==
    ASSUME NEW s \in Seq(Nat), NEW t \in Seq(Nat), Below(s, t), NEW x \in Nat
    PROVE  /\ (x # 0 => \A i \in 1 .. Len(s) : s[i] < x) => Below(s, Append(t, x))
           /\ (\A j \in 1 .. Len(t) : t[j] # 0 => x < t[j]) => Below(Append(s, x), t)
<1>1. ASSUME NEW r \in Seq(Nat), NEW i \in 1 .. Len(Append(r, x))
      PROVE  \/ i \in 1 .. Len(r) /\ Append(r, x)[i] = r[i]
             \/ Append(r, x)[i] = x
  BY <1>1, AppendTail
<1>2. \A i \in 1 .. Len(Append(s, x)) : \/ i \in 1 .. Len(s) /\ Append(s, x)[i] = s[i]
                                        \/ Append(s, x)[i] = x
  BY <1>1, Zenon
<1>3. \A i \in 1 .. Len(Append(t, x)) : \/ i \in 1 .. Len(t) /\ Append(t, x)[i] = t[i]
                                        \/ Append(t, x)[i] = x
  BY <1>1, Zenon
<1> QED BY <1>2, <1>3, Zenon DEF Below

LEMMA BelowTail ==
    ASSUME NEW s \in Seq(Nat), NEW t \in Seq(Nat), Below(s, t)
    PROVE  /\ s # <<>> => Below(Tail(s), t)
           /\ t # <<>> => Below(s, Tail(t))
<1>1. ASSUME NEW r \in Seq(Nat), r # <<>>, NEW i \in 1 .. Len(Tail(r))
      PROVE  i + 1 \in 1 .. Len(r) /\ Tail(r)[i] = r[i + 1]
  BY <1>1, AppendTail
<1> QED BY <1>1, Zenon DEF Below

\* The head of a rising sequence is below the rest of it.
LEMMA HeadBelow ==
    ASSUME NEW s \in Seq(Nat), Rises(s), s # <<>>
    PROVE  \A j \in 1 .. Len(Tail(s)) : Tail(s)[j] # 0 => Head(s) < Tail(s)[j]
<1> SUFFICES ASSUME NEW j \in 1 .. Len(Tail(s)), Tail(s)[j] # 0
             PROVE  Head(s) < Tail(s)[j]
  BY Zenon
<1>1. /\ 1 \in 1 .. Len(s) /\ j + 1 \in 1 .. Len(s) /\ 1 < j + 1
      /\ Head(s) = s[1] /\ Tail(s)[j] = s[j + 1]
  BY AppendTail
<1> QED BY <1>1, Zenon DEF Rises

-----------------------------------------------------------------------------
(* What a step does to the queue. *)

LEMMA QueueTypes ==
    ASSUME NEW h, NEW c, NEW q, NEW l, Queue(h, c, q, l)
    PROVE  /\ h \in Nat /\ c \in Seq(1 .. h) /\ q \in Seq(0 .. h) /\ l \in Seq(1 .. h)
           /\ c \in Seq(Nat) /\ q \in Seq(Nat) /\ l \in Seq(Nat)
<1>1. h \in Nat /\ c \in Seq(1 .. h) /\ q \in Seq(0 .. h) /\ l \in Seq(1 .. h)
  BY Zenon DEF Queue
<1>2. 1 .. h \subseteq Nat /\ 0 .. h \subseteq Nat
  BY <1>1
<1> QED BY <1>1, <1>2, WiderSeq, Zenon

\* A command is handed over.
LEMMA QueueHandOver ==
    ASSUME NEW h, NEW c, NEW q, NEW l, Queue(h, c, q, l)
    PROVE  Queue(h + 1, Append(c, h + 1), q, l)
<1>0. /\ h \in Nat /\ c \in Seq(1 .. h) /\ q \in Seq(0 .. h) /\ l \in Seq(1 .. h)
      /\ c \in Seq(Nat) /\ q \in Seq(Nat) /\ l \in Seq(Nat)
  BY QueueTypes, Zenon
<1>1. /\ h + 1 \in Nat /\ h + 1 \in 1 .. h + 1
      /\ 1 .. h \subseteq 1 .. h + 1 /\ 0 .. h \subseteq 0 .. h + 1
      /\ \A x \in 1 .. h : x < h + 1
      /\ \A x \in 0 .. h : x < h + 1
  BY <1>0
<1>2. /\ c \in Seq(1 .. h + 1) /\ q \in Seq(0 .. h + 1) /\ l \in Seq(1 .. h + 1)
  <2>1. \A s \in Seq(1 .. h) : s \in Seq(1 .. h + 1)
    BY <1>1, WiderSeq, Zenon
  <2>2. \A s \in Seq(0 .. h) : s \in Seq(0 .. h + 1)
    BY <1>1, WiderSeq, Zenon
  <2> QED BY <1>0, <2>1, <2>2, Zenon
<1>3. Append(c, h + 1) \in Seq(1 .. h + 1)
  BY <1>1, <1>2, AppendTail, Zenon
<1>4. /\ \A i \in 1 .. Len(c) : c[i] < h + 1
      /\ \A i \in 1 .. Len(q) : q[i] < h + 1
      /\ \A i \in 1 .. Len(l) : l[i] < h + 1
  BY <1>0, <1>1, AppendTail, Zenon
<1>5. Rises(Append(c, h + 1))
  BY <1>0, <1>1, <1>4, RisesAppend, Zenon DEF Queue
<1>6. Below(q, Append(c, h + 1)) /\ Below(l, Append(c, h + 1))
  BY <1>0, <1>1, <1>4, BelowAppend, Zenon DEF Queue
<1> QED BY <1>1, <1>2, <1>3, <1>5, <1>6, Zenon DEF Queue

\* The forwarder passes the oldest one on.
LEMMA QueueForward ==
    ASSUME NEW h, NEW c, NEW q, NEW l, Queue(h, c, q, l), c # <<>>
    PROVE  Queue(h, Tail(c), Append(q, Head(c)), l)
<1>0. /\ h \in Nat /\ c \in Seq(1 .. h) /\ q \in Seq(0 .. h) /\ l \in Seq(1 .. h)
      /\ c \in Seq(Nat) /\ q \in Seq(Nat) /\ l \in Seq(Nat)
  BY QueueTypes, Zenon
<1>1. /\ Tail(c) \in Seq(1 .. h) /\ Tail(c) \in Seq(Nat)
      /\ Head(c) \in 1 .. h /\ Head(c) \in Nat /\ Head(c) = c[1]
  BY <1>0, AppendTail, Zenon
<1>2. Head(c) \in 0 .. h /\ Head(c) # 0 /\ 1 \in 1 .. Len(c)
  BY <1>0, <1>1, AppendTail
<1>3. Append(q, Head(c)) \in Seq(0 .. h)
  BY <1>0, <1>2, AppendTail, Zenon
<1>4. /\ \A i \in 1 .. Len(q) : q[i] < Head(c)
      /\ \A i \in 1 .. Len(l) : l[i] < Head(c)
  BY <1>1, <1>2, Zenon DEF Queue, Below
<1>5. Rises(Tail(c)) /\ Rises(Append(q, Head(c)))
  BY <1>0, <1>1, <1>4, RisesTail, RisesAppend, Zenon DEF Queue
<1>6. Below(q, Tail(c)) /\ Below(l, Tail(c))
  BY <1>0, BelowTail, Zenon DEF Queue
<1>7. Below(Append(q, Head(c)), Tail(c))
  <2>1. \A j \in 1 .. Len(Tail(c)) : Tail(c)[j] # 0 => Head(c) < Tail(c)[j]
    BY <1>0, HeadBelow, Zenon DEF Queue
  <2> QED BY <1>0, <1>1, <1>6, <2>1, BelowAppend, Zenon
<1>8. Below(l, Append(q, Head(c)))
  BY <1>0, <1>1, <1>4, BelowAppend, Zenon DEF Queue
<1> QED BY <1>0, <1>1, <1>3, <1>5, <1>6, <1>7, <1>8, Zenon DEF Queue

\* The event loop asks for something itself.
LEMMA QueueAsk ==
    ASSUME NEW h, NEW c, NEW q, NEW l, Queue(h, c, q, l)
    PROVE  Queue(h, c, Append(q, 0), l)
<1>0. /\ h \in Nat /\ c \in Seq(1 .. h) /\ q \in Seq(0 .. h) /\ l \in Seq(1 .. h)
      /\ c \in Seq(Nat) /\ q \in Seq(Nat) /\ l \in Seq(Nat)
  BY QueueTypes, Zenon
<1>1. 0 \in Nat /\ 0 \in 0 .. h
  BY <1>0
<1>2. Append(q, 0) \in Seq(0 .. h)
  BY <1>0, <1>1, AppendTail, Zenon
<1>3. Rises(Append(q, 0)) /\ Below(l, Append(q, 0))
  BY <1>0, <1>1, RisesAppend, BelowAppend, Zenon DEF Queue
<1>4. Below(Append(q, 0), c)
  <2>1. \A j \in 1 .. Len(c) : c[j] \in 1 .. h
    BY <1>0, AppendTail, Zenon
  <2>2. \A x \in 1 .. h : 0 < x
    BY <1>0
  <2>3. \A j \in 1 .. Len(c) : c[j] # 0 => 0 < c[j]
    BY <2>1, <2>2, Zenon
  <2> QED BY <1>0, <1>1, <2>3, BelowAppend, Zenon DEF Queue
<1> QED BY <1>0, <1>2, <1>3, <1>4, Zenon DEF Queue

\* The broker takes the oldest request; it writes a command of cmdCh or not.
LEMMA QueueWrite ==
    ASSUME NEW h, NEW c, NEW q, NEW l, Queue(h, c, q, l), q # <<>>
    PROVE  /\ Queue(h, c, Tail(q), l)
           /\ Head(q) # 0 => Queue(h, c, Tail(q), Append(l, Head(q)))
<1>0. /\ h \in Nat /\ c \in Seq(1 .. h) /\ q \in Seq(0 .. h) /\ l \in Seq(1 .. h)
      /\ c \in Seq(Nat) /\ q \in Seq(Nat) /\ l \in Seq(Nat)
  BY QueueTypes, Zenon
<1>1. /\ Tail(q) \in Seq(0 .. h) /\ Tail(q) \in Seq(Nat)
      /\ Head(q) \in 0 .. h /\ Head(q) \in Nat /\ Head(q) = q[1]
  BY <1>0, AppendTail, Zenon
<1>2. /\ Rises(Tail(q)) /\ Below(Tail(q), c) /\ Below(l, Tail(q))
  BY <1>0, RisesTail, BelowTail, Zenon DEF Queue
<1>3. Queue(h, c, Tail(q), l)
  BY <1>0, <1>1, <1>2, Zenon DEF Queue
<1>4. ASSUME Head(q) # 0 PROVE Queue(h, c, Tail(q), Append(l, Head(q)))
  <2>1. Head(q) \in 1 .. h /\ 1 \in 1 .. Len(q)
    BY <1>0, <1>1, <1>4, AppendTail
  <2>2. Append(l, Head(q)) \in Seq(1 .. h)
    BY <1>0, <2>1, AppendTail, Zenon
  <2>3. \A i \in 1 .. Len(l) : l[i] < Head(q)
    BY <1>1, <1>4, <2>1, Zenon DEF Queue, Below
  <2>4. Rises(Append(l, Head(q)))
    BY <1>0, <1>1, <2>3, RisesAppend, Zenon DEF Queue
  <2>5. Below(Append(l, Head(q)), Tail(q))
    <3>1. \A j \in 1 .. Len(Tail(q)) : Tail(q)[j] # 0 => Head(q) < Tail(q)[j]
      BY <1>0, HeadBelow, Zenon DEF Queue
    <3> QED BY <1>0, <1>1, <1>2, <3>1, BelowAppend, Zenon
  <2>6. Below(Append(l, Head(q)), c)
    <3>1. \A j \in 1 .. Len(c) : c[j] # 0 => Head(q) < c[j]
      BY <1>1, <2>1, Zenon DEF Queue, Below
    <3> QED BY <1>0, <1>1, <3>1, BelowAppend, Zenon DEF Queue
  <2> QED BY <1>3, <2>2, <2>4, <2>5, <2>6, Zenon DEF Queue
<1> QED BY <1>3, <1>4, Zenon

\* A new connection starts with an empty queue of requests.
LEMMA QueueDrop ==
    ASSUME NEW h, NEW c, NEW q, NEW l, Queue(h, c, q, l)
    PROVE  Queue(h, c, <<>>, l)
<1>1. <<>> \in Seq(0 .. h) /\ \A i \in 1 .. Len(<<>>) : FALSE
  OBVIOUS
<1>2. Rises(<<>>) /\ Below(<<>>, c) /\ Below(l, <<>>)
  BY <1>1, Zenon DEF Rises, Below
<1> QED BY <1>1, <1>2, Zenon DEF Queue

-----------------------------------------------------------------------------
(* Every step is one of these moves of the queue. *)

\* reqs with the requester of some of them gone.
Relabelled ==
    /\ reqs' \in Seq(BrokerRequests)
    /\ Len(reqs') = Len(reqs)
    /\ \A i \in 1 .. Len(reqs) : reqs'[i].cmd = reqs[i].cmd

QueueMove ==
    \/ HandOver /\ UNCHANGED <<log, reqs>>
    \/ /\ cmdCh # <<>> /\ cmdCh' = Tail(cmdCh) /\ Request("fw", Head(cmdCh))
       /\ UNCHANGED <<handed, log>>
    \/ /\ reqs # <<>> /\ reqs' = Tail(reqs)
       /\ UNCHANGED <<cmdCh, handed>>
       /\ log' \in {log, IF Head(reqs).cmd = 0 THEN log
                                               ELSE Append(log, Head(reqs).cmd)}
    \/ /\ UNCHANGED <<cmdCh, handed, log>>
       /\ UNCHANGED reqs \/ Relabelled \/ Request("loop", 0) \/ reqs' = <<>>

LEMMA GivenUp == ASSUME QueueInv, NEW p \in Requesters, GivesUp(p) PROVE Relabelled
<1>0. reqs \in Seq(BrokerRequests)
  BY Zenon DEF QueueInv
<1>1. \A r \in BrokerRequests :
          /\ [r EXCEPT !.p = "none"] \in BrokerRequests
          /\ [r EXCEPT !.p = "none"].cmd = r.cmd
  BY DEF BrokerRequests
<1> DEFINE r(i) == IF reqs[i].p = p THEN [reqs[i] EXCEPT !.p = "none"] ELSE reqs[i]
<1>2. \A i \in 1 .. Len(reqs) : r(i) \in BrokerRequests /\ r(i).cmd = reqs[i].cmd
  BY <1>0, <1>1, AppendTail, Zenon
<1>3. reqs' = [i \in 1 .. Len(reqs) |-> r(i)] /\ Len(reqs) \in Nat
  <2>1. DOMAIN reqs = 1 .. Len(reqs) /\ Len(reqs) \in Nat
    BY <1>0
  <2> QED BY <2>1, Zenon DEF GivesUp
<1> HIDE DEF r
<1>4. reqs' \in Seq(BrokerRequests) /\ Len(reqs') = Len(reqs)
  BY <1>2, <1>3
<1> QED BY <1>2, <1>3, <1>4, Zenon DEF Relabelled

LEMMA Requests ==
    ASSUME QueueInv, NEW p \in Requesters,
           RequestFails(p) \/ Result(p, "ok") \/ Result(p, "err") \/ GivesUp(p)
    PROVE  UNCHANGED reqs \/ Relabelled
  BY GivenUp, Zenon DEF RequestFails, Result

LEMMA QueueMoves == ASSUME QueueInv, [Next]_vars PROVE QueueMove
<1>0. "fw" \in Requesters /\ "loop" \in Requesters
  BY DEF Requesters
<1>1. CASE UNCHANGED vars
  BY <1>1, Zenon DEF vars, QueueMove
<1>2. CASE SendCommand \/ LoopSends
  BY <1>2, Zenon DEF SendCommand, LoopSends, brokerVars, QueueMove
<1>3. CASE VpnAnswers \/ VpnNotifies \/ SocketBreaks \/ ReaderNext \/ Signal
  BY <1>3, Zenon DEF VpnAnswers, VpnNotifies, SocketBreaks, ReaderNext, ReadLine,
                     ReadFails, Signal, queueVars, brokerVars, QueueMove
<1>4. CASE BrokerStart
  BY <1>4, Zenon DEF BrokerStart, queueVars, QueueMove
<1>5. CASE BrokerAnswers \/ BrokerFails \/ BrokerUnexpected \/ BrokerCancelled
  BY <1>5, Zenon DEF BrokerAnswers, BrokerFails, BrokerUnexpected, BrokerCancelled,
                     queueVars, QueueMove
<1>6. CASE ForwarderTakes
  BY <1>6, Zenon DEF ForwarderTakes, QueueMove
<1>7. CASE ForwarderDone \/ ForwarderFails
  BY <1>0, <1>7, Requests, Zenon DEF ForwarderDone, ForwarderFails, queueVars, QueueMove
<1>8. CASE ForwarderExits \/ BootEvicts \/ LoopAcked \/ LoopReturns
  BY <1>8, Zenon DEF ForwarderExits, BootEvicts, LoopAcked, LoopReturns, queueVars,
                     brokerVars, QueueMove
<1>9. CASE BootCompletes \/ BootFails \/ LoopStatusReturns
  BY <1>0, <1>9, Requests, Zenon
     DEF BootCompletes, BootFails, LoopStatusReturns, queueVars, QueueMove
<1>10. CASE BootHold \/ BootStatus \/ LoopAckFails
  BY <1>10, Zenon DEF BootHold, BootStatus, LoopAckFails, KillFails, queueVars, QueueMove
<1>11. CASE LoopReplays \/ LoopTakes \/ LoopSendDropped
  BY <1>11, Zenon DEF LoopReplays, LoopTakes, LoopSendDropped, HandlesEvent, KillFails,
                      queueVars, QueueMove
<1>12. CASE CloseClient \/ Reconnect \/ DrainEnds
  BY <1>12, Zenon DEF CloseClient, Reconnect, DrainEnds, Fresh, queueVars, brokerVars,
                      QueueMove
<1>13. CASE BrokerNext
  BY <1>4, <1>5, <1>13, Zenon DEF BrokerNext
<1>14. CASE ForwarderNext
  BY <1>6, <1>7, <1>8, <1>14, Zenon DEF ForwarderNext
<1>15. CASE LoopNext
  BY <1>2, <1>8, <1>9, <1>10, <1>11, <1>12, <1>15, Zenon DEF LoopNext
<1> QED BY <1>1, <1>2, <1>3, <1>13, <1>14, <1>15, Zenon DEF Next

\* What the numbers in the queue become.
LEMMA PendingAppend ==
    ASSUME reqs \in Seq(BrokerRequests), NEW p \in Requesters, NEW k \in Nat, Request(p, k)
    PROVE  reqs' \in Seq(BrokerRequests) /\ Pending' = Append(Pending, k)
<1> DEFINE r == [p |-> p, cmd |-> k]
<1>1. r \in BrokerRequests /\ r.cmd = k
  BY DEF BrokerRequests
<1> HIDE DEF r
<1>2. reqs' = Append(reqs, r)
  BY Zenon DEF Request, r
<1>3. /\ reqs' \in Seq(BrokerRequests) /\ Len(reqs') = Len(reqs) + 1 /\ Len(reqs) \in Nat
      /\ \A i \in 1 .. Len(reqs) : reqs'[i] = reqs[i]
      /\ reqs'[Len(reqs) + 1] = r
  <2>1. Len(reqs) \in Nat
    BY SeqIsFunction, Zenon
  <2>2. /\ Append(reqs, r) \in Seq(BrokerRequests)
        /\ Len(Append(reqs, r)) = Len(reqs) + 1
        /\ \A i \in 1 .. Len(reqs) : Append(reqs, r)[i] = reqs[i]
        /\ Append(reqs, r)[Len(reqs) + 1] = r
    BY <1>1
  <2> QED BY <1>2, <2>1, <2>2, Zenon
<1>4. Pending' = [i \in 1 .. Len(reqs) + 1 |-> reqs'[i].cmd]
  BY <1>3, Zenon DEF Pending
<1>5. Pending \in Seq(Nat) /\ Len(Pending) = Len(reqs)
      /\ \A i \in 1 .. Len(reqs) : Pending[i] = reqs[i].cmd
  <2>1. \A i \in 1 .. Len(reqs) : reqs[i].cmd \in Nat
    <3>1. \A x \in BrokerRequests : x.cmd \in Nat
      BY DEF BrokerRequests
    <3>2. \A i \in 1 .. Len(reqs) : reqs[i] \in BrokerRequests
      BY AppendTail, Zenon
    <3> QED BY <3>1, <3>2, Zenon
  <2> QED BY <1>3, <2>1 DEF Pending
<1>6. /\ Append(Pending, k) \in Seq(Nat)
      /\ Len(Append(Pending, k)) = Len(reqs) + 1
      /\ \A i \in 1 .. Len(reqs) : Append(Pending, k)[i] = reqs[i].cmd
      /\ Append(Pending, k)[Len(reqs) + 1] = k
  <2>1. /\ Append(Pending, k) \in Seq(Nat)
        /\ Len(Append(Pending, k)) = Len(Pending) + 1
        /\ \A i \in 1 .. Len(Pending) : Append(Pending, k)[i] = Pending[i]
        /\ Append(Pending, k)[Len(Pending) + 1] = k
    <3>1. Pending \in Seq(Nat)
      BY <1>5, Zenon
    <3> QED BY <3>1
  <2> QED BY <1>5, <2>1, Zenon
<1>7. \A i \in 1 .. Len(reqs) + 1 : reqs'[i].cmd = Append(Pending, k)[i]
  <2>1. \A i \in 1 .. Len(reqs) + 1 : i \in 1 .. Len(reqs) \/ i = Len(reqs) + 1
    BY <1>3
  <2> QED BY <1>1, <1>3, <1>6, <2>1, Zenon
<1>8. Append(Pending, k) = [i \in 1 .. Len(reqs) + 1 |-> Append(Pending, k)[i]]
  BY <1>6, SeqIsFunction, Zenon
<1> QED BY <1>3, <1>4, <1>7, <1>8, Zenon

LEMMA PendingTail ==
    ASSUME reqs \in Seq(BrokerRequests), reqs # <<>>, reqs' = Tail(reqs)
    PROVE  /\ reqs' \in Seq(BrokerRequests) /\ Pending' = Tail(Pending)
           /\ Pending # <<>> /\ Head(Pending) = Head(reqs).cmd
<1>1. /\ reqs' \in Seq(BrokerRequests) /\ Len(reqs') = Len(reqs) - 1 /\ Len(reqs) \in Nat
      /\ \A i \in 1 .. Len(reqs) - 1 : reqs'[i] = reqs[i + 1]
      /\ Head(reqs) = reqs[1] /\ Len(reqs) > 0
  BY AppendTail, Zenon
<1>2. Pending \in Seq(Nat) /\ Len(Pending) = Len(reqs)
      /\ \A i \in 1 .. Len(reqs) : Pending[i] = reqs[i].cmd
  <2>1. \A i \in 1 .. Len(reqs) : reqs[i].cmd \in Nat
    <3>1. \A x \in BrokerRequests : x.cmd \in Nat
      BY DEF BrokerRequests
    <3>2. \A i \in 1 .. Len(reqs) : reqs[i] \in BrokerRequests
      BY AppendTail, Zenon
    <3> QED BY <3>1, <3>2, Zenon
  <2> QED BY <1>1, <2>1 DEF Pending
<1>3. Pending # <<>> /\ 1 \in 1 .. Len(reqs)
  BY <1>1, <1>2
<1>4. /\ Tail(Pending) \in Seq(Nat) /\ Len(Tail(Pending)) = Len(reqs) - 1
      /\ \A i \in 1 .. Len(reqs) - 1 : Tail(Pending)[i] = Pending[i + 1]
      /\ Head(Pending) = Pending[1]
  <2>1. Pending \in Seq(Nat) /\ Pending # <<>>
    BY <1>2, <1>3, Zenon
  <2>2. /\ Tail(Pending) \in Seq(Nat) /\ Len(Tail(Pending)) = Len(Pending) - 1
        /\ \A i \in 1 .. Len(Pending) - 1 : Tail(Pending)[i] = Pending[i + 1]
        /\ Head(Pending) = Pending[1]
    BY <2>1, AppendTail, Zenon
  <2> QED BY <1>2, <2>2, Zenon
<1>5. Pending' = [i \in 1 .. Len(reqs) - 1 |-> reqs'[i].cmd]
  BY <1>1, Zenon DEF Pending
<1>6. \A i \in 1 .. Len(reqs) - 1 : reqs'[i].cmd = Tail(Pending)[i]
  <2>1. \A i \in 1 .. Len(reqs) - 1 : i + 1 \in 1 .. Len(reqs)
    BY <1>1
  <2> QED BY <1>1, <1>2, <1>4, <2>1, Zenon
<1>7. Tail(Pending) = [i \in 1 .. Len(reqs) - 1 |-> Tail(Pending)[i]]
  BY <1>4, SeqIsFunction, Zenon
<1> QED BY <1>1, <1>2, <1>3, <1>4, <1>5, <1>6, <1>7, Zenon

LEMMA QueueStep == ASSUME QueueInv, QueueMove PROVE QueueInv'
<1> USE DEF QueueInv
<1>0. /\ reqs \in Seq(BrokerRequests) /\ Queue(handed, cmdCh, Pending, log)
      /\ "fw" \in Requesters /\ "loop" \in Requesters /\ 0 \in Nat
  BY DEF Requesters
<1>1. CASE UNCHANGED reqs /\ HandOver /\ UNCHANGED log
  <2>1. Pending' = Pending
    BY <1>1, Zenon DEF Pending
  <2> QED BY <1>0, <1>1, <2>1, QueueHandOver, Zenon DEF HandOver
<1>2. CASE /\ cmdCh # <<>> /\ cmdCh' = Tail(cmdCh) /\ Request("fw", Head(cmdCh))
           /\ UNCHANGED <<handed, log>>
  <2>1. Head(cmdCh) \in Nat
    BY <1>0, <1>2, QueueTypes, AppendTail, Zenon
  <2> QED BY <1>0, <1>2, <2>1, PendingAppend, QueueForward, Zenon
<1>3. CASE /\ reqs # <<>> /\ reqs' = Tail(reqs)
           /\ UNCHANGED <<cmdCh, handed>>
           /\ log' \in {log, IF Head(reqs).cmd = 0 THEN log
                                                   ELSE Append(log, Head(reqs).cmd)}
  <2>1. /\ reqs' \in Seq(BrokerRequests) /\ Pending' = Tail(Pending)
        /\ Pending # <<>> /\ Head(Pending) = Head(reqs).cmd
    BY <1>0, <1>3, PendingTail, Zenon
  <2> QED BY <1>0, <1>3, <2>1, QueueWrite, Zenon
<1>4. CASE UNCHANGED <<cmdCh, handed, log, reqs>>
  BY <1>0, <1>4, Zenon DEF Pending
<1>5. CASE UNCHANGED <<cmdCh, handed, log>> /\ Relabelled
  <2>1. Pending' = Pending
    BY <1>5, Zenon DEF Pending, Relabelled
  <2> QED BY <1>0, <1>5, <2>1, Zenon DEF Relabelled
<1>6. CASE UNCHANGED <<cmdCh, handed, log>> /\ Request("loop", 0)
  BY <1>0, <1>6, PendingAppend, QueueAsk, Zenon
<1>7. CASE UNCHANGED <<cmdCh, handed, log>> /\ reqs' = <<>>
  <2>1. reqs' \in Seq(BrokerRequests) /\ Pending' = <<>>
    BY <1>7 DEF Pending
  <2> QED BY <1>0, <1>7, <2>1, QueueDrop, Zenon
<1> QED BY <1>1, <1>2, <1>3, <1>4, <1>5, <1>6, <1>7, Zenon DEF QueueMove

-----------------------------------------------------------------------------
(* Responses on the wire. *)

Responses(w) == {i \in DOMAIN w : w[i] = "resp"}

LEMMA CountType ==
    ASSUME NEW w \in Seq(Lines)
    PROVE  IsFiniteSet(Responses(w)) /\ Cardinality(Responses(w)) \in Nat
<1>1. 1 .. Len(w) = DOMAIN w /\ Len(w) \in Int /\ 1 \in Int
  OBVIOUS
<1>2. IsFiniteSet(DOMAIN w)
  BY <1>1, FS_Interval, Zenon
<1>3. Responses(w) \in SUBSET DOMAIN w
  BY Zenon DEF Responses
<1> QED BY <1>2, <1>3, FS_Subset, FS_CardinalityType, Zenon

LEMMA CountEmpty == Cardinality(Responses(<<>>)) = 0
<1>1. Responses(<<>>) = {}
  BY DEF Responses
<1> QED BY <1>1, FS_EmptySet, Zenon

LEMMA CountAppend ==
    ASSUME NEW w \in Seq(Lines), NEW x \in Lines
    PROVE  Cardinality(Responses(Append(w, x)))
              = Cardinality(Responses(w)) + (IF x = "resp" THEN 1 ELSE 0)
<1>1. /\ Len(w) + 1 \notin Responses(w)
      /\ x = "resp" => Responses(Append(w, x)) = Responses(w) \cup {Len(w) + 1}
      /\ x # "resp" => Responses(Append(w, x)) = Responses(w)
  BY DEF Responses
<1>2. IsFiniteSet(Responses(w)) /\ Cardinality(Responses(w)) \in Nat
  BY CountType, Zenon
<1>3. Cardinality(Responses(w) \cup {Len(w) + 1}) = Cardinality(Responses(w)) + 1
  BY <1>1, <1>2, FS_AddElement, Zenon
<1>4. Cardinality(Responses(w)) = Cardinality(Responses(w)) + 0
  BY <1>2
<1> QED BY <1>1, <1>3, <1>4, Zenon

LEMMA CountTail ==
    ASSUME NEW w \in Seq(Lines), w # <<>>
    PROVE  Cardinality(Responses(w))
              = Cardinality(Responses(Tail(w))) + (IF Head(w) = "resp" THEN 1 ELSE 0)
<1> DEFINE T == Responses(Tail(w))
           R == Responses(w) \ {1}
           f == [i \in T |-> i + 1]
<1>0. /\ Tail(w) \in Seq(Lines) /\ Len(Tail(w)) = Len(w) - 1 /\ Len(w) \in Nat
      /\ Len(w) > 0
      /\ \A i \in 1 .. Len(w) - 1 : Tail(w)[i] = w[i + 1]
      /\ Head(w) = w[1] /\ DOMAIN w = 1 .. Len(w)
      /\ DOMAIN Tail(w) = 1 .. Len(w) - 1
  BY AppendTail
<1>1. IsFiniteSet(T) /\ Cardinality(T) \in Nat
  BY <1>0, CountType, Zenon
<1>2. T = {i \in 1 .. Len(w) - 1 : w[i + 1] = "resp"}
  BY <1>0 DEF Responses
<1>3. R = {i \in 1 .. Len(w) : w[i] = "resp" /\ i # 1}
  BY <1>0 DEF Responses
<1> HIDE DEF T, R
<1>4. ExistsBijection(T, R)
  <2>1. f \in [T -> R]
    BY <1>0, <1>2, <1>3
  <2>2. DOMAIN f = T /\ \A a, b \in T : f[a] = f[b] => a = b
    BY <1>0, <1>2
  <2>3. \A y \in R : y - 1 \in T /\ f[y - 1] = y
    BY <1>0, <1>2, <1>3
  <2>4. \A y \in R : \E a \in T : f[a] = y
    BY <2>3, Zenon
  <2> HIDE DEF f
  <2>5. f \in Injection(T, R)
    BY <2>1, <2>2, Zenon DEF Injection, IsInjective
  <2>6. f \in Surjection(T, R)
    BY <2>1, <2>4, Zenon DEF Surjection
  <2> QED BY <2>5, <2>6, Zenon DEF ExistsBijection, Bijection
<1>5. Cardinality(R) = Cardinality(T) /\ IsFiniteSet(R)
  BY <1>1, <1>4, FS_Bijection, Zenon
<1>6. ASSUME Head(w) = "resp" PROVE Cardinality(Responses(w)) = Cardinality(T) + 1
  <2>1. Responses(w) = R \cup {1} /\ 1 \notin R
    BY <1>0, <1>6 DEF Responses, R
  <2> QED BY <1>5, <2>1, FS_AddElement, Zenon
<1>7. ASSUME Head(w) # "resp" PROVE Cardinality(Responses(w)) = Cardinality(T) + 0
  <2>1. Responses(w) = R
    BY <1>0, <1>7 DEF Responses, R
  <2>2. Cardinality(T) = Cardinality(T) + 0
    BY <1>1
  <2> QED BY <1>5, <2>1, <2>2, Zenon
<1> QED BY <1>6, <1>7, Zenon DEF T

-----------------------------------------------------------------------------
(* What a step does to the responses outstanding. *)

Count == Cardinality(Responses(wire))

\* InSync when all that is known is how many there are.
Sync(b, n) == /\ b = "idle" => n = 0
              /\ b = "exec" => n <= 1

LEMMA InSyncIs ==
    /\ InSync = (~noisy => Sync(brk, ovin + respLine + Count))
    /\ InSync' = (~noisy' => Sync(brk', ovin' + respLine' + Cardinality(Responses(wire'))))
  BY Zenon DEF InSync, Sync, Outstanding, Count, Responses

\* The numbers the broker and OpenVPN work on.
SyncMove ==
    \/ UNCHANGED <<ovin, respLine, wire, brk, noisy>>
    \* OpenVPN
    \/ /\ ovin > 0 /\ ovin' = ovin - 1 /\ wire' = Append(wire, "resp")
       /\ UNCHANGED <<respLine, brk, noisy>>
    \/ /\ \E n \in Notifications : wire' = Append(wire, n)
       /\ UNCHANGED <<ovin, respLine, brk, noisy>>
    \/ /\ noisy' /\ wire' = Append(wire, "resp") /\ UNCHANGED <<ovin, respLine, brk>>
    \/ /\ wire' = <<>> /\ UNCHANGED <<ovin, respLine, brk, noisy>>
    \* the reader
    \/ /\ wire # <<>> /\ wire' = Tail(wire)
       /\ \/ Head(wire) = "resp" /\ respLine' = respLine + 1
          \/ Head(wire) \in Notifications /\ UNCHANGED respLine
       /\ UNCHANGED <<ovin, brk, noisy>>
    \* the broker
    \/ /\ brk = "idle" /\ brk' = "exec" /\ ovin' = ovin + 1
       /\ UNCHANGED <<respLine, wire, noisy>>
    \/ /\ brk = "exec" /\ brk' = "idle" /\ respLine > 0 /\ respLine' = respLine - 1
       /\ UNCHANGED <<ovin, wire, noisy>>
    \/ /\ brk' = "done" /\ UNCHANGED <<ovin, wire, noisy>>
       /\ UNCHANGED respLine \/ (respLine > 0 /\ respLine' = respLine - 1)
    \* a new connection
    \/ ovin' = 0 /\ respLine' = 0 /\ wire' = <<>> /\ brk' = "idle"

LEMMA SyncMoves == ASSUME [Next]_vars PROVE SyncMove
<1>1. CASE UNCHANGED vars
  BY <1>1, Zenon DEF vars, SyncMove
<1>2. CASE SendCommand \/ LoopSends \/ Signal \/ CloseClient \/ DrainEnds
  BY <1>2, Zenon DEF SendCommand, LoopSends, Signal, CloseClient, DrainEnds, brokerVars,
                     socketVars, notifVars, SyncMove
<1>3. CASE VpnAnswers \/ VpnNotifies \/ SocketBreaks
  BY <1>3, Zenon DEF VpnAnswers, VpnNotifies, SocketBreaks, brokerVars, notifVars, SyncMove
<1>4. CASE ReadLine \/ ReadFails
  BY <1>4, Zenon DEF ReadLine, ReadFails, brokerVars, notifVars, SyncMove
<1>5. CASE BrokerStart \/ BrokerAnswers
  BY <1>5, Zenon DEF BrokerStart, BrokerAnswers, notifVars, SyncMove
<1>6. CASE BrokerFails \/ BrokerUnexpected \/ BrokerCancelled
  BY <1>6, Zenon DEF BrokerFails, NoResponse, BadResponse, BrokerUnexpected,
                     BrokerCancelled, notifVars, socketVars, SyncMove
<1>7. CASE ForwarderTakes \/ ForwarderDone \/ ForwarderFails \/ ForwarderExits
  BY <1>7, Zenon DEF ForwarderTakes, ForwarderDone, ForwarderFails, ForwarderExits,
                     RequestFails, Result, GivesUp, brokerVars, socketVars, notifVars,
                     SyncMove
<1>8. CASE BootHold \/ BootStatus \/ BootCompletes \/ BootFails \/ BootEvicts
  BY <1>8, Zenon DEF BootHold, BootStatus, BootCompletes, BootFails, BootEvicts,
                     RequestFails, Result, GivesUp, brokerVars, socketVars, notifVars,
                     SyncMove
<1>9. CASE LoopReplays \/ LoopTakes \/ LoopSendDropped \/ LoopAcked \/ LoopAckFails
  BY <1>9, Zenon DEF LoopReplays, LoopTakes, LoopSendDropped, LoopAcked, LoopAckFails,
                     brokerVars, socketVars, notifVars, SyncMove
<1>10. CASE LoopStatusReturns \/ LoopReturns
  BY <1>10, Zenon DEF LoopStatusReturns, LoopReturns, Result, GivesUp, brokerVars,
                      socketVars, notifVars, SyncMove
<1>11. CASE Reconnect
  BY <1>11, Zenon DEF Reconnect, Fresh, SyncMove
<1>12. CASE BrokerNext
  BY <1>5, <1>6, <1>12, Zenon DEF BrokerNext
<1>13. CASE ForwarderNext
  BY <1>7, <1>13, Zenon DEF ForwarderNext
<1>14. CASE LoopNext
  BY <1>2, <1>8, <1>9, <1>10, <1>11, <1>14, Zenon DEF LoopNext
<1> QED BY <1>1, <1>2, <1>3, <1>4, <1>12, <1>13, <1>14, Zenon DEF Next, ReaderNext

LEMMA SyncStep == ASSUME SyncTypes, InSync, SyncMove PROVE SyncTypes' /\ InSync'
<1> DEFINE n == Count
           m == Cardinality(Responses(wire'))
<1>0. /\ ovin \in Nat /\ respLine \in Nat /\ wire \in Seq(Lines) /\ n \in Nat
      /\ ~noisy => Sync(brk, ovin + respLine + n)
      /\ "resp" \in Lines /\ Notifications \subseteq Lines /\ "resp" \notin Notifications
  BY CountType, InSyncIs, Zenon DEF SyncTypes, Count, Lines, Notifications
<1>1. ASSUME ovin' \in Nat, respLine' \in Nat, wire' \in Seq(Lines),
             ~noisy' => Sync(brk', ovin' + respLine' + m)
      PROVE  SyncTypes' /\ InSync'
  BY <1>1, InSyncIs, Zenon DEF SyncTypes
<1>2. /\ wire' = wire => wire' \in Seq(Lines) /\ m = n
      /\ wire' = <<>> => wire' \in Seq(Lines) /\ m = 0
      /\ wire' = Append(wire, "resp") => wire' \in Seq(Lines) /\ m = n + 1
      /\ (\E x \in Notifications : wire' = Append(wire, x))
            => wire' \in Seq(Lines) /\ m = n + 0
      /\ wire # <<>> /\ wire' = Tail(wire)
            => /\ wire' \in Seq(Lines)
               /\ Head(wire) = "resp" => n = m + 1
               /\ Head(wire) \in Notifications => n = m + 0
  <2>1. <<>> \in Seq(Lines)
    OBVIOUS
  <2>2. /\ \A x \in Lines : Append(wire, x) \in Seq(Lines)
        /\ wire # <<>> => Tail(wire) \in Seq(Lines)
    BY <1>0, AppendTail, Zenon
  <2>3. wire' = Append(wire, "resp") => m = n + 1
    BY <1>0, CountAppend, Zenon DEF Count
  <2>4. (\E x \in Notifications : wire' = Append(wire, x)) => m = n + 0
    BY <1>0, CountAppend, Zenon DEF Count
  <2>5. wire # <<>> /\ wire' = Tail(wire)
            => /\ Head(wire) = "resp" => n = m + 1
               /\ Head(wire) \in Notifications => n = m + 0
    BY <1>0, CountTail, Zenon DEF Count
  <2> QED BY <1>0, <2>1, <2>2, <2>3, <2>4, <2>5, CountEmpty, Zenon DEF Count
<1>3. m \in Nat \/ wire' \notin Seq(Lines)
  BY CountType, Zenon
<1> HIDE DEF n, m
<1>4. CASE UNCHANGED <<ovin, respLine, wire, brk, noisy>>
  BY <1>0, <1>1, <1>2, <1>4, Zenon
<1>5. CASE /\ ovin > 0 /\ ovin' = ovin - 1 /\ wire' = Append(wire, "resp")
           /\ UNCHANGED <<respLine, brk, noisy>>
  <2>1. ovin' \in Nat /\ ovin' + respLine' + m = ovin + respLine + n
    BY <1>0, <1>2, <1>5
  <2> QED BY <1>0, <1>1, <1>2, <1>5, <2>1, Zenon
<1>6. CASE /\ \E x \in Notifications : wire' = Append(wire, x)
           /\ UNCHANGED <<ovin, respLine, brk, noisy>>
  <2>1. n + 0 = n
    BY <1>0
  <2> QED BY <1>0, <1>1, <1>2, <1>6, <2>1, Zenon
<1>7. CASE noisy' /\ wire' = Append(wire, "resp") /\ UNCHANGED <<ovin, respLine, brk>>
  BY <1>0, <1>1, <1>2, <1>7, Zenon
<1>8. CASE wire' = <<>> /\ UNCHANGED <<ovin, respLine, brk, noisy>>
  <2>1. /\ ovin + respLine + n = 0 => ovin + respLine + 0 = 0
        /\ ovin + respLine + n <= 1 => ovin + respLine + 0 <= 1
    BY <1>0
  <2> QED BY <1>0, <1>1, <1>2, <1>8, <2>1, Zenon DEF Sync
<1>9. CASE /\ wire # <<>> /\ wire' = Tail(wire)
           /\ \/ Head(wire) = "resp" /\ respLine' = respLine + 1
              \/ Head(wire) \in Notifications /\ UNCHANGED respLine
           /\ UNCHANGED <<ovin, brk, noisy>>
  <2>1. m \in Nat
    BY <1>2, <1>3, <1>9, Zenon
  <2>2. /\ n = m + 1 => ovin + (respLine + 1) + m = ovin + respLine + n
        /\ n = m + 0 => n = m
        /\ respLine + 1 \in Nat
    BY <1>0, <2>1
  <2> QED BY <1>0, <1>1, <1>2, <1>9, <2>2, Zenon
<1>10. CASE /\ brk = "idle" /\ brk' = "exec" /\ ovin' = ovin + 1
            /\ UNCHANGED <<respLine, wire, noisy>>
  <2>1. /\ ovin + respLine + n = 0 => (ovin + 1) + respLine + n <= 1
        /\ ovin + 1 \in Nat /\ "exec" # "idle"
    BY <1>0
  <2> QED BY <1>0, <1>1, <1>2, <1>10, <2>1, Zenon DEF Sync
<1>11. CASE /\ brk = "exec" /\ brk' = "idle" /\ respLine > 0 /\ respLine' = respLine - 1
            /\ UNCHANGED <<ovin, wire, noisy>>
  <2>1. /\ ovin + respLine + n <= 1 => ovin + (respLine - 1) + n = 0
        /\ respLine - 1 \in Nat /\ "exec" # "idle"
    BY <1>0, <1>11
  <2> QED BY <1>0, <1>1, <1>2, <1>11, <2>1, Zenon DEF Sync
<1>12. CASE /\ brk' = "done" /\ UNCHANGED <<ovin, wire, noisy>>
            /\ UNCHANGED respLine \/ (respLine > 0 /\ respLine' = respLine - 1)
  <2>1. /\ respLine > 0 => respLine - 1 \in Nat
        /\ "done" # "idle" /\ "done" # "exec"
    BY <1>0
  <2> QED BY <1>0, <1>1, <1>2, <1>12, <2>1, Zenon DEF Sync
<1>13. CASE ovin' = 0 /\ respLine' = 0 /\ wire' = <<>> /\ brk' = "idle"
  <2>1. 0 + 0 + 0 = 0 /\ 0 \in Nat /\ "idle" # "exec"
    OBVIOUS
  <2> QED BY <1>1, <1>2, <1>13, <2>1, Zenon DEF Sync
<1> QED BY <1>4, <1>5, <1>6, <1>7, <1>8, <1>9, <1>10, <1>11, <1>12, <1>13, Zenon
        DEF SyncMove

-----------------------------------------------------------------------------

LEMMA BrokerInvInit == Init => BrokerInv
<1> SUFFICES ASSUME Init PROVE BrokerInv
  OBVIOUS
<1>1. /\ <<>> \in Seq(BrokerRequests) /\ <<>> \in Seq(Lines) /\ 0 \in Nat /\ 0 + 0 + 0 = 0
      /\ \A S : <<>> \in Seq(S)
      /\ \A i \in 1 .. Len(<<>>) : FALSE
      /\ "idle" # "exec"
  OBVIOUS
<1>2. Pending = <<>>
  BY DEF Init, Pending
<1>3. Rises(<<>>) /\ Below(<<>>, <<>>)
  BY <1>1, Zenon DEF Rises, Below
<1>4. QueueInv
  BY <1>1, <1>2, <1>3, Zenon DEF Init, QueueInv, Queue
<1>5. Sync(brk, ovin + respLine + Count)
  BY <1>1, CountEmpty, Zenon DEF Init, Sync, Count
<1>6. SyncTypes /\ InSync
  BY <1>1, <1>5, InSyncIs, Zenon DEF Init, SyncTypes
<1> QED BY <1>4, <1>6, Zenon DEF BrokerInv

LEMMA BrokerInvStep == BrokerInv /\ [Next]_vars => BrokerInv'
  BY QueueMoves, QueueStep, SyncMoves, SyncStep, Zenon DEF BrokerInv

\* Commands are written in the order of their hand-over and none twice, across
\* failed commands, senders that give up and reconnects, since the forwarder
\* never puts a command back (commandBrokerForwarder).
THEOREM OrderedOnceHolds == Spec => []OrderedOnce
<1>1. BrokerInv => OrderedOnce
  <2> SUFFICES ASSUME Rises(log), log \in Seq(1 .. handed), handed \in Nat
               PROVE  OrderedOnce
    BY Zenon DEF BrokerInv, QueueInv, Queue
  <2>1. \A j \in 1 .. Len(log) : log[j] # 0
    <3>1. \A j \in 1 .. Len(log) : log[j] \in 1 .. handed
      BY AppendTail, Zenon
    <3> QED BY <3>1
  <2> QED BY <2>1, Zenon DEF Rises, OrderedOnce
<1> QED BY <1>1, BrokerInvInit, BrokerInvStep, PTL DEF Spec

\* A response always belongs to the command the broker is executing: a command
\* given up after 5s finishes the broker, and a new connection starts with
\* nothing outstanding (execute, run, finish).
THEOREM InSyncHolds == Spec => []InSync
<1>1. BrokerInv => InSync
  BY Zenon DEF BrokerInv
<1> QED BY <1>1, BrokerInvInit, BrokerInvStep, PTL DEF Spec

-----------------------------------------------------------------------------
(* Types.  What BrokerInv does not say: control, counters and capacities. *)

Control ==
    /\ phase \in {"run", "draining", "exited"}
    /\ ctx \in {"live", "cancelled"} /\ sock \in {"open", "broken"}
    /\ loop \in LoopPcs
    /\ fw \in {"none", "idle", "waiting", "exited"}
    /\ brk \in {"idle", "exec", "done"}
    /\ readErr \in BOOLEAN /\ noisy \in BOOLEAN

Owners ==
    /\ cur \in Requesters \cup {"none"}
    /\ reqs \in Seq(BrokerRequests)
    /\ reply \in [Requesters -> {"none", "ok", "err"}]
    /\ ack \in {"none", "ok", "err"}

Counters ==
    /\ conn \in 1 .. MaxConns /\ emitted \in 0 .. MaxEvents
    /\ evictions \in 0 .. 1 /\ buffered \in Nat

Commands == handed \in Nat /\ awaited \in 0 .. handed /\ fwcmd \in 0 .. handed

Room ==
    /\ Len(cmdCh) <= QueueCap
    /\ notif \in Seq(Notifications) /\ Len(notif) <= NotifCap

TypeInv == BrokerInv /\ Control /\ Owners /\ Counters /\ Commands /\ Room

LEMMA ControlStep == ASSUME Control, [Next]_vars PROVE Control'
<1> USE DEF Control, connVars, socketVars, notifVars, fwVars, brokerVars
<1>0. /\ "boot" \in LoopPcs /\ "boot1" \in LoopPcs /\ "boot2" \in LoopPcs
      /\ "idle" \in LoopPcs /\ "returned" \in LoopPcs /\ "hold" \in LoopPcs
      /\ "killack" \in LoopPcs /\ "evictack" \in LoopPcs
      /\ "status" \in LoopPcs /\ "evictstatus" \in LoopPcs
      /\ \A x \in {"evict", "idle"} : x \in LoopPcs
      /\ \A x \in {"send", "kill"} : x \in LoopPcs
  BY DEF LoopPcs, SendPcs, AckPcs, RequestPcs
<1>1. CASE UNCHANGED vars
  BY <1>1, Zenon DEF vars
<1>2. CASE SendCommand \/ VpnAnswers \/ VpnNotifies \/ SocketBreaks \/ ReaderNext \/ Signal
  BY <1>2, Zenon DEF SendCommand, VpnAnswers, VpnNotifies, SocketBreaks, ReaderNext,
                     ReadLine, ReadFails, Signal
<1>3. CASE BrokerNext
  BY <1>3, Zenon DEF BrokerNext, BrokerStart, BrokerAnswers, BrokerFails,
                     BrokerUnexpected, BrokerCancelled
<1>4. CASE ForwarderNext
  BY <1>4, Zenon DEF ForwarderNext, ForwarderTakes, ForwarderDone, ForwarderFails,
                     ForwarderExits, Result, RequestFails, GivesUp
<1>5. CASE BootHold \/ BootStatus \/ BootCompletes \/ BootFails \/ BootEvicts
  BY <1>0, <1>5, Zenon DEF BootHold, BootStatus, BootCompletes, BootFails, BootEvicts,
                           ConnReturn, Result, RequestFails, GivesUp
<1>6. CASE LoopReplays \/ LoopTakes
  BY <1>0, <1>6, Zenon DEF LoopReplays, LoopTakes, HandlesEvent
<1>7. CASE LoopSends
  BY <1>0, <1>7, Zenon DEF LoopSends
<1>8. CASE LoopSendDropped \/ LoopAcked \/ LoopAckFails
  BY <1>0, <1>8, Zenon DEF LoopSendDropped, LoopAcked, LoopAckFails, KillFails
<1>9. CASE LoopStatusReturns
  BY <1>0, <1>9, Zenon DEF LoopStatusReturns, Result, GivesUp
<1>10. CASE LoopReturns \/ CloseClient \/ Reconnect \/ DrainEnds
  BY <1>0, <1>10, Zenon DEF LoopReturns, ConnReturn, CloseClient, Reconnect, Fresh, DrainEnds
<1>11. CASE LoopNext
  BY <1>5, <1>6, <1>7, <1>8, <1>9, <1>10, <1>11, Zenon DEF LoopNext
<1> QED BY <1>1, <1>2, <1>3, <1>4, <1>11, Zenon DEF Next

\* The broker and the requesters only pass on results and requesters.
LEMMA Delivered ==
    ASSUME Owners, NEW p \in Requesters \cup {"none"}, NEW r \in {"none", "ok", "err"}
    PROVE  /\ Deliver(p, r) => reply' \in [Requesters -> {"none", "ok", "err"}]
           /\ reply' = [reply EXCEPT ![p] = r] => reply' \in [Requesters -> {"none", "ok", "err"}]
  BY Zenon DEF Owners, Deliver

LEMMA Withdrawn ==
    ASSUME Owners, NEW p \in Requesters,
           \/ RequestFails(p) \/ Result(p, "ok") \/ Result(p, "err") \/ GivesUp(p)
    PROVE  /\ cur' \in Requesters \cup {"none"}
           /\ reply' \in [Requesters -> {"none", "ok", "err"}]
  BY Delivered, Zenon DEF Owners, RequestFails, Result, GivesUp

LEMMA OwnersStep == ASSUME QueueInv, QueueInv', Owners, [Next]_vars PROVE Owners'
<1> DEFINE R == [Requesters -> {"none", "ok", "err"}]
           P == Requesters \cup {"none"}
           A == {"none", "ok", "err"}
<1>0. /\ cur \in P /\ reply \in R /\ ack \in A /\ reqs' \in Seq(BrokerRequests)
      /\ "fw" \in Requesters /\ "loop" \in Requesters /\ "none" \in P
      /\ "none" \in A /\ "ok" \in A /\ "err" \in A
  BY DEF Owners, QueueInv, Requesters
<1> SUFFICES cur' \in P /\ reply' \in R /\ ack' \in A
  BY <1>0, Zenon DEF Owners
<1>1. CASE UNCHANGED vars
  BY <1>0, <1>1, Zenon DEF vars
<1>2. CASE SendCommand \/ VpnAnswers \/ VpnNotifies \/ SocketBreaks \/ ReaderNext \/ Signal
  BY <1>0, <1>2, Zenon DEF SendCommand, VpnAnswers, VpnNotifies, SocketBreaks, ReaderNext,
                     ReadLine, ReadFails, Signal, brokerVars, ackVars
<1>3. CASE BrokerStart
  <2>1. CASE sock = "open" /\ cur' = Head(reqs).p /\ UNCHANGED reply /\ reqs # <<>>
    <3>1. Head(reqs) \in BrokerRequests
      BY <1>0, <2>1, AppendTail, Zenon DEF Owners
    <3>2. Head(reqs).p \in P
      BY <3>1 DEF BrokerRequests
    <3> QED BY <1>0, <1>3, <2>1, <3>2, Zenon DEF BrokerStart, ackVars
  <2>2. CASE UNCHANGED cur /\ Deliver(Head(reqs).p, "err") /\ reqs # <<>>
    <3>1. Head(reqs) \in BrokerRequests
      BY <1>0, <2>2, AppendTail, Zenon DEF Owners
    <3>2. Head(reqs).p \in P
      BY <3>1 DEF BrokerRequests
    <3> QED BY <1>0, <1>3, <2>2, <3>2, Delivered, Zenon DEF BrokerStart, ackVars
  <2> QED BY <1>3, <2>1, <2>2, Zenon DEF BrokerStart
<1>4. CASE BrokerAnswers \/ BrokerFails \/ BrokerUnexpected \/ BrokerCancelled
  BY <1>0, <1>4, Delivered, Zenon
     DEF BrokerAnswers, BrokerFails, BrokerUnexpected, BrokerCancelled, ackVars
<1>5. CASE ForwarderTakes \/ ForwarderExits
  BY <1>0, <1>5, Zenon DEF ForwarderTakes, ForwarderExits, ackVars, brokerVars
<1>6. CASE ForwarderDone \/ ForwarderFails
  BY <1>0, <1>6, Withdrawn, Zenon DEF ForwarderDone, ForwarderFails, Acknowledge
<1>7. CASE BootHold \/ BootEvicts \/ LoopReplays \/ LoopTakes \/ LoopSendDropped
  BY <1>0, <1>7, Zenon DEF BootHold, BootEvicts, LoopReplays, LoopTakes, LoopSendDropped,
                           ackVars, brokerVars
<1>8. CASE BootStatus
  BY <1>0, <1>8, Delivered, Zenon DEF BootStatus, ackVars
<1>9. CASE BootCompletes \/ BootFails \/ LoopStatusReturns
  BY <1>0, <1>9, Withdrawn, Zenon DEF BootCompletes, BootFails, LoopStatusReturns, ackVars
<1>10. CASE LoopSends \/ LoopAcked \/ LoopAckFails \/ LoopReturns \/ CloseClient \/ DrainEnds
  BY <1>0, <1>10, Zenon DEF LoopSends, LoopAcked, LoopAckFails, LoopReturns, CloseClient,
                            DrainEnds, ackVars, brokerVars
<1>11. CASE Reconnect
  BY <1>0, <1>11, Zenon DEF Reconnect, Fresh
<1>12. CASE LoopNext
  BY <1>7, <1>8, <1>9, <1>10, <1>11, <1>12, Zenon DEF LoopNext
<1> QED BY <1>1, <1>2, <1>3, <1>4, <1>5, <1>6, <1>12, Zenon DEF Next, BrokerNext, ForwarderNext

LEMMA CountersStep == ASSUME Counters, Room, [Next]_vars PROVE Counters'
<1> USE DEF connVars, notifVars
<1>0. /\ conn \in 1 .. MaxConns /\ emitted \in 0 .. MaxEvents /\ evictions \in 0 .. 1
      /\ buffered \in Nat /\ MaxConns \in Nat /\ MaxEvents \in Nat
      /\ 0 \in 0 .. 1 /\ 0 \in Nat
      /\ buffered > 0 => buffered - 1 \in Nat
      /\ emitted < MaxEvents => emitted + 1 \in 0 .. MaxEvents
      /\ conn < MaxConns => conn + 1 \in 1 .. MaxConns
  BY BrokerAssumption DEF Counters
<1> SUFFICES /\ conn' \in 1 .. MaxConns /\ emitted' \in 0 .. MaxEvents
             /\ evictions' \in 0 .. 1 /\ buffered' \in Nat
  BY Zenon DEF Counters
<1>1. CASE UNCHANGED <<conn, emitted, evictions, buffered>>
  BY <1>0, <1>1, Zenon
<1>2. CASE VpnNotifies
  BY <1>0, <1>2, Zenon DEF VpnNotifies
<1>3. CASE BootCompletes
  <2>1. Cardinality({i \in DOMAIN notif : notif[i] = "client"}) \in Nat
    <3>1. notif \in Seq(Notifications)
      BY Zenon DEF Room
    <3>2. IsFiniteSet(1 .. Len(notif)) /\ DOMAIN notif = 1 .. Len(notif)
      BY <3>1, FS_Interval
    <3> QED BY <3>2, FS_Subset, FS_CardinalityType, Zenon
  <2> QED BY <1>0, <1>3, <2>1, Zenon DEF BootCompletes
<1>4. CASE BootEvicts
  BY <1>0, <1>4, Zenon DEF BootEvicts
<1>5. CASE LoopReplays
  BY <1>0, <1>5, Zenon DEF LoopReplays
<1>6. CASE Reconnect
  BY <1>0, <1>6, Zenon DEF Reconnect, Fresh
<1>7. CASE SendCommand \/ VpnAnswers \/ SocketBreaks \/ ReaderNext \/ Signal
  BY <1>1, <1>7, Zenon DEF SendCommand, VpnAnswers, SocketBreaks, ReaderNext, ReadLine,
                           ReadFails, Signal
<1>8. CASE BrokerNext
  BY <1>1, <1>8, Zenon DEF BrokerNext, BrokerStart, BrokerAnswers, BrokerFails,
                           BrokerUnexpected, BrokerCancelled
<1>9. CASE ForwarderNext
  BY <1>1, <1>9, Zenon DEF ForwarderNext, ForwarderTakes, ForwarderDone, ForwarderFails,
                           ForwarderExits
<1>10. CASE \/ BootHold \/ BootStatus \/ BootFails \/ LoopTakes \/ LoopSends \/ LoopSendDropped
            \/ LoopAcked \/ LoopAckFails \/ LoopStatusReturns \/ LoopReturns
            \/ CloseClient \/ DrainEnds
  BY <1>1, <1>10, Zenon
     DEF BootHold, BootStatus, BootFails, LoopTakes, LoopSends, LoopSendDropped, LoopAcked,
         LoopAckFails, LoopStatusReturns, LoopReturns, CloseClient, DrainEnds
<1>11. CASE LoopNext
  BY <1>3, <1>4, <1>5, <1>6, <1>10, <1>11, Zenon DEF LoopNext
<1>12. CASE UNCHANGED vars
  BY <1>1, <1>12, Zenon DEF vars
<1> QED BY <1>2, <1>7, <1>8, <1>9, <1>11, <1>12, Zenon DEF Next

\* A command number that is remembered is that of a command handed over.
LEMMA CommandsStep == ASSUME QueueInv, Commands, [Next]_vars PROVE Commands'
<1> USE DEF queueVars, ackVars, fwVars
<1>0. /\ handed \in Nat /\ awaited \in 0 .. handed /\ fwcmd \in 0 .. handed
      /\ 0 \in 0 .. handed /\ handed + 1 \in Nat
      /\ \A x \in 0 .. handed : x \in 0 .. handed + 1
      /\ handed + 1 \in 0 .. handed + 1 /\ 0 \in 0 .. handed + 1
  BY DEF Commands
<1>1. CASE UNCHANGED handed /\ awaited' \in {0, awaited} /\ fwcmd' \in {0, fwcmd}
  BY <1>0, <1>1, Zenon DEF Commands
<1>2. CASE SendCommand
  BY <1>0, <1>2, Zenon DEF SendCommand, HandOver, Commands
<1>3. CASE LoopSends
  BY <1>0, <1>3, Zenon DEF LoopSends, HandOver, Commands
<1>4. CASE ForwarderTakes
  <2>1. Head(cmdCh) \in 1 .. handed
    BY <1>4, QueueTypes, AppendTail, Zenon DEF QueueInv, ForwarderTakes
  <2>2. Head(cmdCh) \in 0 .. handed
    BY <1>0, <2>1
  <2> QED BY <1>0, <1>4, <2>2, Zenon DEF ForwarderTakes, Commands
<1>5. CASE VpnAnswers \/ VpnNotifies \/ SocketBreaks \/ ReaderNext \/ Signal
  BY <1>1, <1>5, Zenon DEF VpnAnswers, VpnNotifies, SocketBreaks, ReaderNext, ReadLine,
                           ReadFails, Signal
<1>6. CASE BrokerNext
  BY <1>1, <1>6, Zenon DEF BrokerNext, BrokerStart, BrokerAnswers, BrokerFails,
                           BrokerUnexpected, BrokerCancelled
<1>7. CASE ForwarderDone \/ ForwarderFails \/ ForwarderExits
  BY <1>1, <1>7, Zenon DEF ForwarderDone, ForwarderFails, ForwarderExits
<1>8. CASE \/ BootHold \/ BootStatus \/ BootCompletes \/ BootFails \/ BootEvicts
           \/ LoopReplays \/ LoopTakes \/ LoopSendDropped \/ LoopAcked \/ LoopAckFails
           \/ LoopStatusReturns \/ LoopReturns \/ CloseClient \/ DrainEnds
  BY <1>1, <1>8, Zenon
     DEF BootHold, BootStatus, BootCompletes, BootFails, BootEvicts, LoopReplays, LoopTakes,
         LoopSendDropped, LoopAcked, LoopAckFails, LoopStatusReturns, LoopReturns,
         CloseClient, DrainEnds
<1>9. CASE Reconnect
  BY <1>1, <1>9, Zenon DEF Reconnect, Fresh
<1>10. CASE LoopNext
  BY <1>3, <1>8, <1>9, <1>10, Zenon DEF LoopNext
<1>11. CASE UNCHANGED vars
  BY <1>1, <1>11, Zenon DEF vars
<1> QED BY <1>2, <1>4, <1>5, <1>6, <1>7, <1>10, <1>11, Zenon DEF Next, ForwarderNext

\* Senders and the reader block on a full channel; nobody puts anything back.
LEMMA RoomStep == ASSUME QueueInv, Room, [Next]_vars PROVE Room'
<1> USE DEF queueVars, notifVars
<1>0. /\ notif \in Seq(Notifications) /\ Len(notif) <= NotifCap /\ Len(cmdCh) <= QueueCap
      /\ cmdCh \in Seq(1 .. handed) /\ NotifCap \in Nat /\ QueueCap \in Nat
  BY BrokerAssumption, QueueTypes DEF Room, QueueInv
<1>1. /\ Len(cmdCh) < QueueCap => Len(Append(cmdCh, handed + 1)) <= QueueCap
      /\ cmdCh # <<>> => Len(Tail(cmdCh)) <= QueueCap
  BY <1>0
<1>2. /\ notif # <<>> => Tail(notif) \in Seq(Notifications) /\ Len(Tail(notif)) <= NotifCap
      /\ \A n \in Notifications : Len(notif) < NotifCap =>
            Append(notif, n) \in Seq(Notifications) /\ Len(Append(notif, n)) <= NotifCap
      /\ <<>> \in Seq(Notifications) /\ Len(<<>>) <= NotifCap
  BY <1>0
<1>3. CASE HandOver /\ UNCHANGED notif
  BY <1>0, <1>1, <1>3, Zenon DEF HandOver, Room
<1>4. CASE UNCHANGED <<cmdCh, notif>>
  BY <1>4, Zenon DEF Room
<1>5. CASE UNCHANGED cmdCh /\ notif' = <<>>
  BY <1>0, <1>2, <1>5, Zenon DEF Room
<1>6. CASE ForwarderTakes
  BY <1>0, <1>1, <1>6, Zenon DEF ForwarderTakes, Room
<1>7. CASE ReadLine
  BY <1>0, <1>2, <1>7, Zenon DEF ReadLine, NotifRoom, Room
<1>8. CASE LoopTakes
  BY <1>0, <1>2, <1>8, Zenon DEF LoopTakes, Room
<1>9. CASE SendCommand \/ LoopSends
  BY <1>3, <1>9, Zenon DEF SendCommand, LoopSends
<1>10. CASE BootCompletes \/ Reconnect
  BY <1>5, <1>10, Zenon DEF BootCompletes, Reconnect, Fresh
<1>11. CASE VpnAnswers \/ VpnNotifies \/ SocketBreaks \/ ReadFails \/ Signal
  BY <1>4, <1>11, Zenon DEF VpnAnswers, VpnNotifies, SocketBreaks, ReadFails, Signal
<1>12. CASE BrokerNext
  BY <1>4, <1>12, Zenon DEF BrokerNext, BrokerStart, BrokerAnswers, BrokerFails,
                            BrokerUnexpected, BrokerCancelled
<1>13. CASE ForwarderDone \/ ForwarderFails \/ ForwarderExits
  BY <1>4, <1>13, Zenon DEF ForwarderDone, ForwarderFails, ForwarderExits
<1>14. CASE \/ BootHold \/ BootStatus \/ BootFails \/ BootEvicts \/ LoopReplays
            \/ LoopSendDropped \/ LoopAcked \/ LoopAckFails \/ LoopStatusReturns
            \/ LoopReturns \/ CloseClient \/ DrainEnds
  BY <1>4, <1>14, Zenon
     DEF BootHold, BootStatus, BootFails, BootEvicts, LoopReplays, LoopSendDropped, LoopAcked,
         LoopAckFails, LoopStatusReturns, LoopReturns, CloseClient, DrainEnds
<1>15. CASE UNCHANGED vars
  BY <1>4, <1>15, Zenon DEF vars
<1> QED BY <1>6, <1>7, <1>8, <1>9, <1>10, <1>11, <1>12, <1>13, <1>14, <1>15, Zenon
        DEF Next, ReaderNext, ForwarderNext, LoopNext

LEMMA TypeInvInit == Init => TypeInv
<1> SUFFICES ASSUME Init PROVE TypeInv
  OBVIOUS
<1>1. Control
  BY Zenon DEF Init, Control, LoopPcs
<1>2. Owners
  <2>1. <<>> \in Seq(BrokerRequests)
    OBVIOUS
  <2> QED BY <2>1, Zenon DEF Init, Owners
<1>3. Counters /\ Commands /\ Room
  BY BrokerAssumption DEF Init, Counters, Commands, Room
<1> QED BY <1>1, <1>2, <1>3, BrokerInvInit, Zenon DEF TypeInv

LEMMA TypeInvStep == TypeInv /\ [Next]_vars => TypeInv'
  BY BrokerInvStep, ControlStep, OwnersStep, CountersStep, CommandsStep, RoomStep, Zenon
     DEF TypeInv, BrokerInv

\* Every variable keeps its type through every fault.  In particular cmdCh and
\* the notification channel never hold more than their capacities, every command
\* waiting or written has been handed over, and no counter of responses or
\* requests falls below zero (HandOver, readManagement, execute).
THEOREM BrokerTypes == Spec => []TypeOK
<1>1. TypeInv => TypeOK
  BY Zenon DEF TypeInv, BrokerInv, QueueInv, Queue, SyncTypes, Lines, Control, Owners,
               Counters, Commands, Room, TypeOK
<1> QED BY <1>1, TypeInvInit, TypeInvStep, PTL DEF Spec
=============================================================================
