---------------------------- MODULE ReaderProofs ----------------------------
(***************************************************************************)
(* Theorems about ManagementReader, for any clients, any columns of the    *)
(* status, any number of blocks and commands and any faults:               *)
(*                                                                         *)
(*   ReaderTypes                 type correctness                          *)
(*   NotificationsAlwaysIntact   the event loop gets the notifications     *)
(*                               OpenVPN wrote                             *)
(*   ResultsAlwaysExact          every command gets the response to it     *)
(*                                                                         *)
(* They follow from ReaderInv (ReaderWireProofs).  A line read takes the   *)
(* first step of the way the wire leads; a broken connection leaves the    *)
(* beginning of it; a command and the lines the broker takes leave it      *)
(* alone.                                                                  *)
(***************************************************************************)
EXTENDS ReaderWireProofs
-----------------------------------------------------------------------------
(* Types of the other steps. *)

LEMMA AnswerTypes ==
    ASSUME TypeOK, Shape, VpnAnswers
    PROVE  TypeOK' /\ Shape'
<1>1. /\ asked' = <<>>
      /\ UNCHANGED <<life, blocks, closed, readerVars, brokerVars, meant>>
  BY Zenon DEF VpnAnswers
<1>2. UNCHANGED <<reader, event, notifications, responseLine, executing, lines, results>>
  BY <1>1, Zenon DEF readerVars, brokerVars
<1>3. \A order \in Orders : IsSeq(StatusBlock(order))
  BY StatusMeans, Zenon DEF Response
<1>4. \A x : IsSeq(Append(answers, x)) /\ IsSeq(Append(wire, x))
  BY AppendIs, Zenon DEF Shape
<1>5. \A order \in Orders : IsSeq(wire \o StatusBlock(order))
  BY <1>3, ConcatIs, Zenon DEF Shape
<1>6. IsSeq(wire') /\ IsSeq(answers')
  BY <1>4, <1>5, Zenon DEF VpnAnswers, Shape
<1> QED BY <1>1, <1>2, <1>6, Zenon DEF TypeOK, Shape

LEMMA CutTypes ==
    ASSUME TypeOK, Shape, Cut
    PROVE  TypeOK' /\ Shape'
<1>1. closed' = TRUE /\ UNCHANGED <<vpnVars, readerVars, brokerVars, meant, answers>>
  BY Zenon DEF Cut
<1>2. UNCHANGED <<life, asked, blocks, reader, event, notifications, responseLine, executing,
                  lines, results, meant, answers>>
  BY <1>1, Zenon DEF vpnVars, readerVars, brokerVars
<1>3. IsSeq(wire')
  BY PrefixIs, Zenon DEF Shape, Cut
<1> QED BY <1>1, <1>2, <1>3, Zenon DEF TypeOK, Shape

LEMMA AuthTypes ==
    ASSUME TypeOK, Shape, Probe \/ AuthResponse
    PROVE  TypeOK' /\ Shape'
<1>1. UNCHANGED <<life, blocks, closed, notifications, brokerVars, meant, answers>>
  BY Zenon DEF Probe, AuthResponse, vpnVars
<1>2. UNCHANGED <<responseLine, executing, lines, results>>
  BY <1>1, Zenon DEF brokerVars
<1>3. /\ IsSeq(wire) /\ asked \in {<<>>, <<"password">>} \cup {<<c>> : c \in Contracts}
      /\ wire # <<>> => IsSeq(Tail(wire))
  BY TailIs, Zenon DEF Shape, TypeOK
<1>4. wire' = wire \/ (wire # <<>> /\ wire' = Tail(wire))
  BY Zenon DEF Probe, AuthResponse, Read, Stop
<1>5. asked' = asked \/ asked' = <<"password">>
  BY Zenon DEF Probe, AuthResponse, vpnVars
<1>6. reader' \in {"password", "lines", "stopped"} /\ reader # "block"
  <2>1. "probe" # "block" /\ "password" # "block"
    OBVIOUS
  <2> QED BY <2>1, Zenon DEF Probe, AuthResponse, Stop
<1>7. event = NoEvent
  BY <1>6, Zenon DEF TypeOK
<1>8. event' = NoEvent
  BY <1>7, Zenon DEF Probe, AuthResponse, Stop
<1>9. reader' \in {"probe", "password", "lines", "block", "stopped"} /\ reader' # "block"
  BY <1>6
<1>10. IsSeq(wire') /\ asked' \in {<<>>, <<"password">>} \cup {<<c>> : c \in Contracts}
  BY <1>3, <1>4, <1>5, Zenon
<1> QED BY <1>1, <1>2, <1>8, <1>9, <1>10, Zenon DEF TypeOK, Shape

LEMMA EndTypes ==
    ASSUME TypeOK, Shape, ReadEnds
    PROVE  TypeOK' /\ Shape'
<1>1. /\ reader' = "stopped" /\ event' = NoEvent
      /\ UNCHANGED <<vpnVars, wire, closed, notifications, brokerVars, meant, answers>>
  BY Zenon DEF ReadEnds, Stop
<1>2. UNCHANGED <<responseLine, executing, lines, results>>
  BY <1>1, Zenon DEF brokerVars
<1>3. /\ IsSeq(wire') /\ IsSeq(responseLine') /\ IsSeq(lines') /\ IsSeq(results')
      /\ executing' \in Contracts \cup {"none"}
      /\ lines' # <<>> => executing' = "multiLineUntilEnd"
  BY <1>1, <1>2, Zenon DEF TypeOK, Shape
<1> QED BY <1>1, <1>3, StopShape, Zenon

LEMMA ExecuteTypes ==
    ASSUME TypeOK, Shape, NEW contract \in Contracts, Execute(contract)
    PROVE  TypeOK' /\ Shape'
<1>1. /\ executing = "none" /\ executing' = contract /\ asked' = <<contract>>
      /\ UNCHANGED <<life, wire, closed, readerVars, responseLine, lines, results, meant, answers>>
  BY Zenon DEF Execute
<1>2. UNCHANGED <<reader, event, notifications>>
  BY <1>1, Zenon DEF readerVars
<1>3. blocks' \in 0 .. MaxBlocks
  <2>1. /\ blocks \in 0 .. MaxBlocks /\ blocks < MaxBlocks /\ blocks' = blocks + 1
        /\ MaxBlocks \in Nat
    BY ReaderAssumption, Zenon DEF TypeOK, Execute, ReaderAssumption
  <2> QED BY <2>1
<1>4. lines = <<>>
  <2>1. "none" # "multiLineUntilEnd"
    OBVIOUS
  <2> QED BY <1>1, <2>1, Zenon DEF TypeOK
<1> QED BY <1>1, <1>2, <1>3, <1>4, Zenon DEF TypeOK, Shape

\* The broker takes a line, and keeps it or returns.
LEMMA ExecuteLineIs ==
    ASSUME ExecuteLine
    PROVE  /\ responseLine # <<>> /\ executing # "none" /\ responseLine' = Tail(responseLine)
           /\ UNCHANGED <<vpnVars, wire, closed, notifications, meant, answers>>
           /\ \/ UNCHANGED <<reader, event>> \/ (reader' = "stopped" /\ event' = NoEvent)
           /\ \/ /\ executing = "multiLineUntilEnd" /\ Head(responseLine) # <<"END">>
                 /\ lines' = Append(lines, Head(responseLine)) /\ UNCHANGED <<reader, event>>
                 /\ UNCHANGED <<executing, results>>
              \/ \E result : /\ results' = Append(results, result)
                             /\ executing' = "none" /\ lines' = <<>>
  BY Zenon DEF ExecuteLine, Return, Stop

LEMMA ExecuteLineTypes ==
    ASSUME TypeOK, Shape, ExecuteLine
    PROVE  TypeOK' /\ Shape'
<1>1. /\ responseLine # <<>> /\ responseLine' = Tail(responseLine)
      /\ UNCHANGED <<vpnVars, wire, closed, notifications, meant, answers>>
      /\ \/ UNCHANGED <<reader, event>> \/ (reader' = "stopped" /\ event' = NoEvent)
  BY ExecuteLineIs, Zenon
<1>2. \/ /\ executing = "multiLineUntilEnd"
         /\ lines' = Append(lines, Head(responseLine)) /\ UNCHANGED <<executing, results>>
      \/ \E result : results' = Append(results, result) /\ executing' = "none" /\ lines' = <<>>
  BY ExecuteLineIs, Zenon
<1>3. /\ IsSeq(responseLine') /\ IsSeq(lines') /\ IsSeq(results')
      /\ executing' \in Contracts \cup {"none"}
      /\ lines' # <<>> => executing' = "multiLineUntilEnd"
  <2>1. IsSeq(responseLine')
    BY <1>1, TailIs, Zenon DEF Shape
  <2>2. /\ \A x : IsSeq(Append(lines, x)) /\ IsSeq(Append(results, x))
        /\ IsSeq(<<>>) /\ IsSeq(results)
        /\ "multiLineUntilEnd" \in Contracts
    BY AppendIs, EmptyIs, Zenon DEF Shape, Contracts
  <2> QED BY <1>2, <2>1, <2>2, Zenon
<1>4. IsSeq(wire')
  BY <1>1, Zenon DEF Shape
<1>5. CASE UNCHANGED <<reader, event>>
  BY <1>1, <1>3, <1>5, Zenon DEF TypeOK, Shape, vpnVars
<1>6. CASE reader' = "stopped" /\ event' = NoEvent
  BY <1>1, <1>3, <1>4, <1>6, StopShape, Zenon
<1> QED BY <1>1, <1>5, <1>6, Zenon

LEMMA TypeStep ==
    ASSUME TypeOK, Shape, [Next]_vars
    PROVE  TypeOK' /\ Shape'
<1>1. CASE UNCHANGED vars
  BY <1>1, Zenon DEF vars, vpnVars, readerVars, brokerVars, TypeOK, Shape
<1>2. CASE \/ \E c \in Cids, t \in EventTypes : VpnEvent(c, t)
           \/ VpnOther \/ VpnHolds \/ VpnGarbles
  BY <1>2, VpnTypes, Zenon
<1>3. CASE ReadLine
  <2>1. /\ wire # <<>> /\ wire' = Tail(wire) /\ (GivesUp \/ Proceeds)
        /\ UNCHANGED <<vpnVars, closed, executing, lines, results, meant, answers>>
    BY <1>3, LineIs, Zenon
  <2>2. CASE Proceeds
    BY <2>1, <2>2, ProceedsShape, Zenon
  <2>3. CASE GivesUp
    <3>1. /\ reader' = "stopped" /\ event' = NoEvent /\ UNCHANGED <<notifications, responseLine>>
      BY <2>3, Zenon DEF GivesUp
    <3>2. /\ IsSeq(wire') /\ IsSeq(responseLine') /\ IsSeq(lines') /\ IsSeq(results')
          /\ executing' \in Contracts \cup {"none"}
          /\ lines' # <<>> => executing' = "multiLineUntilEnd"
      BY <2>1, <3>1, TailIs, Zenon DEF TypeOK, Shape
    <3> QED BY <2>1, <3>1, <3>2, StopShape, Zenon
  <2> QED BY <2>1, <2>2, <2>3, Zenon
<1>4. CASE ReadBlockLine
  <2>1. /\ wire # <<>> /\ wire' = Tail(wire) /\ Proceeds
        /\ UNCHANGED <<vpnVars, closed, executing, lines, results, meant, answers>>
    BY <1>4, BlockLineIs, Zenon
  <2> QED BY <2>1, ProceedsShape, Zenon
<1>5. CASE VpnAnswers
  BY <1>5, AnswerTypes, Zenon
<1>6. CASE Cut
  BY <1>6, CutTypes, Zenon
<1>7. CASE Probe \/ AuthResponse
  BY <1>7, AuthTypes, Zenon
<1>8. CASE ReadEnds
  BY <1>8, EndTypes, Zenon
<1>9. CASE \E contract \in Contracts : Execute(contract)
  BY <1>9, ExecuteTypes, Zenon
<1>10. CASE ExecuteLine
  BY <1>10, ExecuteLineTypes, Zenon
<1> QED BY <1>1, <1>2, <1>3, <1>4, <1>5, <1>6, <1>7, <1>8, <1>9, <1>10, Zenon DEF Next, Daemon

-----------------------------------------------------------------------------
(* The connection breaks, and the daemon reads. *)

\* The invariant holds again if the exchange does.
LEMMA Again ==
    ASSUME TypeOK', Shape', NotificationsIntact', NEW said, IsSeq(said), NEW base \in Nat,
           Stream(said, base)', Unanswered(said, base)' \/ Answered(said, base)'
    PROVE  ReaderInv'
  BY Zenon DEF ReaderInv, Exchange

LEMMA Holds ==
    ASSUME ReaderInv
    PROVE  \E said : \E base \in Nat : /\ IsSeq(said) /\ Stream(said, base)
                                       /\ Unanswered(said, base) \/ Answered(said, base)
  BY Zenon DEF ReaderInv, Exchange

LEMMA CutStep ==
    ASSUME ReaderInv, TypeOK', Shape', Cut
    PROVE  ReaderInv'
<1>1. closed' = TRUE /\ UNCHANGED <<vpnVars, readerVars, brokerVars, meant, answers>>
  BY Zenon DEF Cut
<1>2. UNCHANGED <<asked, reader, event, notifications, responseLine, executing, lines, results,
                  meant, answers>>
  BY <1>1, Zenon DEF vpnVars, readerVars, brokerVars
<1>3. PICK n \in 0 .. Len(wire) : wire' = SubSeq(wire, 1, n)
  BY Zenon DEF Cut
<1>4. PICK said : \E base \in Nat : /\ IsSeq(said) /\ Stream(said, base)
                                    /\ Unanswered(said, base) \/ Answered(said, base)
  BY Holds, Zenon
<1>5. PICK base \in Nat : /\ IsSeq(said) /\ Stream(said, base)
                          /\ Unanswered(said, base) \/ Answered(said, base)
  BY <1>4, Zenon
<1>6. Unanswered(said, base)' \/ Answered(said, base)'
  BY <1>2, <1>5, Zenon DEF Unanswered, Answered, Arrives
<1>7. NotificationsIntact'
  BY <1>2, Zenon DEF ReaderInv, NotificationsIntact
<1>8. /\ IsSeq(wire) /\ IsSeq(wire') /\ Len(wire') = n /\ Len(wire) \in Nat
      /\ \A i \in 1 .. n : wire'[i] = wire[i]
  BY <1>3, PrefixIs, SeqIs DEF ReaderInv, Shape
<1>9. Here(base)' = Here(base)
  BY <1>2, Zenon DEF Here
<1>10. n = 0 => wire' = <<>>
  BY <1>8, SeqIs, Zenon
<1>11. n = Len(wire) => wire' = wire
  BY <1>8, SameSeq, Zenon
<1>12. wire' = <<>> => Flows(said, base)'
  <2>1. Leads(<<>>, meant', said, Here(base)', Here(base)')
    BY LeadsNowhere, Zenon
  <2> QED BY <1>1, <2>1, Zenon DEF Flows
<1>13. Stream(said, base)'
  <2>1. CASE reader = "stopped"
    BY <1>2, <2>1, Zenon DEF Stream
  <2>2. CASE /\ reader = "probe" /\ wire = <<Prompt>> /\ meant = <<>>
             /\ executing = "none" /\ asked = <<>>
    <3>1. n = 0 \/ n = Len(wire)
      <4>1. Len(wire) = 1
        BY <2>2, TupleIs, Zenon
      <4> QED BY <4>1
    <3>2. <<>> # <<"password">>
      OBVIOUS
    <3>3. CASE wire' = wire
      BY <1>2, <2>2, <3>3, Zenon DEF Stream
    <3>4. CASE wire' = <<>>
      BY <1>2, <1>12, <2>2, <3>2, <3>4, Zenon DEF Stream
    <3> QED BY <1>10, <1>11, <3>1, <3>3, <3>4, Zenon
  <2>3. CASE /\ reader = "password" /\ meant = <<>> /\ executing = "none"
             /\ wire = <<>> \/ (asked = <<>> /\ Len(wire) = 1)
    <3>1. Len(wire) = 0 \/ Len(wire) = 1
      BY <2>3, EmptyIs, Zenon
    <3>2. wire' = <<>> \/ wire' = wire
      <4>1. n = 0 \/ n = Len(wire)
        <5>1. CASE Len(wire) = 0
          BY <5>1
        <5>2. CASE Len(wire) = 1
          BY <5>2
        <5> QED BY <3>1, <5>1, <5>2, Zenon
      <4> QED BY <1>10, <1>11, <4>1, Zenon
    <3> QED BY <1>2, <2>3, <3>2, Zenon DEF Stream
  <2>4. CASE /\ reader \in {"probe", "lines", "block"} /\ asked # <<"password">>
             /\ reader = "probe" => executing = "none"
             /\ Flows(said, base)
    <3>1. PICK q : Leads(wire, meant, said, Here(base), q)
      BY <2>4, Zenon DEF Flows
    <3>2. PICK r : Leads(SubSeq(wire, 1, n), meant, said, Here(base), r)
      BY <1>8, <3>1, LeadsShort, Zenon
    <3>3. Flows(said, base)'
      BY <1>1, <1>2, <1>3, <1>9, <3>2, Zenon DEF Flows
    <3> QED BY <1>2, <2>4, <3>3, Zenon DEF Stream
  <2> QED BY <1>5, <2>1, <2>2, <2>3, <2>4, Zenon DEF Stream
<1> QED BY <1>5, <1>6, <1>7, <1>13, Again, Zenon

\* The reader stops; what it has handed over stays.
LEMMA StopStep ==
    ASSUME ReaderInv, TypeOK', Shape', reader' = "stopped",
           UNCHANGED <<asked, notifications, responseLine, executing, lines, results, meant, answers>>
    PROVE  ReaderInv'
<1>1. PICK said : \E base \in Nat : /\ IsSeq(said) /\ Stream(said, base)
                                    /\ Unanswered(said, base) \/ Answered(said, base)
  BY Holds, Zenon
<1>2. PICK base \in Nat : IsSeq(said) /\ (Unanswered(said, base) \/ Answered(said, base))
  BY <1>1, Zenon
<1>3. Unanswered(said, base)' \/ Answered(said, base)'
  BY <1>2, Zenon DEF Unanswered, Answered, Arrives
<1>4. NotificationsIntact'
  BY Zenon DEF ReaderInv, NotificationsIntact
<1>5. Stream(said, base)'
  BY Zenon DEF Stream
<1> QED BY <1>2, <1>3, <1>4, <1>5, Again, Zenon

\* A prompt is never taken for a line, nor a line for a prompt.
LEMMA ProbeStep ==
    ASSUME ReaderInv, TypeOK', Shape', Probe
    PROVE  ReaderInv'
<1>1. /\ reader = "probe"
      /\ UNCHANGED <<life, blocks, closed, notifications, brokerVars, meant, answers>>
  BY Zenon DEF Probe
<1>2. UNCHANGED <<responseLine, executing, lines, results>>
  BY <1>1, Zenon DEF brokerVars
<1>3. "probe" # "stopped" /\ "probe" # "password" /\ "probe" # "block"
  OBVIOUS
<1>4. event = NoEvent
  BY <1>1, <1>3, Zenon DEF ReaderInv, TypeOK
<1>5. PICK said : \E base \in Nat : /\ IsSeq(said) /\ Stream(said, base)
                                    /\ Unanswered(said, base) \/ Answered(said, base)
  BY Holds, Zenon
<1>6. PICK base \in Nat : /\ IsSeq(said) /\ Stream(said, base)
                          /\ Unanswered(said, base) \/ Answered(said, base)
  BY <1>5, Zenon
<1>7. \/ wire = <<Prompt>> /\ meant = <<>> /\ executing = "none" /\ asked = <<>>
      \/ asked # <<"password">> /\ executing = "none" /\ Flows(said, base)
  BY <1>1, <1>3, <1>6, Zenon DEF Stream
<1>8. executing = "none" /\ Unanswered(said, base)
  BY <1>6, <1>7, Zenon DEF Answered
<1>9. NotificationsIntact'
  BY <1>1, Zenon DEF ReaderInv, NotificationsIntact
<1>10. CASE /\ wire # <<>> /\ Head(wire) = Prompt
            /\ Read /\ reader' = "password" /\ asked' = <<"password">> /\ UNCHANGED event
  <2>1. wire = <<Prompt>> /\ meant = <<>>
    <3>1. ASSUME Flows(said, base) PROVE FALSE
      <4>1. PICK q : Leads(wire, meant, said, Here(base), q)
        BY <3>1, Zenon DEF Flows
      <4>2. Fits(Here(base), Head(wire), meant, said)
        BY <1>10, <4>1, LeadsFrom, Zenon DEF ReaderInv, Shape
      <4> DEFINE r == base + Len(lines) + Len(responseLine)
      <4>3. Responds(NoEvent, Prompt)
        BY DEF Responds, Prompt
      <4>4. r + 1 \in 1 .. Len(said)
        <5>1. Fits(Place(NoEvent, Len(notifications), r), Prompt, meant, said)
          BY <1>4, <1>10, <4>2, Zenon DEF Here
        <5> QED BY <4>3, <5>1, PlaceIs
      <4>5. base = Len(said) /\ Len(lines) = 0 /\ Len(responseLine) = 0
        BY <1>8, EmptyIs, Zenon DEF Unanswered
      <4> QED BY <4>4, <4>5
    <3> QED BY <1>7, <3>1, Zenon
  <2>2. wire' = <<>>
    BY <1>10, <2>1 DEF Read
  <2>3. Stream(said, base)'
    BY <1>1, <1>2, <1>8, <1>10, <2>1, <2>2, Zenon DEF Stream
  <2>4. Unanswered(said, base)'
    BY <1>1, <1>2, <1>8, <1>10, Zenon DEF Unanswered
  <2> QED BY <1>6, <1>9, <2>3, <2>4, Again, Zenon
<1>11. CASE /\ wire # <<>> /\ Head(wire) # Prompt
            /\ reader' = "lines" /\ UNCHANGED <<wire, asked, event>>
  <2>1. wire # <<Prompt>>
    BY <1>11
  <2>2. asked # <<"password">> /\ Flows(said, base)
    BY <1>7, <2>1, Zenon
  <2>3. Flows(said, base)'
    BY <1>1, <1>2, <1>11, <2>2, Zenon DEF Flows, Here
  <2>4. reader' # "probe" /\ reader' \in {"probe", "lines", "block"}
    BY <1>11
  <2>5. Stream(said, base)'
    BY <1>11, <2>2, <2>3, <2>4, Zenon DEF Stream
  <2>6. Unanswered(said, base)'
    BY <1>1, <1>2, <1>8, <1>11, Zenon DEF Unanswered
  <2> QED BY <1>6, <1>9, <2>5, <2>6, Again, Zenon
<1>12. CASE wire = <<>> /\ Stop /\ UNCHANGED <<wire, asked>>
  BY <1>1, <1>2, <1>12, StopStep, Zenon DEF Stop
<1> QED BY <1>10, <1>11, <1>12, Zenon DEF Probe

LEMMA AuthStep ==
    ASSUME ReaderInv, TypeOK', Shape', AuthResponse
    PROVE  ReaderInv'
<1>1. /\ reader = "password"
      /\ UNCHANGED <<vpnVars, closed, notifications, brokerVars, meant, answers>>
  BY Zenon DEF AuthResponse
<1>2. UNCHANGED <<asked, responseLine, executing, lines, results>>
  BY <1>1, Zenon DEF brokerVars, vpnVars
<1>3. CASE Read /\ Head(wire) = <<"SUCCESS:">> /\ reader' = "lines" /\ UNCHANGED event
  <2>1. "password" # "stopped" /\ "password" # "probe" /\ "password" # "block" /\ "password" # "lines"
    OBVIOUS
  <2>2. event' = NoEvent
    BY <1>1, <1>3, <2>1, Zenon DEF ReaderInv, TypeOK
  <2>3. PICK said : \E base \in Nat : /\ IsSeq(said) /\ Stream(said, base)
                                      /\ Unanswered(said, base) \/ Answered(said, base)
    BY Holds, Zenon
  <2>4. PICK base \in Nat : /\ IsSeq(said) /\ Stream(said, base)
                            /\ Unanswered(said, base) \/ Answered(said, base)
    BY <2>3, Zenon
  <2>5. meant = <<>> /\ executing = "none" /\ (wire = <<>> \/ (asked = <<>> /\ Len(wire) = 1))
    BY <1>1, <2>1, <2>4, Zenon DEF Stream
  <2>6. wire # <<>> /\ wire' = Tail(wire)
    BY <1>3, Zenon DEF Read
  <2>7. asked = <<>> /\ wire' = <<>>
    <3>1. asked = <<>> /\ Len(wire) = 1 /\ IsSeq(wire)
      BY <2>5, <2>6, Zenon DEF ReaderInv, Shape
    <3>2. IsSeq(wire') /\ Len(wire') = Len(wire) - 1
      BY <2>6, <3>1, TailIs, Zenon
    <3>3. Len(wire') = 0
      BY <3>1, <3>2
    <3> QED BY <3>1, <3>2, <3>3, SeqIs, Zenon
  <2>8. Unanswered(said, base)
    BY <2>4, <2>5, Zenon DEF Answered
  <2>9. Here(base)' = Place(NoEvent, Len(meant'), Len(said))
    <3>1. Len(notifications) = 0
      <4>1. IsSeq(notifications) /\ IsSeq(meant) /\ Len(meant) = 0
        BY <2>5, EmptyIs, Zenon DEF ReaderInv, Shape
      <4>2. Len(notifications) <= Len(meant)
        BY <4>1, IsPrefixIs, Zenon DEF ReaderInv, NotificationsIntact
      <4>3. Len(notifications) \in Nat
        BY <4>1, SeqIs, Zenon
      <4> QED BY <4>1, <4>2, <4>3
    <3>2. base = Len(said) /\ Len(lines) = 0 /\ Len(responseLine) = 0 /\ Len(meant) = 0
      BY <2>5, <2>8, EmptyIs, Zenon DEF Unanswered
    <3>3. base + 0 + 0 = base
      OBVIOUS
    <3> QED BY <1>1, <1>2, <2>2, <3>1, <3>2, <3>3, Zenon DEF Here
  <2>10. Flows(said, base)'
    <3>1. Leads(<<>>, meant', said, Here(base)', Here(base)')
      BY LeadsNowhere, Zenon
    <3>2. Ends(Here(base)', meant', said)
      BY <2>9, Zenon DEF Ends
    <3> QED BY <2>7, <3>1, <3>2, Zenon DEF Flows
  <2>11. Stream(said, base)'
    <3>1. <<>> # <<"password">> /\ "lines" # "probe"
      OBVIOUS
    <3> QED BY <1>2, <1>3, <2>7, <2>10, <3>1, Zenon DEF Stream
  <2>12. Unanswered(said, base)' /\ NotificationsIntact'
    BY <1>1, <1>2, <2>8, Zenon DEF Unanswered, ReaderInv, NotificationsIntact
  <2> QED BY <2>4, <2>11, <2>12, Again, Zenon
<1>4. CASE reader' = "stopped"
  BY <1>1, <1>2, <1>4, StopStep, Zenon
<1> QED BY <1>3, <1>4, Zenon DEF AuthResponse, Stop

LEMMA AnswerStill ==
    ASSUME NEW said, NEW base, Unanswered(said, base) \/ Answered(said, base),
           UNCHANGED <<asked, responseLine, executing, lines, results, answers>>
    PROVE  Unanswered(said, base)' \/ Answered(said, base)'
  BY Zenon DEF Unanswered, Answered, Arrives

\* The reader takes a line.
LEMMA ProceedsStep ==
    ASSUME ReaderInv, TypeOK', Shape', reader \in {"lines", "block"}, Proceeds,
           wire # <<>>, wire' = Tail(wire),
           UNCHANGED <<vpnVars, closed, executing, lines, results, meant, answers>>
    PROVE  ReaderInv'
<1> DEFINE line == Head(wire)
           n == Len(notifications)
<1>1. UNCHANGED <<asked, closed, executing, lines, results, meant, answers>>
  BY Zenon DEF vpnVars
<1>2. /\ event' = After(event, line)
      /\ reader' = IF event' = NoEvent THEN "lines" ELSE "block"
      /\ Reads(event, line)
  BY Zenon DEF Proceeds
<1>3. /\ IsSeq(wire) /\ IsSeq(notifications) /\ IsSeq(meant) /\ IsSeq(responseLine) /\ IsSeq(lines)
      /\ IsSeq(notifications')
  BY Zenon DEF ReaderInv, Shape
<1>4. n \in Nat /\ Len(responseLine) \in Nat /\ Len(lines) \in Nat /\ Len(meant) \in Nat
  BY <1>3, SeqIs, Zenon
<1>5. PICK said : \E base \in Nat : /\ IsSeq(said) /\ Stream(said, base)
                                    /\ Unanswered(said, base) \/ Answered(said, base)
  BY Holds, Zenon
<1>6. PICK base \in Nat : /\ IsSeq(said) /\ Stream(said, base)
                          /\ Unanswered(said, base) \/ Answered(said, base)
  BY <1>5, Zenon
<1>7. asked # <<"password">> /\ Flows(said, base)
  <2>1. reader # "stopped" /\ reader # "password" /\ reader # "probe"
    OBVIOUS
  <2> QED BY <1>6, <2>1, Zenon DEF Stream
<1>8. PICK q : Leads(wire, meant, said, Here(base), q) /\ (closed \/ Ends(q, meant, said))
  BY <1>7, Zenon DEF Flows
<1> DEFINE r == base + Len(lines) + Len(responseLine)
<1>9. Here(base) = Place(event, n, r)
  BY Zenon DEF Here
<1>10. Leads(wire', meant, said, Move(Place(event, n, r), line), q) /\ Fits(Place(event, n, r), line, meant, said)
  BY <1>3, <1>8, <1>9, LeadsFrom, Zenon
<1>11. r \in Nat
  BY <1>4
<1> HIDE DEF line
<1>12. /\ Move(Place(event, n, r), line) =
            Place(event', IF Hands(event, line) THEN n + 1 ELSE n, IF Responds(event, line) THEN r + 1 ELSE r)
       /\ Hands(event, line) => n + 1 \in 1 .. Len(meant) /\ meant[n + 1] = Handed(event)
       /\ Responds(event, line) => r + 1 \in 1 .. Len(said) /\ said[r + 1] = line
  BY <1>2, <1>10, PlaceIs, SMT
<1>13. ASSUME Here(base)' = Move(Place(event, n, r), line)
       PROVE  Stream(said, base)'
  <2>1. Flows(said, base)'
    <3>1. meant' = meant /\ closed' = closed
      BY <1>1, Zenon
    <3>2. Leads(wire', meant', said, Here(base)', q)
      BY <1>10, <1>13, <3>1, Zenon
    <3>3. closed' \/ Ends(q, meant', said)
      <4>1. CASE closed
        BY <3>1, <4>1
      <4>2. CASE Ends(q, meant, said)
        BY <3>1, <4>2, Zenon
      <4> QED BY <1>8, <4>1, <4>2, Zenon
    <3> QED BY <3>2, <3>3, Zenon DEF Flows
  <2>2. reader' # "probe" /\ reader' \in {"probe", "lines", "block"}
    BY <1>2
  <2> QED BY <1>1, <1>7, <2>1, <2>2, Zenon DEF Stream
<1>14. CASE /\ Hands(event, line) /\ ~Responds(event, line)
            /\ notifications' = Append(notifications, Handed(event)) /\ UNCHANGED responseLine
  <2>1. /\ Len(notifications') = n + 1 /\ notifications'[n + 1] = Handed(event)
        /\ \A i \in 1 .. n : notifications'[i] = notifications[i]
    BY <1>3, <1>14, AppendIs, SMT
  <2>2. Here(base)' = Move(Place(event, n, r), line)
    BY <1>1, <1>12, <1>14, <2>1, Zenon DEF Here
  <2>3. Stream(said, base)'
    BY <1>13, <2>2, Zenon
  <2>4. Unanswered(said, base)' \/ Answered(said, base)'
    <3>1. UNCHANGED <<asked, responseLine, executing, lines, results, answers>>
      BY <1>1, <1>14, Zenon
    <3> QED BY <1>6, <3>1, AnswerStill, Zenon
  <2>5. NotificationsIntact'
    <3>1. \A i \in 1 .. n : notifications[i] = meant[i]
      BY <1>3, IsPrefixIs, Zenon DEF ReaderInv, NotificationsIntact
    <3>2. \A i \in 1 .. n + 1 : i \in 1 .. n \/ i = n + 1
      BY <1>4
    <3>3. n + 1 <= Len(meant)
      BY <1>4, <1>12, <1>14
    <3>4. \A i \in 1 .. n + 1 : notifications'[i] = meant[i]
      BY <1>12, <1>14, <2>1, <3>1, <3>2, Zenon
    <3>5. IsPrefix(notifications', meant)
      BY <1>3, <2>1, <3>3, <3>4, IsPrefixIs, Zenon
    <3> QED BY <1>1, <3>5, Zenon DEF NotificationsIntact
  <2> QED BY <1>6, <2>3, <2>4, <2>5, Again, Zenon
<1>15. CASE /\ ~Hands(event, line) /\ Responds(event, line)
            /\ responseLine' = Append(responseLine, line) /\ UNCHANGED notifications
  <2>1. /\ Len(responseLine') = Len(responseLine) + 1
        /\ responseLine'[Len(responseLine) + 1] = line
        /\ \A i \in 1 .. Len(responseLine) : responseLine'[i] = responseLine[i]
    BY <1>3, <1>15, AppendIs, SMT
  <2>2. Here(base)' = Move(Place(event, n, r), line)
    <3>1. base + Len(lines) + (Len(responseLine) + 1) = r + 1
      BY <1>4
    <3> QED BY <1>1, <1>12, <1>15, <2>1, <3>1, Zenon DEF Here
  <2>3. Stream(said, base)'
    BY <1>13, <2>2, Zenon
  <2>4. r + 1 \in 1 .. Len(said) /\ said[r + 1] = line
    BY <1>12, <1>15, Zenon
  <2>5. Answered(said, base)
    <3>1. ASSUME Unanswered(said, base) PROVE FALSE
      <4>1. base = Len(said) /\ Len(lines) = 0 /\ Len(responseLine) = 0
        BY <3>1, EmptyIs, Zenon DEF Unanswered
      <4> QED BY <2>4, <4>1
    <3> QED BY <1>6, <3>1, Zenon
  <2>6. PICK a : Arrives(a, said, base)
    BY <2>5, Zenon DEF Answered
  <2>7. Arrives(a, said, base)'
    <3> DEFINE k == Len(lines)
               l == Len(responseLine)
    <3>1. /\ Response(executing, a, answers[Len(answers)])
          /\ Len(said) = base + Len(a) /\ \A i \in 1 .. Len(a) : said[base + i] = a[i]
          /\ \A i \in 1 .. k : lines[i] = a[i]
          /\ \A i \in 1 .. l : responseLine[i] = a[k + i]
      BY <2>6, Zenon DEF Arrives
    <3>2. Len(a) \in Nat
      BY <3>1, SeqIs, Zenon DEF Response
    <3>3. k + l + 1 \in 1 .. Len(a) /\ r + 1 = base + (k + l + 1) /\ k + (l + 1) = k + l + 1
      BY <1>4, <2>4, <3>1, <3>2
    <3>4. a[k + (l + 1)] = line
      BY <2>4, <3>1, <3>3, Zenon
    <3>5. k + (l + 1) <= Len(a)
      BY <1>4, <3>2, <3>3
    <3>6. \A i \in 1 .. l + 1 : i \in 1 .. l \/ i = l + 1
      BY <1>4
    <3> HIDE DEF k, l
    <3>7. \A i \in 1 .. l + 1 : responseLine'[i] = a[k + i]
      BY <2>1, <3>1, <3>4, <3>6, Zenon DEF l
    <3>8. k + Len(responseLine') <= Len(a) /\ \A i \in 1 .. Len(responseLine') : responseLine'[i] = a[k + i]
      BY <2>1, <3>5, <3>7, Zenon DEF l
    <3> QED BY <1>1, <3>1, <3>8, Zenon DEF Arrives, k
  <2>8. Answered(said, base)'
    BY <1>1, <2>5, <2>7, Zenon DEF Answered
  <2>9. NotificationsIntact'
    BY <1>1, <1>15, Zenon DEF ReaderInv, NotificationsIntact
  <2> QED BY <1>6, <2>3, <2>8, <2>9, Again, Zenon
<1>16. CASE /\ ~Hands(event, line) /\ ~Responds(event, line)
            /\ UNCHANGED <<notifications, responseLine>>
  <2>1. Here(base)' = Move(Place(event, n, r), line)
    BY <1>1, <1>12, <1>16, Zenon DEF Here
  <2>2. Stream(said, base)'
    BY <1>13, <2>1, Zenon
  <2>3. Unanswered(said, base)' \/ Answered(said, base)'
    <3>1. UNCHANGED <<asked, responseLine, executing, lines, results, answers>>
      BY <1>1, <1>16, Zenon
    <3> QED BY <1>6, <3>1, AnswerStill, Zenon
  <2>4. NotificationsIntact'
    BY <1>1, <1>16, Zenon DEF ReaderInv, NotificationsIntact
  <2> QED BY <1>6, <2>2, <2>3, <2>4, Again, Zenon
<1> QED BY <1>2, <1>14, <1>15, <1>16, Zenon DEF Reads

LEMMA ReadStep ==
    ASSUME ReaderInv, TypeOK', Shape', ReadLine \/ ReadBlockLine
    PROVE  ReaderInv'
<1>1. TypeOK /\ Shape
  BY Zenon DEF ReaderInv
<1>2. /\ reader \in {"lines", "block"} /\ wire # <<>> /\ wire' = Tail(wire)
      /\ UNCHANGED <<vpnVars, closed, executing, lines, results, meant, answers>>
      /\ GivesUp \/ Proceeds
  BY <1>1, LineIs, BlockLineIs, Zenon
<1>3. CASE GivesUp
  <2>1. reader' = "stopped" /\ UNCHANGED <<notifications, responseLine>>
    BY <1>3, Zenon DEF GivesUp
  <2>2. UNCHANGED <<asked, notifications, responseLine, executing, lines, results, meant, answers>>
    BY <1>2, <2>1, Zenon DEF vpnVars
  <2> QED BY <2>1, <2>2, StopStep, Zenon
<1>4. CASE Proceeds
  BY <1>2, <1>4, ProceedsStep, Zenon
<1> QED BY <1>2, <1>3, <1>4, Zenon

LEMMA EndsStep ==
    ASSUME ReaderInv, TypeOK', Shape', ReadEnds
    PROVE  ReaderInv'
<1>1. reader' = "stopped" /\ UNCHANGED <<vpnVars, notifications, brokerVars, meant, answers>>
  BY Zenon DEF ReadEnds, Stop
<1>2. UNCHANGED <<asked, notifications, responseLine, executing, lines, results, meant, answers>>
  BY <1>1, Zenon DEF vpnVars, brokerVars
<1> QED BY <1>1, <1>2, StopStep, Zenon

-----------------------------------------------------------------------------
(* Commands. *)

\* While the broker executes a command, and while one may be executed, the
\* lines on the way flow to the daemon.
LEMMA StreamStill ==
    ASSUME NEW said, NEW base, Stream(said, base), reader \in {"lines", "block"} \/ executing # "none",
           UNCHANGED <<wire, closed, reader, meant>>, asked' # <<"password">>,
           NEW to, Here(to)' = Here(base)
    PROVE  Stream(said, to)'
<1>1. CASE reader = "stopped"
  BY <1>1, Zenon DEF Stream
<1>2. CASE reader # "stopped"
  <2>1. reader \in {"lines", "block"} => reader # "probe" /\ reader # "password"
    OBVIOUS
  <2>2. reader \in {"probe", "lines", "block"} /\ reader # "probe" /\ Flows(said, base)
    BY <1>2, <2>1, Zenon DEF Stream
  <2>3. PICK q : Leads(wire, meant, said, Here(base), q) /\ (closed \/ Ends(q, meant, said))
    BY <2>2, Zenon DEF Flows
  <2>4. Leads(wire', meant', said, Here(to)', q)
    BY <2>3, Zenon
  <2>5. closed' \/ Ends(q, meant', said)
    <3>1. CASE closed
      BY <3>1
    <3>2. CASE Ends(q, meant, said)
      BY <3>2, Zenon
    <3> QED BY <2>3, <3>1, <3>2, Zenon
  <2>6. Flows(said, to)'
    BY <2>4, <2>5, Zenon DEF Flows
  <2> QED BY <2>2, <2>6, Zenon DEF Stream
<1> QED BY <1>1, <1>2, Zenon

LEMMA ExecuteStep ==
    ASSUME ReaderInv, TypeOK', Shape', NEW contract \in Contracts, Execute(contract)
    PROVE  ReaderInv'
<1>1. /\ reader \in {"lines", "block"} /\ executing = "none"
      /\ executing' = contract /\ asked' = <<contract>>
      /\ UNCHANGED <<wire, closed, readerVars, responseLine, lines, results, meant, answers>>
  BY Zenon DEF Execute
<1>2. UNCHANGED <<reader, event, notifications>>
  BY <1>1, Zenon DEF readerVars
<1>3. PICK said : \E base \in Nat : /\ IsSeq(said) /\ Stream(said, base)
                                    /\ Unanswered(said, base) \/ Answered(said, base)
  BY Holds, Zenon
<1>4. PICK base \in Nat : /\ IsSeq(said) /\ Stream(said, base)
                          /\ Unanswered(said, base) \/ Answered(said, base)
  BY <1>3, Zenon
<1>5. Unanswered(said, base)
  BY <1>1, <1>4, Zenon DEF Answered
<1>6. contract # "none" /\ <<contract>> # <<"password">>
  BY DEF Contracts
<1>7. Unanswered(said, base)'
  BY <1>1, <1>5, <1>6, Zenon DEF Unanswered
<1>8. Here(base)' = Here(base)
  BY <1>1, <1>2, Zenon DEF Here
<1>9. UNCHANGED <<wire, closed, reader, meant>> /\ asked' # <<"password">>
  BY <1>1, <1>2, <1>6, Zenon
<1>10. Stream(said, base)'
  BY <1>1, <1>4, <1>8, <1>9, StreamStill, Zenon
<1>11. NotificationsIntact'
  BY <1>1, <1>2, Zenon DEF ReaderInv, NotificationsIntact
<1> QED BY <1>4, <1>7, <1>10, <1>11, Again, Zenon

LEMMA LastOne ==
    ASSUME NEW p \in Nat, NEW k \in Nat, NEW l \in Nat, l > 0, k + l <= k + 1
    PROVE  l = 1 /\ p + k + l = p + (k + 1)
  OBVIOUS

\* The broker has the last line of the response.
LEMMA FinishStep ==
    ASSUME ReaderInv, TypeOK', Shape', NEW said, IsSeq(said), NEW base \in Nat,
           Stream(said, base), Answered(said, base),
           NEW a, Arrives(a, said, base), Len(lines) + 1 = Len(a),
           responseLine # <<>>, responseLine' = Tail(responseLine),
           results' = Append(results, answers[Len(answers)]),
           executing' = "none", lines' = <<>>,
           UNCHANGED <<vpnVars, wire, closed, notifications, meant, answers>>,
           UNCHANGED <<reader, event>> \/ reader' = "stopped"
    PROVE  ReaderInv'
<1>0. UNCHANGED <<asked, wire, closed, notifications, meant, answers>>
  BY Zenon DEF vpnVars
<1>1. /\ IsSeq(responseLine) /\ IsSeq(lines) /\ IsSeq(results) /\ IsSeq(answers) /\ IsSeq(a)
  BY Zenon DEF ReaderInv, Shape, Arrives, Response
<1>2. /\ Len(responseLine) \in Nat /\ Len(lines) \in Nat /\ Len(results) \in Nat
      /\ Len(a) \in Nat /\ Len(said) \in Nat
  BY <1>1, SeqIs, Zenon
<1>3. /\ IsSeq(Tail(responseLine)) /\ Len(responseLine) > 0
      /\ Len(Tail(responseLine)) = Len(responseLine) - 1
  BY <1>1, TailIs, Zenon
<1>4. Len(said) = base + Len(a) /\ Len(lines) + Len(responseLine) <= Len(a)
  BY Zenon DEF Arrives
<1>5. Len(responseLine) = 1 /\ base + Len(lines) + Len(responseLine) = Len(said)
  <2>1. Len(lines) + Len(responseLine) <= Len(lines) + 1
    BY <1>4, Zenon
  <2>2. /\ Len(responseLine) = 1
        /\ base + Len(lines) + Len(responseLine) = base + (Len(lines) + 1)
    BY <1>2, <1>3, <2>1, LastOne, Zenon
  <2> QED BY <1>4, <2>2, Zenon
<1>6. responseLine' = <<>>
  <2>1. Len(Tail(responseLine)) = 0
    BY <1>3, <1>5
  <2> QED BY <1>3, <2>1, SeqIs, Zenon
<1>7. Here(Len(said))' = Place(event', Len(notifications), Len(said))
  <2>1. Len(said) + Len(<<>>) + Len(<<>>) = Len(said)
    BY <1>2, EmptyIs
  <2> QED BY <1>0, <1>6, <2>1, Zenon DEF Here
<1>8. results' = answers'
  <2> DEFINE x == answers[Len(answers)]
  <2>1. Len(answers) = Len(results) + 1 /\ \A i \in 1 .. Len(results) : results[i] = answers[i]
    BY Zenon DEF Answered
  <2>2. /\ IsSeq(Append(results, x)) /\ Len(Append(results, x)) = Len(results) + 1
        /\ \A i \in 1 .. Len(results) : Append(results, x)[i] = results[i]
        /\ Append(results, x)[Len(results) + 1] = x
    BY <1>1, AppendIs, Zenon
  <2>3. \A i \in 1 .. Len(results) + 1 : i \in 1 .. Len(results) \/ i = Len(results) + 1
    BY <1>2
  <2> HIDE DEF x
  <2>4. x = answers[Len(results) + 1]
    BY <2>1, Zenon DEF x
  <2>5. \A i \in 1 .. Len(results) + 1 : Append(results, x)[i] = answers[i]
    BY <2>1, <2>2, <2>3, <2>4, Zenon
  <2>6. Append(results, x) = answers
    BY <1>1, <2>1, <2>2, <2>5, SameSeq, Zenon
  <2> QED BY <1>0, <2>6, Zenon DEF x
<1>9. executing # "none" /\ asked = <<>>
  BY Zenon DEF Answered
<1>10. Unanswered(said, Len(said))'
  BY <1>0, <1>6, <1>8, <1>9, Zenon DEF Unanswered
<1>11. Stream(said, Len(said))'
  <2>1. CASE reader' = "stopped"
    BY <2>1, Zenon DEF Stream
  <2>2. CASE UNCHANGED <<reader, event>>
    <3>1. Here(Len(said))' = Here(base)
      BY <1>5, <1>7, <2>2, Zenon DEF Here
    <3>2. asked' # <<"password">>
      <4>1. <<>> # <<"password">>
        OBVIOUS
      <4> QED BY <1>0, <1>9, <4>1, Zenon
    <3>3. UNCHANGED <<wire, closed, reader, meant>>
      BY <1>0, <2>2, Zenon
    <3> QED BY <1>9, <3>1, <3>2, <3>3, StreamStill, Zenon
  <2> QED BY <2>1, <2>2, Zenon
<1>12. NotificationsIntact'
  BY <1>0, Zenon DEF ReaderInv, NotificationsIntact
<1> QED BY <1>2, <1>10, <1>11, <1>12, Again, Zenon

\* The broker collects a line of the response, and more are to come.
LEMMA CollectStep ==
    ASSUME ReaderInv, TypeOK', Shape', NEW said, IsSeq(said), NEW base \in Nat,
           Stream(said, base), Answered(said, base),
           NEW a, Arrives(a, said, base),
           responseLine # <<>>, responseLine' = Tail(responseLine),
           lines' = Append(lines, Head(responseLine)),
           UNCHANGED <<asked, wire, closed, reader, event, notifications, meant, answers, executing, results>>
    PROVE  ReaderInv'
<1> DEFINE k == Len(lines)
           l == Len(responseLine)
           line == Head(responseLine)
<1>1. /\ IsSeq(responseLine) /\ IsSeq(lines)
  BY Zenon DEF ReaderInv, Shape
<1>2. k \in Nat /\ l \in Nat
  BY <1>1, SeqIs, Zenon
<1>3. /\ l > 0 /\ Len(Tail(responseLine)) = l - 1
      /\ \A i \in 1 .. l - 1 : Tail(responseLine)[i] = responseLine[i + 1]
      /\ line = responseLine[1]
  BY <1>1, TailIs, Zenon
<1>4. /\ Len(Append(lines, line)) = k + 1
      /\ \A i \in 1 .. k : Append(lines, line)[i] = lines[i]
      /\ Append(lines, line)[k + 1] = line
  <2>1. \A x : /\ Len(Append(lines, x)) = Len(lines) + 1
               /\ \A i \in 1 .. Len(lines) : Append(lines, x)[i] = lines[i]
               /\ Append(lines, x)[Len(lines) + 1] = x
    BY <1>1, AppendIs
  <2> HIDE DEF line
  <2> QED BY <2>1, Zenon
<1>5. /\ Response(executing, a, answers[Len(answers)])
      /\ Len(said) = base + Len(a) /\ \A i \in 1 .. Len(a) : said[base + i] = a[i]
      /\ k + l <= Len(a)
      /\ \A i \in 1 .. k : lines[i] = a[i]
      /\ \A i \in 1 .. l : responseLine[i] = a[k + i]
  BY Zenon DEF Arrives
<1> HIDE DEF k, l, line
<1>6. \A i \in 1 .. k + 1 : lines'[i] = a[i]
  <2>1. \A i \in 1 .. k + 1 : i \in 1 .. k \/ i = k + 1
    BY <1>2
  <2>2. 1 \in 1 .. l
    BY <1>2, <1>3
  <2>3. line = a[k + 1]
    BY <1>3, <1>5, <2>2, Zenon
  <2>4. \A i \in 1 .. k + 1 : Append(lines, line)[i] = a[i]
    BY <1>4, <1>5, <2>1, <2>3, Zenon
  <2> QED BY <2>4, Zenon DEF line
<1>7. \A i \in 1 .. l - 1 : responseLine'[i] = a[(k + 1) + i]
  <2>1. \A i \in 1 .. l - 1 : i + 1 \in 1 .. l /\ k + (i + 1) = (k + 1) + i
    BY <1>2
  <2> QED BY <1>3, <1>5, <2>1, Zenon
<1>8. (k + 1) + (l - 1) = k + l /\ base + (k + 1) + (l - 1) = base + k + l
  BY <1>2
<1>9. Len(lines') = k + 1 /\ Len(responseLine') = l - 1
  BY <1>3, <1>4, Zenon DEF line
<1>10. Arrives(a, said, base)'
  BY <1>5, <1>6, <1>7, <1>8, <1>9, Zenon DEF Arrives
<1>11. Here(base)' = Here(base)
  BY <1>8, <1>9, Zenon DEF Here, k, l
<1>12. executing # "none" /\ asked = <<>>
  BY Zenon DEF Answered
<1>13. Answered(said, base)'
  BY <1>10, Zenon DEF Answered
<1>14. Stream(said, base)'
  <2>1. <<>> # <<"password">>
    OBVIOUS
  <2>2. UNCHANGED <<wire, closed, reader, meant>> /\ asked' # <<"password">>
    BY <1>12, <2>1, Zenon
  <2> QED BY <1>11, <1>12, <2>2, StreamStill, Zenon
<1>15. NotificationsIntact'
  BY Zenon DEF ReaderInv, NotificationsIntact
<1> QED BY <1>13, <1>14, <1>15, Again, Zenon

LEMMA ExecuteLineStep ==
    ASSUME ReaderInv, TypeOK', Shape', ExecuteLine
    PROVE  ReaderInv'
<1> DEFINE line == Head(responseLine)
           all == Append(lines, line)
           k == Len(lines)
           answer == answers[Len(answers)]
<1>1. /\ responseLine # <<>> /\ executing # "none" /\ responseLine' = Tail(responseLine)
      /\ UNCHANGED <<vpnVars, wire, closed, notifications, meant, answers>>
  BY ExecuteLineIs, Zenon
<1>2. PICK said : \E base \in Nat : /\ IsSeq(said) /\ Stream(said, base)
                                    /\ Unanswered(said, base) \/ Answered(said, base)
  BY Holds, Zenon
<1>3. PICK base \in Nat : /\ IsSeq(said) /\ Stream(said, base)
                          /\ Unanswered(said, base) \/ Answered(said, base)
  BY <1>2, Zenon
<1>4. Answered(said, base)
  BY <1>1, <1>3, Zenon DEF Unanswered
<1>5. PICK a : Arrives(a, said, base)
  BY <1>4, Zenon DEF Answered
<1>6. /\ Response(executing, a, answer) /\ k + Len(responseLine) <= Len(a)
      /\ \A i \in 1 .. k : lines[i] = a[i]
      /\ \A i \in 1 .. Len(responseLine) : responseLine[i] = a[k + i]
  BY <1>5, Zenon DEF Arrives
<1>7. IsSeq(responseLine) /\ IsSeq(lines) /\ IsSeq(a)
  BY <1>6, Zenon DEF ReaderInv, Shape, Response
<1>8. k \in Nat /\ Len(responseLine) \in Nat /\ Len(a) \in Nat
  BY <1>7, SeqIs, Zenon
<1>9. Len(responseLine) > 0 /\ line = responseLine[1]
  BY <1>1, <1>7, TailIs, Zenon
<1> HIDE DEF line, answer, k
<1>10. 1 \in 1 .. Len(responseLine) /\ k + 1 \in 1 .. Len(a)
  BY <1>6, <1>8, <1>9
<1>11. line = a[k + 1]
  BY <1>6, <1>9, <1>10, Zenon
<1>12. ASSUME Return(answer), k + 1 = Len(a), UNCHANGED <<reader, event>> \/ reader' = "stopped"
       PROVE  ReaderInv'
  <2>1. results' = Append(results, answers[Len(answers)]) /\ executing' = "none" /\ lines' = <<>>
    BY <1>12, Zenon DEF Return, answer
  <2>2. Len(lines) + 1 = Len(a)
    BY <1>12, Zenon DEF k
  <2> QED BY <1>1, <1>3, <1>4, <1>5, <1>12, <2>1, <2>2, FinishStep, Zenon
<1>13. ASSUME executing = "singleLineAck"
       PROVE  \E r \in Acks : line = <<r>> /\ answer = <<"ack", r>> /\ k + 1 = Len(a)
  <2>1. PICK r \in Acks : a = << <<r>> >> /\ answer = <<"ack", r>>
    BY <1>6, <1>13, Zenon DEF Response
  <2>2. Len(a) = 1 /\ a[1] = <<r>>
    BY <2>1, TupleIs, Zenon
  <2>3. k + 1 = 1
    BY <1>8, <1>10, <2>2
  <2> QED BY <1>11, <2>1, <2>2, <2>3, Zenon
<1>14. CASE /\ executing = "singleLineAck" /\ line[1] \in {"SUCCESS:", "ERROR:"}
            /\ Return(<<"ack", line[1]>>) /\ UNCHANGED <<reader, event>>
  <2>1. PICK r \in Acks : line = <<r>> /\ answer = <<"ack", r>> /\ k + 1 = Len(a)
    BY <1>13, <1>14, Zenon
  <2>2. line[1] = r
    BY <2>1, TupleIs, Zenon
  <2> QED BY <1>12, <1>14, <2>1, <2>2, Zenon
<1>15. CASE /\ executing = "singleLineAck" /\ line[1] \notin {"SUCCESS:", "ERROR:"}
            /\ Return(<<"ack", "desynchronized">>) /\ reader' = "stopped"
  <2>1. PICK r \in Acks : line = <<r>> /\ answer = <<"ack", r>> /\ k + 1 = Len(a)
    BY <1>13, <1>15, Zenon
  <2>2. line[1] = r
    BY <2>1, TupleIs, Zenon
  <2>3. r = "desynchronized"
    BY <1>15, <2>2, Zenon DEF Acks
  <2> QED BY <1>12, <1>15, <2>1, <2>3, Zenon
<1>16. CASE /\ executing = "multiLineUntilEnd" /\ line # <<"END">>
            /\ lines' = Append(lines, line)
            /\ UNCHANGED <<reader, event, executing, results>>
  <2>1. UNCHANGED <<asked, wire, closed, reader, event, notifications, meant, answers, executing, results>>
    BY <1>1, <1>16, Zenon DEF vpnVars
  <2>2. lines' = Append(lines, Head(responseLine))
    BY <1>16, Zenon DEF line
  <2> QED BY <1>1, <1>3, <1>4, <1>5, <2>1, <2>2, CollectStep, Zenon
<1>17. ASSUME executing = "multiLineUntilEnd", line = <<"END">>
       PROVE  /\ k + 1 = Len(a) /\ all = a
              /\ answer = IF Unparsable(a) THEN <<"error", "unparsable">>
                          ELSE <<"snapshot", ParseStatusLines(a)>>
  <2>1. /\ \A j \in 1 .. Len(a) - 1 : a[j] # <<"END">>
        /\ answer = IF Unparsable(a) THEN <<"error", "unparsable">>
                    ELSE <<"snapshot", ParseStatusLines(a)>>
    BY <1>6, <1>17, Zenon DEF Response
  <2>2. k + 1 \notin 1 .. Len(a) - 1
    BY <1>11, <1>17, <2>1, Zenon
  <2>3. k + 1 = Len(a)
    BY <1>8, <1>10, <2>2
  <2>4. /\ IsSeq(all) /\ Len(all) = k + 1
        /\ \A i \in 1 .. k : all[i] = lines[i]
        /\ all[k + 1] = line
    <3> HIDE DEF all
    <3>1. all = Append(lines, line)
      BY DEF all
    <3> QED BY <1>7, <3>1, AppendIs, Zenon DEF k
  <2> HIDE DEF all
  <2>5. \A i \in 1 .. k + 1 : i \in 1 .. k \/ i = k + 1
    BY <1>8
  <2>6. \A i \in 1 .. k + 1 : all[i] = a[i]
    BY <1>6, <1>11, <2>4, <2>5, Zenon
  <2>7. all = a
    BY <1>7, <2>3, <2>4, <2>6, SameSeq, Zenon
  <2> QED BY <2>1, <2>3, <2>7, Zenon
<1>18. CASE /\ executing = "multiLineUntilEnd" /\ line = <<"END">> /\ ~Unparsable(all)
            /\ Return(<<"snapshot", ParseStatusLines(all)>>) /\ UNCHANGED <<reader, event>>
  <2> HIDE DEF all
  <2> QED BY <1>12, <1>17, <1>18, Zenon
<1>19. CASE /\ executing = "multiLineUntilEnd" /\ line = <<"END">> /\ Unparsable(all)
            /\ Return(<<"error", "unparsable">>) /\ reader' = "stopped"
  <2> HIDE DEF all
  <2> QED BY <1>12, <1>17, <1>19, Zenon
<1> QED BY <1>14, <1>15, <1>16, <1>18, <1>19, Zenon DEF ExecuteLine, Stop, line

-----------------------------------------------------------------------------
(* The invariant holds, and what follows from it. *)

LEMMA ReaderInvInit == Init => ReaderInv
<1> SUFFICES ASSUME Init PROVE ReaderInv
  OBVIOUS
<1>1. /\ life \in [Cids -> Before] /\ asked = <<>> /\ blocks = 0 /\ closed = FALSE
      /\ reader = "probe" /\ event = NoEvent /\ notifications = <<>>
      /\ responseLine = <<>> /\ executing = "none" /\ lines = <<>> /\ results = <<>>
      /\ meant = <<>> /\ answers = <<>> /\ wire \in {<<>>, <<Prompt>>}
  BY Zenon DEF Init
<1>2. TypeOK
  <2>1. life \in [Cids -> {"none", "pending", "up"}]
    BY <1>1, ReaderAssumption
  <2>2. 0 \in 0 .. MaxBlocks
    <3>1. MaxBlocks \in Nat
      BY ReaderAssumption, Zenon
    <3> QED BY <3>1
  <2>3. "probe" # "block"
    OBVIOUS
  <2> QED BY <1>1, <2>1, <2>2, <2>3, Zenon DEF TypeOK
<1>3. Shape
  BY <1>1, EmptyIs, TupleIs, Zenon DEF Shape
<1>4. NotificationsIntact
  <2>1. Len(<<>>) <= Len(<<>>) /\ \A i \in 1 .. Len(<<>>) : <<>>[i] = <<>>[i]
    BY EmptyIs
  <2>2. IsPrefix(<<>>, <<>>)
    BY <2>1, EmptyIs, IsPrefixIs, Zenon
  <2> QED BY <1>1, <2>2, Zenon DEF NotificationsIntact
<1>5. 0 \in Nat /\ IsSeq(<<>>) /\ Len(<<>>) = 0 /\ 0 + 0 + 0 = 0
  BY EmptyIs
<1>6. Stream(<<>>, 0)
  <2>1. CASE wire = <<Prompt>>
    BY <1>1, <2>1, Zenon DEF Stream
  <2>2. CASE wire = <<>>
    <3>1. Here(0) = Place(NoEvent, Len(meant), Len(<<>>))
      BY <1>1, <1>5, Zenon DEF Here
    <3>2. Leads(wire, meant, <<>>, Here(0), Here(0)) /\ Ends(Here(0), meant, <<>>)
      BY <2>2, <3>1, LeadsNowhere, Zenon DEF Ends
    <3>3. Flows(<<>>, 0)
      BY <3>2, Zenon DEF Flows
    <3>4. <<>> # <<"password">> /\ "probe" \in {"probe", "lines", "block"}
      OBVIOUS
    <3> QED BY <1>1, <3>3, <3>4, Zenon DEF Stream
  <2> QED BY <1>1, <2>1, <2>2, Zenon
<1>7. Unanswered(<<>>, 0)
  BY <1>1, <1>5, Zenon DEF Unanswered
<1> QED BY <1>2, <1>3, <1>4, <1>5, <1>6, <1>7, Zenon DEF ReaderInv, Exchange

LEMMA ReaderInvStep == ReaderInv /\ [Next]_vars => ReaderInv'
<1> SUFFICES ASSUME ReaderInv, [Next]_vars PROVE ReaderInv'
  OBVIOUS
<1>1. TypeOK' /\ Shape'
  BY TypeStep, Zenon DEF ReaderInv
<1>2. CASE UNCHANGED vars
  <2>1. UNCHANGED <<asked, responseLine, executing, lines, results, answers>>
    BY <1>2, Zenon DEF vars, vpnVars, brokerVars
  <2>2. UNCHANGED <<wire, closed, reader, event, notifications, meant>>
    BY <1>2, Zenon DEF vars, readerVars
  <2>3. PICK said : \E base \in Nat : /\ IsSeq(said) /\ Stream(said, base)
                                      /\ Unanswered(said, base) \/ Answered(said, base)
    BY Holds, Zenon
  <2>4. PICK base \in Nat : /\ IsSeq(said) /\ Stream(said, base)
                            /\ Unanswered(said, base) \/ Answered(said, base)
    BY <2>3, Zenon
  <2>5. Stream(said, base)'
    BY <2>1, <2>2, <2>4 DEF Stream, Flows, Here
  <2>6. Unanswered(said, base)' \/ Answered(said, base)'
    BY <2>1, <2>4, AnswerStill, Zenon
  <2>7. NotificationsIntact'
    BY <2>2, Zenon DEF ReaderInv, NotificationsIntact
  <2> QED BY <1>1, <2>4, <2>5, <2>6, <2>7, Again, Zenon
<1>3. CASE \E c \in Cids, t \in EventTypes : VpnEvent(c, t)
  BY <1>1, <1>3, EventStep, Zenon
<1>4. CASE VpnOther \/ VpnHolds \/ VpnGarbles \/ VpnAnswers \/ Cut
  BY <1>1, <1>4, OtherStep, HoldStep, GarbleStep, AnswerStep, CutStep, Zenon
<1>5. CASE Daemon
  BY <1>1, <1>5, ProbeStep, AuthStep, ReadStep, EndsStep, ExecuteLineStep, Zenon DEF Daemon
<1>6. CASE \E contract \in Contracts : Execute(contract)
  BY <1>1, <1>6, ExecuteStep, Zenon
<1> QED BY <1>2, <1>3, <1>4, <1>5, <1>6, Zenon DEF Next

LEMMA ReaderInvAlways == Spec => []ReaderInv
  BY ReaderInvInit, ReaderInvStep, PTL DEF Spec

\* The reader holds an event exactly while it is inside a block, and the broker
\* holds lines only of a status it is executing (ReadEventWithRawLog, execute).
THEOREM ReaderTypes == Spec => []TypeOK
<1>1. ReaderInv => TypeOK
  BY Zenon DEF ReaderInv
<1> QED BY <1>1, ReaderInvAlways, PTL

\* readManagement hands the event loop the notifications OpenVPN wrote, each
\* with its own CID, KID and environment, in order and without a gap, whatever
\* responses, lines of the log and unknown notifications come in between, and
\* wherever the connection breaks.
THEOREM NotificationsAlwaysIntact == Spec => []NotificationsIntact
<1>1. ReaderInv => NotificationsIntact
  BY Zenon DEF ReaderInv
<1> QED BY <1>1, ReaderInvAlways, PTL

\* Every command execute runs gets the response OpenVPN gave to it, and a
\* status is parsed to the clients OpenVPN had, with any columns in any order
\* that has the ones the daemon needs (ParseStatusLines).
THEOREM ResultsAlwaysExact == Spec => []ResultsExact
<1>1. ReaderInv => ResultsExact
  <2> SUFFICES ASSUME ReaderInv PROVE ResultsExact
    OBVIOUS
  <2>1. PICK said : \E base \in Nat : Unanswered(said, base) \/ Answered(said, base)
    BY Holds, Zenon
  <2>2. PICK base \in Nat : Unanswered(said, base) \/ Answered(said, base)
    BY <2>1, Zenon
  <2>3. IsSeq(results) /\ IsSeq(answers)
    BY Zenon DEF ReaderInv, Shape
  <2>4. Len(results) \in Nat
    BY <2>3, SeqIs, Zenon
  <2>5. CASE results = answers
    <3>1. Len(results) <= Len(results)
      BY <2>4
    <3>2. IsPrefix(results, results)
      BY <2>3, <3>1, IsPrefixIs, Zenon
    <3> QED BY <2>5, <3>2, Zenon DEF ResultsExact
  <2>6. CASE Len(answers) = Len(results) + 1 /\ \A i \in 1 .. Len(results) : results[i] = answers[i]
    <3>1. Len(results) <= Len(answers)
      BY <2>4, <2>6
    <3> QED BY <2>3, <2>6, <3>1, IsPrefixIs, Zenon DEF ResultsExact
  <2> QED BY <2>2, <2>5, <2>6, Zenon DEF Unanswered, Answered
<1> QED BY <1>1, ReaderInvAlways, PTL
=============================================================================
