-------------------------- MODULE ManagementReader --------------------------
(***************************************************************************)
(* Lines of the management socket: the password exchange of mgmt.Client    *)
(* (internal/mgmt/client.go), the reader (readManagement in                *)
(* internal/app/management_protocol.go) with the parsing of notifications  *)
(* (internal/mgmt/parser.go), and how the broker collects and parses the   *)
(* response to a command (internal/mgmt/status.go).                        *)
(*                                                                         *)
(* OpenVPN writes a notification or a response at one go, in several       *)
(* lines; the connection may break after any of them.  ManagementBroker    *)
(* takes whole notifications and responses for granted; this module shows  *)
(* that the daemon gets them.  A line is the sequence of its parts.        *)
(***************************************************************************)
EXTENDS Naturals, SequencesExt

CONSTANTS
    Cids,           \* clients
    CN, Address,    \* their common names, and addresses
    Before,         \* what the clients may be when the daemon connects
    Orders,         \* orders of the columns of CLIENT_LIST
    MaxBlocks,      \* bound on notifications and commands
    Faults          \* faults that may happen

FaultKinds == {"cut",       \* the socket is closed, maybe inside a block
               "garbled",   \* a header without its CID or its KID, or a line
                            \* where an acknowledgement should be
               "refused",   \* ERROR in response to a command or a password
               "silent"}    \* nothing at all within a second

Columns == {"Common Name", "Real Address", "Virtual Address",
            "Connected Since", "Connected Since (time_t)", "Client ID"}

\* Every client has a name and an address, and no two of them have both in
\* common: the address has the port.
ASSUME ReaderAssumption ==
    /\ IsFiniteSet(Cids) /\ "" \notin Cids
    /\ \A c \in Cids : CN[c] # "" /\ Address[c] # ""
    /\ \A c, d \in Cids : CN[c] = CN[d] /\ Address[c] = Address[d] => c = d
    /\ \A o \in Orders : /\ o \in Seq(Columns) /\ IsInjective(o)
                         /\ Columns \ {"Connected Since (time_t)"} \subseteq ToSet(o)
    /\ Before \subseteq {"none", "pending", "up"}
    /\ MaxBlocks \in Nat
    /\ Faults \subseteq FaultKinds

VARIABLES
    life,           \* OpenVPN: its clients
    asked,          \* OpenVPN: commands it has not answered
    blocks,         \* number of notifications written and commands executed
    wire, closed,   \* lines not read; nothing more will come
    reader, event,  \* the reader, and the event whose block it is reading
    notifications,  \* notifications handed to the event loop
    responseLine,   \* response lines handed to the broker
    executing,      \* contract of the command the broker executes
    lines,          \* response lines it has collected
    results,        \* results it has handed to the callers
    meant, answers  \* history: notifications and results as OpenVPN meant them

vpnVars == <<life, asked, blocks>>
readerVars == <<reader, event, notifications>>
brokerVars == <<responseLine, executing, lines, results>>
vars == <<vpnVars, wire, closed, readerVars, brokerVars, meant, answers>>

EventTypes == {"CONNECT", "REAUTH", "DISCONNECT", "ESTABLISHED"}
Contracts == {"singleLineAck", "multiLineUntilEnd"}
NoEvent == [type |-> "none"]
Prompt == <<"ENTER PASSWORD:">>

\* The reader is inside a block exactly while it holds an event, the broker
\* holds lines only of a status it is executing, and a command is executed by
\* one of OpenVPN and the broker at a time.
TypeOK ==
    /\ life \in [Cids -> {"none", "pending", "up"}]
    /\ asked \in {<<>>, <<"password">>} \cup {<<c>> : c \in Contracts}
    /\ blocks \in 0 .. MaxBlocks /\ closed \in BOOLEAN
    /\ reader \in {"probe", "password", "lines", "block", "stopped"}
    /\ (event = NoEvent) <=> (reader # "block")
    /\ executing \in Contracts \cup {"none"}
    /\ lines # <<>> => executing = "multiLineUntilEnd"

\* The daemon connects to an OpenVPN that may have clients already.
Init ==
    /\ life \in [Cids -> Before]
    /\ asked = <<>> /\ blocks = 0
    /\ wire \in {<<>>, <<Prompt>>} /\ closed = FALSE
    /\ reader = "probe" /\ event = NoEvent /\ notifications = <<>>
    /\ responseLine = <<>> /\ executing = "none" /\ lines = <<>> /\ results = <<>>
    /\ meant = <<>> /\ answers = <<>>

-----------------------------------------------------------------------------
(* OpenVPN. *)

\* It writes a block at one go, and none before it has the password it wants.
Write(block) ==
    /\ ~closed /\ blocks < MaxBlocks
    /\ \/ reader \in {"lines", "block"}
       \/ reader = "probe" /\ Prompt \notin ToSet(wire)
    /\ wire' = wire \o block
    /\ blocks' = blocks + 1

Kid(t) == CASE t = "CONNECT" -> <<"0">> [] t = "REAUTH" -> <<"1">> [] OTHER -> <<>>

\* The environment of a client, with a line that is no assignment.
EnvBlock(c) ==
    << <<">CLIENT:ENV", "common_name", CN[c]>>, <<">CLIENT:ENV", "no_value">>,
       <<">CLIENT:ENV", "untrusted_ip", Address[c]>>, <<">CLIENT:ENV,END">> >>

Env(c) == {<<"common_name", CN[c]>>, <<"untrusted_ip", Address[c]>>}

\* A client comes, is established, is checked again, or leaves.
VpnEvent(c, t) ==
    /\ life[c] \in CASE t = "CONNECT" -> {"none"} [] t = "REAUTH" -> {"up"}
                     [] t = "ESTABLISHED" -> {"pending"}
                     [] t = "DISCONNECT" -> {"pending", "up"}
    /\ life' = [life EXCEPT ![c] =
                   CASE t = "CONNECT" -> "pending" [] t = "DISCONNECT" -> "none"
                     [] OTHER -> "up"]
    /\ Write(<< <<">CLIENT:", t, c>> \o Kid(t) >> \o EnvBlock(c))
    /\ meant' = Append(meant, [type |-> t, cid |-> c, kid |-> Kid(t), env |-> Env(c)])
    /\ UNCHANGED <<asked, closed, readerVars, brokerVars, answers>>

\* Notifications that mean nothing to the daemon: an address, an event of a
\* kind it does not know with its environment, and a log line.
VpnOther ==
    /\ \/ Write(<< <<">CLIENT:", "ADDRESS">> >>)
       \/ Write(<< <<">LOG:">> >>)
       \/ \E c \in Cids : Write(<< <<">CLIENT:", "CR_RESPONSE", c>> >> \o EnvBlock(c))
    /\ UNCHANGED <<life, asked, closed, readerVars, brokerVars, meant,
                   answers>>

VpnHolds ==
    /\ Write(<< <<">HOLD:">> >>)
    /\ meant' = Append(meant, [type |-> "hold"])
    /\ UNCHANGED <<life, asked, closed, readerVars, brokerVars, answers>>

\* A header without its CID, or its KID; what follows it is never read.
VpnGarbles ==
    /\ "garbled" \in Faults
    /\ \/ \E t \in {"DISCONNECT", "ESTABLISHED"} : Write(<< <<">CLIENT:", t>> >>)
       \/ \E t \in {"CONNECT", "REAUTH"}, c \in Cids : Write(<< <<">CLIENT:", t, c>> >>)
    /\ UNCHANGED <<life, asked, closed, readerVars, brokerVars, meant,
                   answers>>

\* What a status shows of a client: it has an address, and a route, once it
\* is established.
Cell(c, column) ==
    CASE column = "Common Name" -> CN[c]
      [] column = "Real Address" -> Address[c]
      [] column = "Virtual Address" -> IF life[c] = "up" THEN "vip" ELSE ""
      [] column = "Connected Since" -> "date"
      [] column = "Connected Since (time_t)" -> "seconds"
      [] column = "Client ID" -> c

RouteColumns == <<"Virtual Address", "Common Name", "Real Address">>

Row(kind, columns, c) == <<kind>> \o [i \in DOMAIN columns |-> Cell(c, columns[i])]

StatusBlock(order) ==
    LET here(states) == SetToSeq({c \in Cids : life[c] \in states})
        table(kind, columns, cs) ==
            << <<"HEADER", kind>> \o columns >>
            \o [i \in DOMAIN cs |-> Row(kind, columns, cs[i])]
    IN  << <<"TITLE">> >>
        \o table("CLIENT_LIST", order, here({"pending", "up"}))
        \o table("ROUTING_TABLE", RouteColumns, here({"up"}))
        \o << <<"END">> >>

\* What the daemon should make of it: the clients, unless the version of
\* OpenVPN gives no time as a number.
Meaning(order) ==
    IF life # [c \in Cids |-> "none"] /\ "Connected Since (time_t)" \notin ToSet(order)
    THEN <<"error", "unparsable">>
    ELSE <<"snapshot",
          {[cid |-> c, cn |-> CN[c], address |-> Address[c], since |-> "seconds",
           established |-> life[c] = "up", routed |-> life[c] = "up"] :
              c \in {d \in Cids : life[d] # "none"}}>>

AckLines ==
    {"SUCCESS:"} \cup {IF f = "refused" THEN "ERROR:" ELSE "desynchronized" :
                          f \in Faults \cap {"refused", "garbled"}}

\* It answers the command, or the password.
VpnAnswers ==
    /\ asked # <<>> /\ ~closed
    /\ asked' = <<>>
    /\ \/ \E order \in Orders :
             /\ Head(asked) = "multiLineUntilEnd"
             /\ wire' = wire \o StatusBlock(order)
             /\ answers' = Append(answers, Meaning(order))
       \/ \E r \in AckLines :
             /\ Head(asked) # "multiLineUntilEnd"
             /\ wire' = Append(wire, <<r>>)
             /\ answers' = IF Head(asked) = "password" THEN answers
                                                       ELSE Append(answers, <<"ack", r>>)
    /\ UNCHANGED <<life, blocks, closed, readerVars, brokerVars, meant>>

Cut ==
    /\ "cut" \in Faults /\ ~closed
    /\ \E n \in 0 .. Len(wire) : wire' = SubSeq(wire, 1, n)
    /\ closed' = TRUE
    /\ UNCHANGED <<vpnVars, readerVars, brokerVars, meant, answers>>

-----------------------------------------------------------------------------
(* Client.authenticate. *)

Read == wire # <<>> /\ wire' = Tail(wire)
\* Mutant: the event of an unfinished block is kept.
StopInsideBlock == reader' = "stopped" /\ UNCHANGED event
Stop == reader' = "stopped" /\ event' = NoEvent

\* Mutant: the bytes read while probing are not put back.
ProbeForgets ==
    /\ reader = "probe"
    /\ \/ /\ wire # <<>> /\ Head(wire) = Prompt
          /\ Read /\ reader' = "password" /\ asked' = <<"password">>
          /\ UNCHANGED event
       \/ /\ wire # <<>> /\ Head(wire) # Prompt
          /\ Read /\ reader' = "lines" /\ UNCHANGED <<asked, event>>
       \/ /\ wire = <<>> /\ (closed \/ "silent" \in Faults)
          /\ Stop /\ UNCHANGED <<wire, asked>>
    /\ UNCHANGED <<life, blocks, closed, notifications, brokerVars, meant,
                   answers>>

\* The first 15 bytes: the prompt, to which the password is written; or the
\* beginning of a line, which is put back before the scanner; or nothing.
Probe ==
    /\ reader = "probe"
    /\ \/ /\ wire # <<>> /\ Head(wire) = Prompt
          /\ Read /\ reader' = "password" /\ asked' = <<"password">>
          /\ UNCHANGED event
       \/ /\ wire # <<>> /\ Head(wire) # Prompt
          /\ reader' = "lines" /\ UNCHANGED <<wire, asked, event>>
       \/ /\ wire = <<>> /\ (closed \/ "silent" \in Faults)
          /\ Stop /\ UNCHANGED <<wire, asked>>
    /\ UNCHANGED <<life, blocks, closed, notifications, brokerVars, meant,
                   answers>>

AuthResponse ==
    /\ reader = "password"
    /\ \/ Read /\ Head(wire) = <<"SUCCESS:">> /\ reader' = "lines" /\ UNCHANGED event
       \/ Read /\ Head(wire) # <<"SUCCESS:">> /\ Stop
       \/ wire = <<>> /\ closed /\ Stop /\ UNCHANGED wire
    /\ UNCHANGED <<vpnVars, closed, notifications, brokerVars, meant, answers>>

-----------------------------------------------------------------------------
(* readManagement. *)

\* Mutant: an address is taken for an event with a block.
AddressWithBlock(line) ==
    LET t == line[2] IN
    CASE t \in {"CONNECT", "REAUTH"} -> IF Len(line) < 4 THEN "error" ELSE t
      [] t \in {"DISCONNECT", "ESTABLISHED"} -> IF Len(line) < 3 THEN "error" ELSE t
      [] OTHER -> "Unknown"

\* ParseHeader: the type of an event, or "error".
ParseHeader(line) ==
    LET t == line[2] IN
    CASE t \in {"CONNECT", "REAUTH"} -> IF Len(line) < 4 THEN "error" ELSE t
      [] t \in {"DISCONNECT", "ESTABLISHED"} -> IF Len(line) < 3 THEN "error" ELSE t
      [] t = "ADDRESS" -> "Ignored"
      [] OTHER -> "Unknown"

\* A line outside a block: the header of an event, a hold, a notification to
\* ignore, or a line of a response.
ReadLine ==
    /\ reader = "lines" /\ Read
    /\ LET line == Head(wire)
           t == ParseHeader(line)
       IN  \/ /\ line[1] = ">CLIENT:" /\ t = "error"
              /\ Stop /\ UNCHANGED <<notifications, responseLine>>
           \/ /\ line[1] = ">CLIENT:" /\ t = "Ignored"
              /\ UNCHANGED <<readerVars, responseLine>>
           \/ /\ line[1] = ">CLIENT:" /\ t \notin {"error", "Ignored"}
              /\ reader' = "block"
              /\ event' = [type |-> t, env |-> {},
                           cid |-> IF t = "Unknown" THEN "" ELSE line[3],
                           kid |-> SubSeq(line, 4, Len(line))]
              /\ UNCHANGED <<notifications, responseLine>>
           \/ /\ line[1] = ">HOLD:"
              /\ notifications' = Append(notifications, [type |-> "hold"])
              /\ UNCHANGED <<reader, event, responseLine>>
           \/ line[1] = ">LOG:" /\ UNCHANGED <<readerVars, responseLine>>
           \/ /\ line[1] \notin {">CLIENT:", ">HOLD:", ">LOG:"}
              /\ responseLine' = Append(responseLine, line)
              /\ UNCHANGED readerVars
    /\ UNCHANGED <<vpnVars, closed, executing, lines, results, meant, answers>>

\* ReadEventWithRawLog: a line of a block.  A line that is not of the
\* environment, or is no assignment, is skipped; at the end an event of a
\* known type is handed over.
ReadBlockLine ==
    /\ reader = "block" /\ Read
    /\ LET line == Head(wire) IN
       \/ /\ line = <<">CLIENT:ENV,END">>
          /\ reader' = "lines" /\ event' = NoEvent
          /\ notifications' = IF event.type = "Unknown" THEN notifications
                              ELSE Append(notifications, event)
       \/ /\ line[1] = ">CLIENT:ENV" /\ Len(line) = 3
          /\ event' = [event EXCEPT !.env = @ \cup {<<line[2], line[3]>>}]
          /\ UNCHANGED <<reader, notifications>>
       \/ /\ line[1] # ">CLIENT:ENV,END" /\ ~(line[1] = ">CLIENT:ENV" /\ Len(line) = 3)
          /\ UNCHANGED readerVars
    /\ UNCHANGED <<vpnVars, closed, brokerVars, meant, answers>>

\* The socket is closed: whatever block was being read is given up.
ReadEnds ==
    /\ reader \in {"lines", "block"} /\ wire = <<>> /\ closed
    /\ Stop
    /\ UNCHANGED <<vpnVars, wire, closed, notifications, brokerVars, meant, answers>>

-----------------------------------------------------------------------------
(* statusParser. *)

\* consume, for a HEADER: the columns of the rows of a kind from line i on, by
\* the last header before it.
Header(rows, kind, i) ==
    LET heads == {j \in 1 .. i - 1 : /\ Len(rows[j]) >= 3 /\ rows[j][1] = "HEADER"
                                     /\ rows[j][2] = kind}
    IN  IF heads = {} THEN <<>>
        ELSE SubSeq(rows[Max(heads)], 3, Len(rows[Max(heads)]))

\* Mutant: the columns are counted from the kind of the row.
ValueOffByOne(rows, i, names) ==
    LET header == Header(rows, rows[i][1], i)
        known == {k \in (DOMAIN names) \X (DOMAIN header) :
                     header[k[2]] = names[k[1]] /\ k[2] <= Len(rows[i])}
        first == CHOOSE k \in known : \A l \in known : k[1] <= l[1]
    IN  IF known = {} THEN "" ELSE rows[i][first[2]]

\* statusValue: the value in line i under the first of the names its header
\* has, or "".
StatusValue(rows, i, names) ==
    LET header == Header(rows, rows[i][1], i)
        known == {k \in (DOMAIN names) \X (DOMAIN header) :
                     header[k[2]] = names[k[1]] /\ k[2] + 1 <= Len(rows[i])}
        first == CHOOSE k \in known : \A l \in known : k[1] <= l[1]
    IN  IF known = {} THEN "" ELSE rows[i][first[2] + 1]

ParseClient(rows, i) ==
    LET value(names) == StatusValue(rows, i, names) IN
    [cid |-> value(<<"Client ID">>), cn |-> value(<<"Common Name">>),
     address |-> value(<<"Real Address">>), vip |-> value(<<"Virtual Address">>),
     since |-> value(<<"Connected Since (time_t)", "Connected Since">>)]

ParseRoute(rows, i) ==
    <<StatusValue(rows, i, <<"Common Name">>), StatusValue(rows, i, <<"Real Address">>)>>

\* consume, for the other rows: what each of them says, unless it lacks the
\* values that matter.
Rows(rows, kind) == {i \in DOMAIN rows : rows[i][1] = kind}

Clients(rows) ==
    {c \in {ParseClient(rows, i) : i \in Rows(rows, "CLIENT_LIST")} :
        "" \notin {c.cid, c.cn, c.since}}

Routes(rows) ==
    {r \in {ParseRoute(rows, i) : i \in Rows(rows, "ROUTING_TABLE")} :
        "" \notin {r[1], r[2]}}

\* A time that is no number spoils the whole response.
Unparsable(rows) == \E c \in Clients(rows) : c.since # "seconds"

\* finalize: who is established, and who has a route.
ParseStatusLines(rows) ==
    LET routes == Routes(rows) IN
    {[cid |-> c.cid, cn |-> c.cn, address |-> c.address, since |-> c.since,
      established |-> c.vip # "", routed |-> <<c.cn, c.address>> \in routes] :
        c \in Clients(rows)}

-----------------------------------------------------------------------------
(* managementBroker.execute. *)

Execute(contract) ==
    /\ reader \in {"lines", "block"} /\ ~closed /\ executing = "none"
    /\ blocks < MaxBlocks /\ blocks' = blocks + 1
    /\ executing' = contract /\ asked' = <<contract>>
    /\ UNCHANGED <<life, wire, closed, readerVars, responseLine, lines,
                   results, meant, answers>>

Return(result) ==
    results' = Append(results, result) /\ executing' = "none" /\ lines' = <<>>

\* The next response line.  Anything unexpected is fatal to the connection.
ExecuteLine ==
    /\ responseLine # <<>> /\ executing # "none"
    /\ responseLine' = Tail(responseLine)
    /\ LET line == Head(responseLine)
           all == Append(lines, line)
       IN  \/ /\ executing = "singleLineAck" /\ line[1] \in {"SUCCESS:", "ERROR:"}
              /\ Return(<<"ack", line[1]>>) /\ UNCHANGED <<reader, event>>
           \/ /\ executing = "singleLineAck" /\ line[1] \notin {"SUCCESS:", "ERROR:"}
              /\ Return(<<"ack", "desynchronized">>) /\ Stop
           \/ /\ executing = "multiLineUntilEnd" /\ line # <<"END">>
              /\ lines' = Append(lines, line)
              /\ UNCHANGED <<reader, event, executing, results>>
           \/ /\ executing = "multiLineUntilEnd" /\ line = <<"END">> /\ ~Unparsable(all)
              /\ Return(<<"snapshot", ParseStatusLines(all)>>) /\ UNCHANGED <<reader, event>>
           \/ /\ executing = "multiLineUntilEnd" /\ line = <<"END">> /\ Unparsable(all)
              /\ Return(<<"error", "unparsable">>) /\ Stop
    /\ UNCHANGED <<vpnVars, wire, closed, notifications, meant, answers>>

-----------------------------------------------------------------------------
Daemon == Probe \/ AuthResponse \/ ReadLine \/ ReadBlockLine \/ ReadEnds \/ ExecuteLine

Next ==
    \/ \E c \in Cids, t \in EventTypes : VpnEvent(c, t)
    \/ VpnOther \/ VpnHolds \/ VpnGarbles \/ VpnAnswers \/ Cut
    \/ Daemon
    \/ \E contract \in Contracts : Execute(contract)

Spec == Init /\ [][Next]_vars

\* The reader and the broker run, and OpenVPN answers what it is asked.
FairSpec == Spec /\ WF_vars(Daemon) /\ WF_vars(VpnAnswers)

-----------------------------------------------------------------------------
(* Properties. *)

\* The event loop gets the notifications OpenVPN wrote, in order, each with
\* its own CID, KID and environment: none is lost (readManagement, Client.
\* authenticate's probe), none is put together from the lines of two blocks or
\* from half a block (ReadEventWithRawLog).
NotificationsIntact == IsPrefix(notifications, meant)

\* Every command gets the response OpenVPN gave to it, whatever notifications
\* come in between: an acknowledgement as it is, a status as the clients
\* OpenVPN had when it wrote it, established and routed exactly if they were
\* (execute, ParseStatusLines); a response cut short gives no result.
ResultsExact == IsPrefix(results, answers)

\* As long as the connection lives, everything OpenVPN writes arrives: no
\* block leaves the reader waiting for lines that do not come.
AllDelivered ==
    []<>(\/ reader \in {"probe", "stopped"}
         \/ notifications = meant /\ results = answers)
=============================================================================
