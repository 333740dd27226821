-------------------------- MODULE ReaderWireProofs --------------------------
(***************************************************************************)
(* The inductive invariant of ManagementReader, ReaderInv, and that what   *)
(* OpenVPN writes keeps it, for any clients, any columns of the status and *)
(* any faults.                                                             *)
(*                                                                         *)
(* What the lines on the wire are worth depends on where the reader is     *)
(* when it gets to them.  A Place says so: the event it has begun, and how *)
(* many notifications and response lines it has handed on.  Leads says     *)
(* that the lines take the reader from one place to another and that       *)
(* everything it hands on along the way is what OpenVPN meant.  ReaderInv  *)
(* says that the wire leads from where the reader is to the end of all     *)
(* that OpenVPN has written, unless the connection broke or the reader     *)
(* gives up, and that the broker holds the beginning of the response to    *)
(* the command it executes (Exchange).  A block extends the way at its     *)
(* end.                                                                    *)
(***************************************************************************)
EXTENDS ReaderStatusProofs
-----------------------------------------------------------------------------
(* What the daemon makes of the lines that are still to be read. *)

Stopped == [type |-> "stopped"]

\* The event whose block is being read, after a line.
After(s, line) ==
    IF s = Stopped THEN Stopped
    ELSE IF s = NoEvent
    THEN IF line[1] # ">CLIENT:" \/ ParseHeader(line) = "Ignored" THEN NoEvent
         ELSE IF ParseHeader(line) = "error" THEN Stopped
         ELSE [type |-> ParseHeader(line), env |-> {},
               cid |-> IF ParseHeader(line) = "Unknown" THEN "" ELSE line[3],
               kid |-> SubSeq(line, 4, Len(line))]
    ELSE IF line = <<">CLIENT:ENV,END">> THEN NoEvent
    ELSE IF line[1] = ">CLIENT:ENV" /\ Len(line) = 3
    THEN [s EXCEPT !.env = @ \cup {<<line[2], line[3]>>}]
    ELSE s

\* A line completes a notification, or is one of a response.
Hands(s, line) ==
    \/ s = NoEvent /\ line[1] = ">HOLD:"
    \/ /\ s # NoEvent /\ s # Stopped /\ s.type # "Unknown"
       /\ line = <<">CLIENT:ENV,END">>

Handed(s) == IF s = NoEvent THEN [type |-> "hold"] ELSE s

Responds(s, line) == s = NoEvent /\ line[1] \notin {">CLIENT:", ">HOLD:", ">LOG:"}

\* A place in the stream: the event being read, and how many notifications and
\* lines of a response come before it.
Place(s, n, r) == [st |-> s, n |-> n, r |-> r]

Move(p, line) ==
    Place(After(p.st, line), IF Hands(p.st, line) THEN p.n + 1 ELSE p.n,
          IF Responds(p.st, line) THEN p.r + 1 ELSE p.r)

\* The line says what was meant: the next of the notifications m, or the next
\* line of the response a.
Fits(p, line, m, a) ==
    /\ Hands(p.st, line) => p.n + 1 \in 1 .. Len(m) /\ m[p.n + 1] = Handed(p.st)
    /\ Responds(p.st, line) => p.r + 1 \in 1 .. Len(a) /\ a[p.r + 1] = line

\* The lines w lead from the place p to q.
Leads(w, m, a, p, q) ==
    \E f : /\ f[1] = p /\ f[Len(w) + 1] = q
           /\ \A i \in 1 .. Len(w) : f[i + 1] = Move(f[i], w[i]) /\ Fits(f[i], w[i], m, a)

LEMMA LeadsNowhere == ASSUME NEW m, NEW a, NEW p PROVE Leads(<<>>, m, a, p, p)
<1> DEFINE f == [i \in {1} |-> p]
<1>1. f[1] = p /\ f[Len(<<>>) + 1] = p /\ \A i \in 1 .. Len(<<>>) : FALSE
  OBVIOUS
<1> HIDE DEF f
<1> QED BY <1>1, Zenon DEF Leads

LEMMA LeadsOn ==
    ASSUME NEW w, IsSeq(w), NEW m, NEW a, NEW p, NEW q, Leads(w, m, a, p, q),
           NEW x, Fits(q, x, m, a)
    PROVE  Leads(Append(w, x), m, a, p, Move(q, x))
<1> DEFINE l == Len(w)
           v == Append(w, x)
<1>1. PICK f : /\ f[1] = p /\ f[l + 1] = q
               /\ \A i \in 1 .. l : f[i + 1] = Move(f[i], w[i]) /\ Fits(f[i], w[i], m, a)
  BY Zenon DEF Leads
<1>2. /\ l \in Nat /\ Len(v) = l + 1 /\ v[l + 1] = x
      /\ \A i \in 1 .. l : v[i] = w[i]
  BY AppendIs, SeqIs
<1> DEFINE g == [i \in 1 .. l + 2 |-> IF i = l + 2 THEN Move(q, x) ELSE f[i]]
<1> HIDE DEF l, v
<1>3. /\ \A i \in 1 .. l + 1 : g[i] = f[i]
      /\ g[l + 2] = Move(q, x)
  BY <1>2
<1> HIDE DEF g
<1>4. g[1] = p /\ g[Len(v) + 1] = Move(q, x)
  <2>1. 1 \in 1 .. l + 1 /\ Len(v) + 1 = l + 2
    BY <1>2
  <2> QED BY <1>1, <1>3, <2>1, Zenon
<1>5. ASSUME NEW i \in 1 .. Len(v)
      PROVE  g[i + 1] = Move(g[i], v[i]) /\ Fits(g[i], v[i], m, a)
  <2>1. CASE i = l + 1
    <3>1. i \in 1 .. l + 1 /\ i + 1 = l + 2
      BY <1>2, <2>1
    <3>2. g[i] = q /\ g[i + 1] = Move(q, x) /\ v[i] = x
      BY <1>1, <1>2, <1>3, <2>1, <3>1, Zenon
    <3> QED BY <3>2, Zenon
  <2>2. CASE i # l + 1
    <3>1. i \in 1 .. l /\ i \in 1 .. l + 1 /\ i + 1 \in 1 .. l + 1
      BY <1>2, <1>5, <2>2
    <3> QED BY <1>1, <1>2, <1>3, <3>1, Zenon
  <2> QED BY <2>1, <2>2, Zenon
<1> QED BY <1>4, <1>5, Zenon DEF Leads, v

LEMMA LeadsFrom ==
    ASSUME NEW w, IsSeq(w), w # <<>>, NEW m, NEW a, NEW p, NEW q, Leads(w, m, a, p, q)
    PROVE  Leads(Tail(w), m, a, Move(p, Head(w)), q) /\ Fits(p, Head(w), m, a)
<1> DEFINE l == Len(w)
           v == Tail(w)
<1>1. PICK f : /\ f[1] = p /\ f[l + 1] = q
               /\ \A i \in 1 .. l : f[i + 1] = Move(f[i], w[i]) /\ Fits(f[i], w[i], m, a)
  BY Zenon DEF Leads
<1>2. /\ l \in Nat /\ l > 0 /\ Len(v) = l - 1 /\ Head(w) = w[1]
      /\ \A i \in 1 .. l - 1 : v[i] = w[i + 1]
  BY TailIs, SeqIs
<1> DEFINE g == [i \in 1 .. l |-> f[i + 1]]
<1> HIDE DEF l, v
<1>3. 1 \in 1 .. l /\ \A i \in 1 .. l : g[i] = f[i + 1]
  BY <1>2
<1>4. f[1 + 1] = Move(p, Head(w)) /\ Fits(p, Head(w), m, a)
  BY <1>1, <1>2, <1>3, Zenon
<1> HIDE DEF g
<1>5. g[1] = Move(p, Head(w)) /\ g[Len(v) + 1] = q
  <2>1. l \in 1 .. l /\ Len(v) + 1 = l
    BY <1>2
  <2> QED BY <1>1, <1>3, <1>4, <2>1, Zenon
<1>6. ASSUME NEW i \in 1 .. Len(v)
      PROVE  g[i + 1] = Move(g[i], v[i]) /\ Fits(g[i], v[i], m, a)
  <2>1. i \in 1 .. l - 1 /\ i \in 1 .. l /\ i + 1 \in 1 .. l
    BY <1>2, <1>6
  <2> QED BY <1>1, <1>2, <1>3, <2>1, Zenon
<1> QED BY <1>4, <1>5, <1>6, Zenon DEF Leads, v

LEMMA LeadsShort ==
    ASSUME NEW w, IsSeq(w), NEW m, NEW a, NEW p, NEW q, Leads(w, m, a, p, q),
           NEW n \in 0 .. Len(w)
    PROVE  \E r : Leads(SubSeq(w, 1, n), m, a, p, r)
<1> DEFINE l == Len(w)
           v == SubSeq(w, 1, n)
<1>1. PICK f : /\ f[1] = p /\ f[l + 1] = q
               /\ \A i \in 1 .. l : f[i + 1] = Move(f[i], w[i]) /\ Fits(f[i], w[i], m, a)
  BY Zenon DEF Leads
<1>2. l \in Nat /\ Len(v) = n /\ \A i \in 1 .. n : v[i] = w[i]
  BY PrefixIs, SeqIs
<1>3. \A i \in 1 .. n : i \in 1 .. l
  BY <1>2
<1> HIDE DEF l, v
<1>4. \A i \in 1 .. Len(v) : f[i + 1] = Move(f[i], v[i]) /\ Fits(f[i], v[i], m, a)
  BY <1>1, <1>2, <1>3, Zenon
<1>5. Leads(v, m, a, p, f[Len(v) + 1])
  BY <1>1, <1>4, Zenon DEF Leads
<1> QED BY <1>5, Zenon DEF v

\* Something more has been meant, or a response has begun.
LEMMA LeadsStill ==
    ASSUME NEW w, NEW m, NEW a, NEW p, NEW q, Leads(w, m, a, p, q), NEW n, NEW b,
           \A i \in 1 .. Len(m) : i \in 1 .. Len(n) /\ n[i] = m[i],
           \A i \in 1 .. Len(a) : i \in 1 .. Len(b) /\ b[i] = a[i]
    PROVE  Leads(w, n, b, p, q)
<1>1. PICK f : /\ f[1] = p /\ f[Len(w) + 1] = q
               /\ \A i \in 1 .. Len(w) : f[i + 1] = Move(f[i], w[i]) /\ Fits(f[i], w[i], m, a)
  BY Zenon DEF Leads
<1>2. \A i \in 1 .. Len(w) : Fits(f[i], w[i], n, b)
  BY <1>1, Zenon DEF Fits
<1> QED BY <1>1, <1>2, Zenon DEF Leads

-----------------------------------------------------------------------------
(* The lines of a block. *)

Ev(t, n, x, y) == [type |-> t, env |-> n, cid |-> x, kid |-> y]

LEMMA EvIs ==
    ASSUME NEW t \in EventTypes \cup {"Unknown"}, NEW n, NEW x, NEW y
    PROVE  /\ Ev(t, n, x, y) # NoEvent /\ Ev(t, n, x, y) # Stopped
           /\ Ev(t, n, x, y).type = t
           /\ DOMAIN Ev(t, n, x, y) = {"type", "env", "cid", "kid"}
           /\ \A z : [Ev(t, n, x, y) EXCEPT !.env = @ \cup z] = Ev(t, n \cup z, x, y)
<1>1. t # "none" /\ t # "stopped"
  BY DEF EventTypes
<1> QED BY <1>1 DEF Ev, NoEvent, Stopped

LEMMA PlaceIs ==
    ASSUME NEW s, NEW n, NEW r
    PROVE  /\ Place(s, n, r).st = s /\ Place(s, n, r).n = n /\ Place(s, n, r).r = r
           /\ \A line : Move(Place(s, n, r), line) =
                 Place(After(s, line), IF Hands(s, line) THEN n + 1 ELSE n,
                       IF Responds(s, line) THEN r + 1 ELSE r)
           /\ \A line, m, a : Fits(Place(s, n, r), line, m, a) <=>
                 /\ Hands(s, line) => n + 1 \in 1 .. Len(m) /\ m[n + 1] = Handed(s)
                 /\ Responds(s, line) => r + 1 \in 1 .. Len(a) /\ a[r + 1] = line
<1>1. Place(s, n, r).st = s /\ Place(s, n, r).n = n /\ Place(s, n, r).r = r
  BY DEF Place
<1> QED BY <1>1, Zenon DEF Move, Fits

\* A line that completes nothing, and one that completes an event.
LEMMA QuietMove ==
    ASSUME NEW s, NEW line, ~Hands(s, line), ~Responds(s, line), NEW n, NEW r, NEW m, NEW a
    PROVE  /\ Move(Place(s, n, r), line) = Place(After(s, line), n, r)
           /\ Fits(Place(s, n, r), line, m, a)
  BY PlaceIs

LEMMA LeadsQuietly ==
    ASSUME NEW w, IsSeq(w), NEW m, NEW a, NEW p, NEW s, NEW n, NEW r,
           Leads(w, m, a, p, Place(s, n, r)), NEW x, ~Hands(s, x), ~Responds(s, x)
    PROVE  Leads(Append(w, x), m, a, p, Place(After(s, x), n, r))
<1>1. /\ Move(Place(s, n, r), x) = Place(After(s, x), n, r)
      /\ Fits(Place(s, n, r), x, m, a)
  BY QuietMove, Zenon
<1>2. Leads(Append(w, x), m, a, p, Move(Place(s, n, r), x))
  BY <1>1, LeadsOn, Zenon
<1> QED BY <1>1, <1>2, Zenon

EnvMoves(t, n, x, y, s) ==
    /\ \A u, v : /\ After(s, <<">CLIENT:ENV", u, v>>) = Ev(t, n \cup {<<u, v>>}, x, y)
                 /\ ~Hands(s, <<">CLIENT:ENV", u, v>>)
                 /\ ~Responds(s, <<">CLIENT:ENV", u, v>>)
    /\ \A u : /\ After(s, <<">CLIENT:ENV", u>>) = s
              /\ ~Hands(s, <<">CLIENT:ENV", u>>)
              /\ ~Responds(s, <<">CLIENT:ENV", u>>)
    /\ After(s, <<">CLIENT:ENV,END">>) = NoEvent
    /\ Hands(s, <<">CLIENT:ENV,END">>) <=> t # "Unknown"
    /\ ~Responds(s, <<">CLIENT:ENV,END">>)
    /\ Handed(s) = s

LEMMA EnvMovesAre ==
    ASSUME NEW t \in EventTypes \cup {"Unknown"}, NEW n, NEW x, NEW y
    PROVE  EnvMoves(t, n, x, y, Ev(t, n, x, y))
<1> DEFINE s == Ev(t, n, x, y)
<1>1. /\ s # NoEvent /\ s # Stopped /\ s.type = t
      /\ \A z : [s EXCEPT !.env = @ \cup z] = Ev(t, n \cup z, x, y)
  BY EvIs
<1> HIDE DEF s
<1>2. ASSUME NEW u, NEW v
      PROVE  /\ <<">CLIENT:ENV", u, v>> # <<">CLIENT:ENV,END">>
             /\ <<">CLIENT:ENV", u, v>>[1] = ">CLIENT:ENV"
             /\ <<">CLIENT:ENV", u, v>>[2] = u /\ <<">CLIENT:ENV", u, v>>[3] = v
             /\ Len(<<">CLIENT:ENV", u, v>>) = 3
  OBVIOUS
<1>3. ASSUME NEW u
      PROVE  /\ <<">CLIENT:ENV", u>> # <<">CLIENT:ENV,END">>
             /\ Len(<<">CLIENT:ENV", u>>) # 3
  OBVIOUS
<1>5. ASSUME NEW u, NEW v
      PROVE  /\ After(s, <<">CLIENT:ENV", u, v>>) = Ev(t, n \cup {<<u, v>>}, x, y)
             /\ ~Hands(s, <<">CLIENT:ENV", u, v>>)
             /\ ~Responds(s, <<">CLIENT:ENV", u, v>>)
  BY <1>1, <1>2, Zenon DEF After, Hands, Responds
<1>6. ASSUME NEW u
      PROVE  /\ After(s, <<">CLIENT:ENV", u>>) = s
             /\ ~Hands(s, <<">CLIENT:ENV", u>>)
             /\ ~Responds(s, <<">CLIENT:ENV", u>>)
  BY <1>1, <1>3, Zenon DEF After, Hands, Responds
<1>7. /\ After(s, <<">CLIENT:ENV,END">>) = NoEvent
      /\ Hands(s, <<">CLIENT:ENV,END">>) <=> t # "Unknown"
      /\ ~Responds(s, <<">CLIENT:ENV,END">>) /\ Handed(s) = s
  BY <1>1, Zenon DEF After, Hands, Responds, Handed
<1> QED BY <1>5, <1>6, <1>7, Zenon DEF s, EnvMoves

LEMMA FiveLines ==
    ASSUME NEW w, IsSeq(w), NEW h, NEW x, NEW y, NEW z, NEW e
    PROVE  w \o (<<h>> \o <<x, y, z, e>>) =
               Append(Append(Append(Append(Append(w, h), x), y), z), e)
<1>1. PICK X : w \in Seq(X)
  BY Zenon DEF IsSeq
<1> DEFINE Y == X \cup {h, x, y, z, e}
<1>2. w \in Seq(Y) /\ h \in Y /\ x \in Y /\ y \in Y /\ z \in Y /\ e \in Y
  BY <1>1
<1> HIDE DEF Y
<1>3. <<h>> \o <<x, y, z, e>> = <<h, x, y, z, e>>
  <2> DEFINE v == <<h>> \o <<x, y, z, e>>
  <2>1. IsSeq(<<h>>) /\ IsSeq(<<x, y, z, e>>) /\ IsSeq(<<h, x, y, z, e>>)
    BY <1>2 DEF IsSeq
  <2>2. IsSeq(v) /\ Len(v) = 5
    BY <2>1, ConcatIs
  <2>3. /\ v[1] = h /\ v[2] = x /\ v[3] = y /\ v[4] = z /\ v[5] = e
    OBVIOUS
  <2> HIDE DEF v
  <2>4. Len(<<h, x, y, z, e>>) = 5 /\ \A i \in 1 .. 5 : v[i] = <<h, x, y, z, e>>[i]
    BY <2>3
  <2> QED BY <2>1, <2>2, <2>4, SameSeq, Zenon DEF v
<1> QED BY <1>2, <1>3

\* A block brings one notification, or none if its event is unknown.
LEMMA BlockLeads ==
    ASSUME NEW w, IsSeq(w), NEW m, NEW a, NEW p, NEW k, NEW r,
           Leads(w, m, a, p, Place(NoEvent, k, r)),
           NEW t \in EventTypes \cup {"Unknown"}, NEW x, NEW y, NEW c, NEW h,
           After(NoEvent, h) = Ev(t, {}, x, y), ~Hands(NoEvent, h), ~Responds(NoEvent, h),
           t # "Unknown" => k + 1 \in 1 .. Len(m) /\ m[k + 1] = Ev(t, Env(c), x, y)
    PROVE  Leads(w \o (<<h>> \o EnvBlock(c)), m, a, p,
                 Place(NoEvent, IF t # "Unknown" THEN k + 1 ELSE k, r))
<1> DEFINE l1 == <<">CLIENT:ENV", "common_name", CN[c]>>
           l2 == <<">CLIENT:ENV", "no_value">>
           l3 == <<">CLIENT:ENV", "untrusted_ip", Address[c]>>
           l4 == <<">CLIENT:ENV,END">>
           n1 == {} \cup {<<"common_name", CN[c]>>}
           n2 == n1 \cup {<<"untrusted_ip", Address[c]>>}
           w1 == Append(w, h)
           w2 == Append(w1, l1)
           w3 == Append(w2, l2)
           w4 == Append(w3, l3)
           s1 == Ev(t, {}, x, y)
           s2 == Ev(t, n1, x, y)
           s3 == Ev(t, n2, x, y)
<1>1. EnvBlock(c) = <<l1, l2, l3, l4>> /\ n2 = Env(c)
  BY Zenon DEF EnvBlock, Env
<1>2. IsSeq(w1) /\ IsSeq(w2) /\ IsSeq(w3) /\ IsSeq(w4)
  BY AppendIs, Zenon
<1>3. EnvMoves(t, {}, x, y, s1) /\ EnvMoves(t, n1, x, y, s2) /\ EnvMoves(t, n2, x, y, s3)
  BY EnvMovesAre, Zenon
<1> HIDE DEF s1, s2, s3, w1, w2, w3, w4
<1>5. After(s1, l1) = s2 /\ ~Hands(s1, l1) /\ ~Responds(s1, l1)
  BY <1>3, Zenon DEF EnvMoves, s2
<1>6. /\ After(s2, l2) = s2 /\ ~Hands(s2, l2) /\ ~Responds(s2, l2)
      /\ After(s2, l3) = s3 /\ ~Hands(s2, l3) /\ ~Responds(s2, l3)
  BY <1>3, Zenon DEF EnvMoves, s3
<1>7. /\ After(s3, l4) = NoEvent /\ ~Responds(s3, l4) /\ Handed(s3) = s3
      /\ Hands(s3, l4) <=> t # "Unknown"
  BY <1>3, Zenon DEF EnvMoves
<1> HIDE DEF l1, l2, l3, l4, n1
<1>0. w \o (<<h>> \o EnvBlock(c)) = Append(w4, l4)
  <2>1. w \o (<<h>> \o <<l1, l2, l3, l4>>) = Append(w4, l4)
    BY FiveLines, SMT DEF w1, w2, w3, w4
  <2> QED BY <1>1, <2>1, Zenon
<1>4. Leads(w1, m, a, p, Place(s1, k, r))
  <2>1. Leads(w1, m, a, p, Place(After(NoEvent, h), k, r))
    BY LeadsQuietly, Zenon DEF w1
  <2> QED BY <2>1, Zenon DEF s1
<1>8. Leads(w2, m, a, p, Place(s2, k, r))
  <2>1. Leads(w2, m, a, p, Place(After(s1, l1), k, r))
    BY <1>2, <1>4, <1>5, LeadsQuietly, Zenon DEF w2
  <2> QED BY <1>5, <2>1, Zenon
<1>9. Leads(w3, m, a, p, Place(s2, k, r))
  <2>1. Leads(w3, m, a, p, Place(After(s2, l2), k, r))
    BY <1>2, <1>6, <1>8, LeadsQuietly, Zenon DEF w3
  <2> QED BY <1>6, <2>1, Zenon
<1>10. Leads(w4, m, a, p, Place(s3, k, r))
  <2>1. Leads(w4, m, a, p, Place(After(s2, l3), k, r))
    BY <1>2, <1>6, <1>9, LeadsQuietly, Zenon DEF w4
  <2> QED BY <1>6, <2>1, Zenon
<1>11. /\ Move(Place(s3, k, r), l4) = Place(NoEvent, IF t # "Unknown" THEN k + 1 ELSE k, r)
       /\ Fits(Place(s3, k, r), l4, m, a)
  <2>1. t # "Unknown" => m[k + 1] = s3
    BY <1>1, Zenon DEF s3
  <2> QED BY <1>7, <2>1, PlaceIs
<1>12. Leads(Append(w4, l4), m, a, p, Move(Place(s3, k, r), l4))
  BY <1>2, <1>10, <1>11, LeadsOn, Zenon
<1> QED BY <1>0, <1>11, <1>12, Zenon

-----------------------------------------------------------------------------
(* The inductive invariant. *)

\* No command is under way, or it has not been answered: every response line
\* ever written has been used.  said has those lines, the first base of them
\* those of finished commands.
Unanswered(said, base) ==
    /\ base = Len(said) /\ lines = <<>> /\ responseLine = <<>> /\ results = answers
    /\ \/ executing = "none" /\ asked \in {<<>>, <<"password">>}
       \/ executing # "none" /\ asked = <<executing>>

\* Or its response a is on its way, and the lines that have been collected and
\* those that wait are its beginning.
Arrives(a, said, base) ==
    /\ Response(executing, a, answers[Len(answers)])
    /\ Len(said) = base + Len(a)
    /\ \A i \in 1 .. Len(a) : said[base + i] = a[i]
    /\ Len(lines) + Len(responseLine) <= Len(a)
    /\ \A i \in 1 .. Len(lines) : lines[i] = a[i]
    /\ \A i \in 1 .. Len(responseLine) : responseLine[i] = a[Len(lines) + i]

Answered(said, base) ==
    /\ executing # "none" /\ asked = <<>>
    /\ Len(answers) = Len(results) + 1
    /\ \A i \in 1 .. Len(results) : results[i] = answers[i]
    /\ \E a : Arrives(a, said, base)

\* The lines to be read lead from where the daemon is to the end of what
\* OpenVPN meant, unless the connection breaks first.
Here(base) ==
    Place(event, Len(notifications), base + Len(lines) + Len(responseLine))

Ends(q, m, said) ==
    \/ q = Place(NoEvent, Len(m), Len(said))
    \/ \E n, r : q = Place(Stopped, n, r)

Flows(said, base) ==
    \E q : Leads(wire, meant, said, Here(base), q) /\ (closed \/ Ends(q, meant, said))

Stream(said, base) ==
    \/ reader = "stopped"
    \/ /\ reader = "probe" /\ wire = <<Prompt>> /\ meant = <<>>
       /\ executing = "none" /\ asked = <<>>
    \/ /\ reader = "password" /\ meant = <<>> /\ executing = "none"
       /\ wire = <<>> \/ (asked = <<>> /\ Len(wire) = 1)
    \/ /\ reader \in {"probe", "lines", "block"} /\ asked # <<"password">>
       /\ reader = "probe" => executing = "none"
       /\ Flows(said, base)

Shape ==
    /\ IsSeq(wire) /\ IsSeq(notifications) /\ IsSeq(meant)
    /\ IsSeq(responseLine) /\ IsSeq(lines) /\ IsSeq(results) /\ IsSeq(answers)
    /\ event # NoEvent => /\ event.type \in EventTypes \cup {"Unknown"}
                          /\ DOMAIN event = {"type", "env", "cid", "kid"}

Exchange ==
    \E said : \E base \in Nat :
        /\ IsSeq(said) /\ Stream(said, base)
        /\ Unanswered(said, base) \/ Answered(said, base)

ReaderInv == TypeOK /\ Shape /\ NotificationsIntact /\ Exchange

-----------------------------------------------------------------------------
(* Types. *)

LEMMA WriteShape ==
    ASSUME Shape, NEW block, IsSeq(block), Write(block)
    PROVE  IsSeq(wire')
  BY ConcatIs, Zenon DEF Shape, Write

LEMMA EnvBlockIs ==
    ASSUME NEW c, NEW h
    PROVE  IsSeq(EnvBlock(c)) /\ IsSeq(<<h>>) /\ IsSeq(<<h>> \o EnvBlock(c))
<1>1. IsSeq(EnvBlock(c))
  BY TupleIs, Zenon DEF EnvBlock
<1> QED BY <1>1, TupleIs, ConcatIs, Zenon

\* What the reader does with the next line is what After says.
Reads(e, line) ==
    \/ /\ Hands(e, line) /\ ~Responds(e, line)
       /\ notifications' = Append(notifications, Handed(e))
       /\ UNCHANGED responseLine
    \/ /\ ~Hands(e, line) /\ Responds(e, line)
       /\ responseLine' = Append(responseLine, line)
       /\ UNCHANGED notifications
    \/ /\ ~Hands(e, line) /\ ~Responds(e, line)
       /\ UNCHANGED <<notifications, responseLine>>

Proceeds ==
    /\ event' = After(event, Head(wire)) /\ event' # Stopped
    /\ reader' = IF event' = NoEvent THEN "lines" ELSE "block"
    /\ Reads(event, Head(wire))

GivesUp ==
    reader' = "stopped" /\ event' = NoEvent /\ UNCHANGED <<notifications, responseLine>>

\* The types of events a header may have.
LEMMA HeaderIs ==
    ASSUME NEW line
    PROVE  ParseHeader(line) \in EventTypes \cup {"Unknown", "Ignored", "error"}
<1>1. /\ line[2] \in {"CONNECT", "REAUTH"} => line[2] \in EventTypes
      /\ line[2] \in {"DISCONNECT", "ESTABLISHED"} => line[2] \in EventTypes
  BY DEF EventTypes
<1>2. \/ ParseHeader(line) = "error" \/ ParseHeader(line) = "Ignored"
      \/ ParseHeader(line) = "Unknown"
      \/ ParseHeader(line) = line[2] /\ line[2] \in {"CONNECT", "REAUTH", "DISCONNECT", "ESTABLISHED"}
  BY DEF ParseHeader
<1> QED BY <1>1, <1>2, Zenon

LEMMA LineIs ==
    ASSUME TypeOK, ReadLine
    PROVE  /\ reader = "lines" /\ event = NoEvent /\ wire # <<>> /\ wire' = Tail(wire)
           /\ UNCHANGED <<vpnVars, closed, executing, lines, results, meant, answers>>
           /\ GivesUp \/ Proceeds
<1> DEFINE line == Head(wire)
           t == ParseHeader(line)
           e == [type |-> t, env |-> {}, cid |-> IF t = "Unknown" THEN "" ELSE line[3],
                 kid |-> SubSeq(line, 4, Len(line))]
<1>1. /\ reader = "lines" /\ wire # <<>> /\ wire' = Tail(wire)
      /\ UNCHANGED <<vpnVars, closed, executing, lines, results, meant, answers>>
  BY Zenon DEF ReadLine, Read
<1>2. event = NoEvent
  <2>1. reader # "block"
    BY <1>1
  <2> QED BY <2>1, Zenon DEF TypeOK
<1>3. NoEvent # Stopped /\ NoEvent = NoEvent
  BY DEF NoEvent, Stopped
<1>4. \/ line[1] = ">CLIENT:" /\ t = "error" /\ Stop /\ UNCHANGED <<notifications, responseLine>>
      \/ line[1] = ">CLIENT:" /\ t = "Ignored" /\ UNCHANGED <<readerVars, responseLine>>
      \/ /\ line[1] = ">CLIENT:" /\ t # "error" /\ t # "Ignored" /\ reader' = "block"
         /\ event' = e /\ UNCHANGED <<notifications, responseLine>>
      \/ /\ line[1] = ">HOLD:" /\ notifications' = Append(notifications, [type |-> "hold"])
         /\ UNCHANGED <<reader, event, responseLine>>
      \/ line[1] = ">LOG:" /\ UNCHANGED <<readerVars, responseLine>>
      \/ /\ line[1] \notin {">CLIENT:", ">HOLD:", ">LOG:"}
         /\ responseLine' = Append(responseLine, line) /\ UNCHANGED readerVars
  BY Zenon DEF ReadLine
<1>5. /\ ">CLIENT:" # ">HOLD:" /\ ">CLIENT:" # ">LOG:" /\ ">HOLD:" # ">LOG:"
      /\ "error" # "Ignored"
  OBVIOUS
<1>6. e # NoEvent /\ e # Stopped
  BY DEF NoEvent, Stopped
<1> HIDE DEF line
<1>7. CASE line[1] = ">CLIENT:" /\ t = "error" /\ Stop /\ UNCHANGED <<notifications, responseLine>>
  BY <1>1, <1>2, <1>7, Zenon DEF GivesUp, Stop
<1>8. CASE line[1] = ">CLIENT:" /\ t = "Ignored" /\ UNCHANGED <<readerVars, responseLine>>
  <2>1. After(event, line) = NoEvent /\ ~Hands(event, line) /\ ~Responds(event, line)
    BY <1>2, <1>3, <1>5, <1>8, Zenon DEF After, Hands, Responds
  <2>2. event' = NoEvent /\ reader' = "lines"
    BY <1>1, <1>2, <1>8, Zenon DEF readerVars
  <2> QED BY <1>1, <1>2, <1>3, <1>8, <2>1, <2>2, Zenon DEF Proceeds, Reads, readerVars, line
<1>9. CASE /\ line[1] = ">CLIENT:" /\ t # "error" /\ t # "Ignored" /\ reader' = "block"
           /\ event' = e /\ UNCHANGED <<notifications, responseLine>>
  <2>1. After(event, line) = e /\ ~Hands(event, line) /\ ~Responds(event, line)
    BY <1>2, <1>3, <1>5, <1>9, Zenon DEF After, Hands, Responds
  <2> HIDE DEF e
  <2> QED BY <1>1, <1>2, <1>6, <1>9, <2>1, Zenon DEF Proceeds, Reads, line
<1>10. CASE /\ line[1] = ">HOLD:" /\ notifications' = Append(notifications, [type |-> "hold"])
            /\ UNCHANGED <<reader, event, responseLine>>
  <2>1. /\ After(event, line) = NoEvent /\ Hands(event, line) /\ ~Responds(event, line)
        /\ Handed(event) = [type |-> "hold"]
    BY <1>2, <1>3, <1>5, <1>10, Zenon DEF After, Hands, Responds, Handed
  <2>2. event' = NoEvent /\ reader' = "lines"
    BY <1>1, <1>2, <1>10, Zenon DEF readerVars
  <2> QED BY <1>1, <1>2, <1>3, <1>10, <2>1, <2>2, Zenon DEF Proceeds, Reads, line
<1>11. CASE line[1] = ">LOG:" /\ UNCHANGED <<readerVars, responseLine>>
  <2>1. After(event, line) = NoEvent /\ ~Hands(event, line) /\ ~Responds(event, line)
    BY <1>2, <1>3, <1>5, <1>11, Zenon DEF After, Hands, Responds
  <2>2. event' = NoEvent /\ reader' = "lines"
    BY <1>1, <1>2, <1>11, Zenon DEF readerVars
  <2> QED BY <1>1, <1>2, <1>3, <1>11, <2>1, <2>2, Zenon DEF Proceeds, Reads, readerVars, line
<1>12. CASE /\ line[1] \notin {">CLIENT:", ">HOLD:", ">LOG:"}
            /\ responseLine' = Append(responseLine, line) /\ UNCHANGED readerVars
  <2>1. After(event, line) = NoEvent /\ ~Hands(event, line) /\ Responds(event, line)
    BY <1>2, <1>3, <1>12, Zenon DEF After, Hands, Responds
  <2>2. event' = NoEvent /\ reader' = "lines"
    BY <1>1, <1>2, <1>12, Zenon DEF readerVars
  <2> QED BY <1>1, <1>2, <1>3, <1>12, <2>1, <2>2, Zenon DEF Proceeds, Reads, readerVars, line
<1> QED BY <1>1, <1>2, <1>4, <1>7, <1>8, <1>9, <1>10, <1>11, <1>12, Zenon

LEMMA BlockLineIs ==
    ASSUME TypeOK, Shape, ReadBlockLine
    PROVE  /\ reader = "block" /\ event # NoEvent /\ wire # <<>> /\ wire' = Tail(wire)
           /\ UNCHANGED <<vpnVars, closed, executing, lines, results, meant, answers>>
           /\ Proceeds
<1> DEFINE line == Head(wire)
           e == [event EXCEPT !.env = @ \cup {<<line[2], line[3]>>}]
<1>1. /\ reader = "block" /\ wire # <<>> /\ wire' = Tail(wire)
      /\ UNCHANGED <<vpnVars, closed, brokerVars, meant, answers>>
  BY Zenon DEF ReadBlockLine, Read
<1>2. UNCHANGED <<responseLine, executing, lines, results>>
  BY <1>1, Zenon DEF brokerVars
<1>3. event # NoEvent
  BY <1>1, Zenon DEF TypeOK
<1>4. event.type \in EventTypes \cup {"Unknown"} /\ DOMAIN event = {"type", "env", "cid", "kid"}
  BY <1>3, Zenon DEF Shape
<1>5. event # Stopped /\ e # NoEvent /\ e # Stopped /\ NoEvent # Stopped
  BY <1>4 DEF Stopped, NoEvent, EventTypes
<1>6. \/ /\ line = <<">CLIENT:ENV,END">> /\ reader' = "lines" /\ event' = NoEvent
         /\ notifications' = IF event.type = "Unknown" THEN notifications
                             ELSE Append(notifications, event)
      \/ /\ line[1] = ">CLIENT:ENV" /\ Len(line) = 3 /\ event' = e
         /\ UNCHANGED <<reader, notifications>>
      \/ /\ line[1] # ">CLIENT:ENV,END" /\ ~(line[1] = ">CLIENT:ENV" /\ Len(line) = 3)
         /\ UNCHANGED readerVars
  BY Zenon DEF ReadBlockLine
<1> HIDE DEF line
<1>7. line = <<">CLIENT:ENV,END">> => line[1] = ">CLIENT:ENV,END" /\ line[1] # ">CLIENT:ENV"
  <2>1. ">CLIENT:ENV,END" # ">CLIENT:ENV"
    OBVIOUS
  <2> QED BY <2>1, TupleIs, Zenon
<1>8. ~Responds(event, line) /\ Handed(event) = event
  BY <1>3, Zenon DEF Responds, Handed
<1>9. CASE /\ line = <<">CLIENT:ENV,END">> /\ reader' = "lines" /\ event' = NoEvent
           /\ notifications' = IF event.type = "Unknown" THEN notifications
                               ELSE Append(notifications, event)
  <2>1. After(event, line) = NoEvent /\ (Hands(event, line) <=> event.type # "Unknown")
    BY <1>3, <1>5, <1>9, Zenon DEF After, Hands
  <2>2. Reads(event, line)
    BY <1>2, <1>8, <1>9, <2>1, Zenon DEF Reads
  <2> QED BY <1>1, <1>2, <1>3, <1>5, <1>9, <2>1, <2>2, Zenon DEF Proceeds, line
<1>10. CASE /\ line[1] = ">CLIENT:ENV" /\ Len(line) = 3 /\ event' = e
            /\ UNCHANGED <<reader, notifications>>
  <2>1. After(event, line) = e /\ ~Hands(event, line)
    BY <1>3, <1>5, <1>7, <1>10, Zenon DEF After, Hands
  <2> HIDE DEF e
  <2> QED BY <1>1, <1>2, <1>3, <1>5, <1>8, <1>10, <2>1, Zenon DEF Proceeds, Reads, line
<1>11. CASE /\ line[1] # ">CLIENT:ENV,END" /\ ~(line[1] = ">CLIENT:ENV" /\ Len(line) = 3)
            /\ UNCHANGED readerVars
  <2>1. After(event, line) = event /\ ~Hands(event, line)
    BY <1>3, <1>5, <1>7, <1>11, Zenon DEF After, Hands
  <2> QED BY <1>1, <1>2, <1>3, <1>5, <1>8, <1>11, <2>1, Zenon DEF Proceeds, Reads, line, readerVars
<1> QED BY <1>1, <1>2, <1>3, <1>6, <1>9, <1>10, <1>11, Zenon

LEMMA AfterIs ==
    ASSUME Shape, NEW line, After(event, line) # NoEvent, After(event, line) # Stopped
    PROVE  /\ After(event, line).type \in EventTypes \cup {"Unknown"}
           /\ DOMAIN After(event, line) = {"type", "env", "cid", "kid"}
<1> DEFINE t == ParseHeader(line)
           x == IF t = "Unknown" THEN "" ELSE line[3]
           y == SubSeq(line, 4, Len(line))
           e == Ev(t, {}, x, y)
           f == [event EXCEPT !.env = @ \cup {<<line[2], line[3]>>}]
<1>1. \/ event = NoEvent /\ t # "Ignored" /\ t # "error" /\ After(event, line) = e
      \/ event # NoEvent /\ After(event, line) = f
      \/ event # NoEvent /\ After(event, line) = event
  BY Zenon DEF After, Ev
<1>2. t \in EventTypes \cup {"Unknown", "Ignored", "error"}
  BY HeaderIs, Zenon
<1>3. CASE event = NoEvent /\ t # "Ignored" /\ t # "error" /\ After(event, line) = e
  <2>1. t \in EventTypes \cup {"Unknown"}
    BY <1>2, <1>3, Zenon
  <2> HIDE DEF t, x, y
  <2>2. e.type = t /\ DOMAIN e = {"type", "env", "cid", "kid"}
    BY <2>1, EvIs
  <2> QED BY <1>3, <2>1, <2>2, Zenon
<1>4. CASE event # NoEvent /\ After(event, line) = f
  <2>1. event.type \in EventTypes \cup {"Unknown"} /\ DOMAIN event = {"type", "env", "cid", "kid"}
    BY <1>4, Zenon DEF Shape
  <2>2. f.type = event.type /\ DOMAIN f = DOMAIN event
    BY <2>1
  <2> HIDE DEF f
  <2> QED BY <1>4, <2>1, <2>2, Zenon
<1>5. CASE event # NoEvent /\ After(event, line) = event
  BY <1>5, Zenon DEF Shape
<1> QED BY <1>1, <1>3, <1>4, <1>5, Zenon

LEMMA ProceedsShape ==
    ASSUME TypeOK, Shape, Proceeds, wire # <<>>, wire' = Tail(wire),
           UNCHANGED <<vpnVars, closed, executing, lines, results, meant, answers>>
    PROVE  TypeOK' /\ Shape'
<1>1. UNCHANGED <<life, asked, blocks, closed, executing, lines, results, meant, answers>>
  BY Zenon DEF vpnVars
<1>2. event' # NoEvent => /\ event'.type \in EventTypes \cup {"Unknown"}
                          /\ DOMAIN event' = {"type", "env", "cid", "kid"}
  BY AfterIs, Zenon DEF Proceeds
<1>3. IsSeq(wire') /\ IsSeq(notifications') /\ IsSeq(responseLine')
  <2>1. IsSeq(wire')
    BY TailIs, Zenon DEF Shape
  <2>2. \/ notifications' = notifications \/ notifications' = Append(notifications, Handed(event))
    BY Zenon DEF Proceeds, Reads
  <2>3. \/ responseLine' = responseLine \/ responseLine' = Append(responseLine, Head(wire))
    BY Zenon DEF Proceeds, Reads
  <2>4. IsSeq(Append(notifications, Handed(event))) /\ IsSeq(Append(responseLine, Head(wire)))
    BY AppendIs, Zenon DEF Shape
  <2> QED BY <2>1, <2>2, <2>3, <2>4, Zenon DEF Shape
<1>4. /\ reader' \in {"probe", "password", "lines", "block", "stopped"}
      /\ (event' = NoEvent) <=> (reader' # "block")
  <2>1. "lines" # "block"
    OBVIOUS
  <2> QED BY <2>1, Zenon DEF Proceeds
<1> QED BY <1>1, <1>2, <1>3, <1>4, Zenon DEF TypeOK, Shape

\* The reader stops, and nothing else of it changes.
LEMMA StopShape ==
    ASSUME TypeOK, Shape, reader' = "stopped", event' = NoEvent,
           IsSeq(wire'), IsSeq(responseLine'), IsSeq(lines'), IsSeq(results'),
           UNCHANGED <<vpnVars, closed, notifications, meant, answers>>,
           executing' \in Contracts \cup {"none"},
           lines' # <<>> => executing' = "multiLineUntilEnd"
    PROVE  TypeOK' /\ Shape'
<1>1. UNCHANGED <<life, asked, blocks, closed, notifications, meant, answers>>
  BY Zenon DEF vpnVars
<1>2. "stopped" # "block"
  OBVIOUS
<1> QED BY <1>1, <1>2, Zenon DEF TypeOK, Shape

\* OpenVPN writes a block.
LEMMA WriteTypes ==
    ASSUME TypeOK, Shape, NEW block, IsSeq(block), Write(block),
           UNCHANGED <<asked, closed, readerVars, brokerVars, answers>>, IsSeq(meant'),
           life' \in [Cids -> {"none", "pending", "up"}]
    PROVE  TypeOK' /\ Shape'
<1>1. IsSeq(wire')
  BY WriteShape, Zenon
<1>2. blocks' \in 0 .. MaxBlocks
  <2>1. /\ blocks \in 0 .. MaxBlocks /\ blocks < MaxBlocks /\ blocks' = blocks + 1
        /\ MaxBlocks \in Nat
    BY ReaderAssumption, Zenon DEF TypeOK, Write, ReaderAssumption
  <2> QED BY <2>1
<1>3. UNCHANGED <<reader, event, notifications, responseLine, executing, lines, results>>
  BY Zenon DEF readerVars, brokerVars
<1> QED BY <1>1, <1>2, <1>3, Zenon DEF TypeOK, Shape

\* The blocks that OpenVPN writes.
LEMMA VpnTypes ==
    ASSUME TypeOK, Shape,
           \/ \E c \in Cids, t \in EventTypes : VpnEvent(c, t)
           \/ VpnOther \/ VpnHolds \/ VpnGarbles
    PROVE  TypeOK' /\ Shape'
<1>1. /\ life \in [Cids -> {"none", "pending", "up"}] /\ IsSeq(meant)
      /\ \A x : IsSeq(Append(meant, x))
  BY AppendIs, Zenon DEF TypeOK, Shape
<1>2. ASSUME NEW c \in Cids, NEW t \in EventTypes, VpnEvent(c, t) PROVE TypeOK' /\ Shape'
  <2>1. life' \in [Cids -> {"none", "pending", "up"}]
    BY <1>1, <1>2, Zenon DEF VpnEvent, EventTypes
  <2>2. /\ IsSeq(meant') /\ UNCHANGED <<asked, closed, readerVars, brokerVars, answers>>
        /\ Write(<< <<">CLIENT:", t, c>> \o Kid(t) >> \o EnvBlock(c))
    BY <1>1, <1>2, Zenon DEF VpnEvent
  <2> QED BY <2>1, <2>2, EnvBlockIs, WriteTypes, Zenon
<1>3. CASE VpnOther
  <2>1. /\ UNCHANGED <<life, meant>> /\ UNCHANGED <<asked, closed, readerVars, brokerVars, answers>>
        /\ \E h : \/ Write(<<h>>)
                  \/ \E c \in Cids : Write(<<h>> \o EnvBlock(c))
    BY <1>3, Zenon DEF VpnOther
  <2>2. life' \in [Cids -> {"none", "pending", "up"}] /\ IsSeq(meant')
    BY <1>1, <2>1, Zenon
  <2> QED BY <2>1, <2>2, EnvBlockIs, WriteTypes, Zenon
<1>4. CASE VpnHolds
  <2>1. /\ UNCHANGED life /\ IsSeq(meant') /\ UNCHANGED <<asked, closed, readerVars, brokerVars, answers>>
        /\ \E h : Write(<<h>>)
    BY <1>1, <1>4, Zenon DEF VpnHolds
  <2>2. life' \in [Cids -> {"none", "pending", "up"}]
    BY <1>1, <2>1, Zenon
  <2> QED BY <2>1, <2>2, EnvBlockIs, WriteTypes, Zenon
<1>5. CASE VpnGarbles
  <2>1. /\ UNCHANGED <<life, meant>> /\ UNCHANGED <<asked, closed, readerVars, brokerVars, answers>>
        /\ \E h : Write(<<h>>)
    BY <1>5, Zenon DEF VpnGarbles
  <2>2. life' \in [Cids -> {"none", "pending", "up"}] /\ IsSeq(meant')
    BY <1>1, <2>1, Zenon
  <2> QED BY <2>1, <2>2, EnvBlockIs, WriteTypes, Zenon
<1> QED BY <1>2, <1>3, <1>4, <1>5, Zenon

-----------------------------------------------------------------------------
(* OpenVPN writes. *)

LEMMA LeadsConcat ==
    ASSUME NEW w, IsSeq(w), NEW b, IsSeq(b), NEW m, NEW a, NEW p, NEW q, NEW u,
           Leads(w, m, a, p, q), Leads(b, m, a, q, u)
    PROVE  Leads(w \o b, m, a, p, u)
<1> DEFINE k == Len(w)
           l == Len(b)
           v == w \o b
<1>1. PICK f : /\ f[1] = p /\ f[k + 1] = q
               /\ \A i \in 1 .. k : f[i + 1] = Move(f[i], w[i]) /\ Fits(f[i], w[i], m, a)
  BY Zenon DEF Leads
<1>2. PICK g : /\ g[1] = q /\ g[l + 1] = u
               /\ \A i \in 1 .. l : g[i + 1] = Move(g[i], b[i]) /\ Fits(g[i], b[i], m, a)
  BY Zenon DEF Leads
<1>3. /\ k \in Nat /\ l \in Nat /\ Len(v) = k + l
      /\ \A i \in 1 .. k : v[i] = w[i]
      /\ \A i \in 1 .. l : v[k + i] = b[i]
  BY ConcatIs, SeqIs, SMT
<1> HIDE DEF k, l, v
<1> DEFINE h == [i \in 1 .. k + l + 1 |-> IF i <= k THEN f[i] ELSE g[i - k]]
<1>4. /\ \A i \in 1 .. k : h[i] = f[i]
      /\ \A i \in 1 .. l + 1 : h[k + i] = g[i]
  <2>1. ASSUME NEW i \in 1 .. k PROVE h[i] = f[i]
    BY <1>3
  <2>2. ASSUME NEW i \in 1 .. l + 1 PROVE h[k + i] = g[i]
    <3>1. k + i \in 1 .. k + l + 1 /\ ~(k + i <= k) /\ (k + i) - k = i
      BY <1>3
    <3> QED BY <3>1
  <2> QED BY <2>1, <2>2, Zenon
<1> HIDE DEF h
<1>5. \A i \in 1 .. k + 1 : h[i] = f[i]
  <2>1. ASSUME NEW i \in 1 .. k + 1 PROVE h[i] = f[i]
    <3>1. CASE i = k + 1
      <4>1. 1 \in 1 .. l + 1
        BY <1>3
      <4> QED BY <1>1, <1>2, <1>4, <3>1, <4>1, Zenon
    <3>2. CASE i # k + 1
      <4>1. i \in 1 .. k
        BY <1>3, <3>2
      <4> QED BY <1>4, <4>1, Zenon
    <3> QED BY <3>1, <3>2, Zenon
  <2> QED BY <2>1
<1>6. h[1] = p /\ h[Len(v) + 1] = u
  <2>1. 1 \in 1 .. k + 1 /\ l + 1 \in 1 .. l + 1 /\ Len(v) + 1 = k + (l + 1)
    BY <1>3
  <2>2. h[1] = f[1] /\ h[k + (l + 1)] = g[l + 1]
    BY <1>4, <1>5, <2>1, Zenon
  <2> QED BY <1>1, <1>2, <2>1, <2>2, Zenon
<1>7. ASSUME NEW i \in 1 .. Len(v)
      PROVE  h[i + 1] = Move(h[i], v[i]) /\ Fits(h[i], v[i], m, a)
  <2>1. CASE i \in 1 .. k
    <3>1. i \in 1 .. k + 1 /\ i + 1 \in 1 .. k + 1
      BY <1>3, <2>1
    <3> QED BY <1>1, <1>3, <1>5, <2>1, <3>1, Zenon
  <2>2. CASE i \notin 1 .. k
    <3> DEFINE j == i - k
    <3>1. j \in 1 .. l /\ j \in 1 .. l + 1 /\ j + 1 \in 1 .. l + 1 /\ i = k + j /\ i + 1 = k + (j + 1)
      BY <1>3, <1>7, <2>2
    <3> HIDE DEF j
    <3>2. h[i] = g[j] /\ h[i + 1] = g[j + 1] /\ v[i] = b[j]
      BY <1>3, <1>4, <3>1, Zenon
    <3> QED BY <1>2, <3>1, <3>2, Zenon
  <2> QED BY <2>1, <2>2, Zenon
<1> QED BY <1>6, <1>7, Zenon DEF Leads, v

\* A reader that has stopped makes nothing of any line.
LEMMA LeadsStopped ==
    ASSUME NEW w, IsSeq(w), NEW m, NEW a, NEW n, NEW r
    PROVE  Leads(w, m, a, Place(Stopped, n, r), Place(Stopped, n, r))
<1> DEFINE p == Place(Stopped, n, r)
           f == [i \in 1 .. Len(w) + 1 |-> p]
<1>1. Stopped # NoEvent
  BY DEF Stopped, NoEvent
<1>2. \A line : After(Stopped, line) = Stopped /\ ~Hands(Stopped, line) /\ ~Responds(Stopped, line)
  BY <1>1, Zenon DEF After, Hands, Responds
<1>3. \A line : Move(p, line) = p /\ Fits(p, line, m, a)
  <2>1. \A line : /\ Move(p, line) = Place(After(Stopped, line), n, r)
                  /\ Fits(p, line, m, a)
    BY <1>2, QuietMove, SMT
  <2> QED BY <1>2, <2>1, SMT
<1> HIDE DEF p
<1>4. /\ f[1] = p /\ f[Len(w) + 1] = p
      /\ \A i \in 1 .. Len(w) : f[i] = p /\ f[i + 1] = p
  BY SeqIs
<1> HIDE DEF f
<1>5. Leads(w, m, a, p, p)
  BY <1>3, <1>4, Zenon DEF Leads
<1> QED BY <1>5, Zenon DEF p

\* b comes after s in a.
Follows(a, s, b) ==
    /\ Len(s) \in Nat /\ Len(b) \in Nat /\ Len(a) = Len(s) + Len(b) /\ IsSeq(a)
    /\ \A i \in 1 .. Len(s) : a[i] = s[i]
    /\ \A i \in 1 .. Len(b) : a[Len(s) + i] = b[i]

LEMMA ConcatFollows ==
    ASSUME NEW s, IsSeq(s), NEW b, IsSeq(b)
    PROVE  Follows(s \o b, s, b)
  BY ConcatIs, SeqIs, SMT DEF Follows

\* The lines of a response, after those that were said before.
LEMMA LeadsResponse ==
    ASSUME NEW b, IsSeq(b), \A j \in 1 .. Len(b) : b[j][1] \notin {">CLIENT:", ">HOLD:", ">LOG:"},
           NEW said, IsSeq(said), NEW m, NEW n
    PROVE  Leads(b, m, said \o b, Place(NoEvent, n, Len(said)), Place(NoEvent, n, Len(said) + Len(b)))
<1> DEFINE k == Len(said)
           l == Len(b)
           a == said \o b
<1>1. /\ k \in Nat /\ l \in Nat /\ Len(a) = k + l
      /\ \A i \in 1 .. l : a[k + i] = b[i]
  <2>1. Follows(a, said, b)
    BY ConcatFollows, Zenon
  <2> QED BY <2>1, Zenon DEF Follows
<1> HIDE DEF k, l, a
<1> DEFINE f == [i \in 1 .. l + 1 |-> Place(NoEvent, n, k + i - 1)]
<1>2. \A i \in 1 .. l + 1 : f[i] = Place(NoEvent, n, k + i - 1)
  BY Zenon
<1> HIDE DEF f
<1>3. f[1] = Place(NoEvent, n, k) /\ f[l + 1] = Place(NoEvent, n, k + l)
  <2>1. 1 \in 1 .. l + 1 /\ l + 1 \in 1 .. l + 1 /\ k + 1 - 1 = k /\ k + (l + 1) - 1 = k + l
    BY <1>1
  <2> QED BY <1>2, <2>1, Zenon
<1>4. NoEvent # Stopped /\ ">HOLD:" # ">CLIENT:"
  BY DEF NoEvent, Stopped
<1>5. ASSUME NEW i \in 1 .. l
      PROVE  f[i + 1] = Move(f[i], b[i]) /\ Fits(f[i], b[i], m, a)
  <2> DEFINE r == k + i - 1
  <2>1. /\ i \in 1 .. l + 1 /\ i + 1 \in 1 .. l + 1 /\ k + (i + 1) - 1 = r + 1 /\ r + 1 = k + i
        /\ k + i \in 1 .. Len(a)
    BY <1>1
  <2> HIDE DEF r
  <2>2. f[i] = Place(NoEvent, n, r) /\ f[i + 1] = Place(NoEvent, n, r + 1)
    BY <1>2, <2>1, Zenon DEF r
  <2>3. b[i][1] \notin {">CLIENT:", ">HOLD:", ">LOG:"}
    BY <1>5, Zenon DEF l
  <2>4. After(NoEvent, b[i]) = NoEvent /\ ~Hands(NoEvent, b[i]) /\ Responds(NoEvent, b[i])
    BY <1>4, <2>3, Zenon DEF After, Hands, Responds
  <2>5. r + 1 \in 1 .. Len(a) /\ a[r + 1] = b[i]
    BY <1>1, <2>1, Zenon
  <2>6. Move(Place(NoEvent, n, r), b[i]) = Place(NoEvent, n, r + 1)
    BY <2>4, PlaceIs
  <2>7. Fits(Place(NoEvent, n, r), b[i], m, a)
    BY <2>4, <2>5, PlaceIs
  <2> QED BY <2>2, <2>6, <2>7, Zenon
<1> QED BY <1>3, <1>5, Zenon DEF Leads, k, l, a

\* The block takes a reader that has done with what came before to the end of
\* the notifications m.
Completes(block, m, said, k) ==
    \A w, p : IsSeq(w) /\ Leads(w, m, said, p, Place(NoEvent, k, Len(said))) =>
        \E q : Leads(w \o block, m, said, p, q) /\ Ends(q, m, said)

Extends(n, m) == \A i \in 1 .. Len(n) : i \in 1 .. Len(m) /\ m[i] = n[i]

LEMMA WriteStream ==
    ASSUME Shape, NEW said, IsSeq(said), NEW base, Stream(said, base),
           NEW block, IsSeq(block), Write(block),
           UNCHANGED <<asked, closed, readerVars, brokerVars, answers>>,
           Extends(meant, meant'), Completes(block, meant', said, Len(meant))
    PROVE  Stream(said, base)'
<1>1. UNCHANGED <<reader, event, notifications, responseLine, executing, lines, results>>
  BY Zenon DEF readerVars, brokerVars
<1>2. /\ ~closed /\ wire' = wire \o block
      /\ reader \in {"lines", "block"} \/ (reader = "probe" /\ Prompt \notin ToSet(wire))
  BY Zenon DEF Write
<1>3. reader # "stopped" /\ reader # "password"
  BY <1>2
<1>4. wire # <<Prompt>> \/ reader # "probe"
  <2>1. Prompt \in ToSet(<<Prompt>>)
    BY DEF ToSet
  <2>2. "probe" # "lines" /\ "probe" # "block"
    OBVIOUS
  <2> QED BY <1>2, <2>1, <2>2, Zenon
<1>5. /\ reader \in {"probe", "lines", "block"} /\ asked # <<"password">>
      /\ reader = "probe" => executing = "none"
      /\ Flows(said, base)
  BY <1>3, <1>4, Zenon DEF Stream
<1>6. PICK q : Leads(wire, meant, said, Here(base), q) /\ Ends(q, meant, said)
  BY <1>2, <1>5, Zenon DEF Flows
<1>7. Leads(wire, meant', said, Here(base), q)
  BY <1>6, LeadsStill, Zenon DEF Extends
<1>8. Here(base)' = Here(base)
  BY <1>1, Zenon DEF Here
<1>9. \E r : Leads(wire \o block, meant', said, Here(base), r) /\ Ends(r, meant', said)
  <2>1. CASE q = Place(NoEvent, Len(meant), Len(said))
    BY <1>7, <2>1, Zenon DEF Completes, Shape
  <2>2. CASE \E n, r : q = Place(Stopped, n, r)
    <3>1. PICK n, r : q = Place(Stopped, n, r)
      BY <2>2, Zenon
    <3>2. Leads(block, meant', said, q, q)
      BY <3>1, LeadsStopped, Zenon
    <3>3. Leads(wire \o block, meant', said, Here(base), q)
      BY <1>7, <3>2, LeadsConcat, Zenon DEF Shape
    <3>4. Ends(q, meant', said)
      BY <3>1, Zenon DEF Ends
    <3> QED BY <3>3, <3>4, Zenon
  <2> QED BY <1>6, <2>1, <2>2, Zenon DEF Ends
<1>10. Flows(said, base)'
  BY <1>2, <1>8, <1>9, Zenon DEF Flows
<1> QED BY <1>1, <1>5, <1>10, Zenon DEF Stream

\* The notifications handed over stay a beginning of those that were meant.
LEMMA IntactStill ==
    ASSUME Shape, Shape', NotificationsIntact, notifications' = notifications, Extends(meant, meant')
    PROVE  NotificationsIntact'
<1>1. /\ IsSeq(notifications) /\ IsSeq(meant) /\ IsSeq(meant')
  BY Zenon DEF Shape
<1>2. Len(notifications) <= Len(meant) /\ \A i \in 1 .. Len(notifications) : notifications[i] = meant[i]
  BY <1>1, IsPrefixIs, Zenon DEF NotificationsIntact
<1>3. Len(notifications) \in Nat /\ Len(meant) \in Nat /\ Len(meant') \in Nat
  BY <1>1, SeqIs, Zenon
<1>4. Len(meant) <= Len(meant')
  <2>1. CASE Len(meant) = 0
    BY <1>3, <2>1
  <2>2. CASE Len(meant) # 0
    <3>1. Len(meant) \in 1 .. Len(meant)
      BY <1>3, <2>2
    <3>2. Len(meant) \in 1 .. Len(meant')
      BY <3>1, Zenon DEF Extends
    <3> QED BY <1>3, <3>2
  <2> QED BY <2>1, <2>2, Zenon
<1>5. \A i \in 1 .. Len(notifications) : i \in 1 .. Len(meant)
  BY <1>2, <1>3
<1>6. Len(notifications) <= Len(meant') /\ \A i \in 1 .. Len(notifications) : notifications[i] = meant'[i]
  <2>1. Len(notifications) <= Len(meant')
    BY <1>2, <1>3, <1>4
  <2> QED BY <1>2, <1>5, <2>1, Zenon DEF Extends
<1>7. IsPrefix(notifications, meant')
  BY <1>1, <1>6, IsPrefixIs, Zenon
<1> QED BY <1>7, Zenon DEF NotificationsIntact

LEMMA WriteStep ==
    ASSUME ReaderInv, TypeOK', Shape', NEW block, IsSeq(block), Write(block),
           UNCHANGED <<asked, closed, readerVars, brokerVars, answers>>,
           Extends(meant, meant'),
           \A said : IsSeq(said) => Completes(block, meant', said, Len(meant))
    PROVE  ReaderInv'
<1>1. UNCHANGED <<notifications, responseLine, executing, lines, results>>
  BY Zenon DEF readerVars, brokerVars
<1>2. NotificationsIntact'
  BY <1>1, IntactStill, Zenon DEF ReaderInv
<1>3. PICK said : \E base \in Nat : /\ IsSeq(said) /\ Stream(said, base)
                                    /\ Unanswered(said, base) \/ Answered(said, base)
  BY Zenon DEF ReaderInv, Exchange
<1>4. PICK base \in Nat : /\ IsSeq(said) /\ Stream(said, base)
                          /\ Unanswered(said, base) \/ Answered(said, base)
  BY <1>3, Zenon
<1>5. Stream(said, base)'
  BY <1>4, WriteStream, Zenon DEF ReaderInv
<1>6. Unanswered(said, base)' \/ Answered(said, base)'
  BY <1>1, <1>4, Zenon DEF Unanswered, Answered, Arrives
<1> QED BY <1>2, <1>4, <1>5, <1>6, Zenon DEF ReaderInv, Exchange

LEMMA ExtendsIs ==
    ASSUME NEW m, IsSeq(m)
    PROVE  Extends(m, m) /\ \A x : Extends(m, Append(m, x))
<1>1. /\ Len(m) \in Nat
      /\ \A x : /\ Len(Append(m, x)) = Len(m) + 1
                /\ \A i \in 1 .. Len(m) : Append(m, x)[i] = m[i]
  BY AppendIs, SeqIs, SMT
<1>2. \A i \in 1 .. Len(m) : i \in 1 .. Len(m) + 1
  BY <1>1
<1> QED BY <1>1, <1>2, Zenon DEF Extends

LEMMA OneLine ==
    ASSUME NEW w, IsSeq(w), NEW x
    PROVE  w \o <<x>> = Append(w, x)
<1>1. PICK X : w \in Seq(X)
  BY Zenon DEF IsSeq
<1> DEFINE Y == X \cup {x}
<1>2. w \in Seq(Y) /\ x \in Y
  BY <1>1
<1> HIDE DEF Y
<1> QED BY <1>2

\* A line that hands nothing over, and leaves the reader where it was or stops it.
LEMMA QuietCompletes ==
    ASSUME NEW x, ~Hands(NoEvent, x), ~Responds(NoEvent, x),
           After(NoEvent, x) \in {NoEvent, Stopped}, NEW m, NEW said
    PROVE  Completes(<<x>>, m, said, Len(m))
<1> DEFINE q == Place(After(NoEvent, x), Len(m), Len(said))
<1>1. Ends(q, m, said)
  BY Zenon DEF Ends
<1>2. ASSUME NEW w, NEW p, IsSeq(w), Leads(w, m, said, p, Place(NoEvent, Len(m), Len(said)))
      PROVE  Leads(w \o <<x>>, m, said, p, q)
  <2>1. Leads(Append(w, x), m, said, p, q)
    BY <1>2, LeadsQuietly, Zenon
  <2>2. w \o <<x>> = Append(w, x)
    BY <1>2, OneLine, Zenon
  <2> QED BY <2>1, <2>2, Zenon
<1> HIDE DEF q
<1> QED BY <1>1, <1>2, Zenon DEF Completes

LEMMA HoldCompletes ==
    ASSUME NEW m, IsSeq(m), NEW said
    PROVE  Completes(<< <<">HOLD:">> >>, Append(m, [type |-> "hold"]), said, Len(m))
<1> DEFINE x == <<">HOLD:">>
           k == Len(m)
           n == Append(m, [type |-> "hold"])
           q == Place(NoEvent, k + 1, Len(said))
<1>1. k \in Nat /\ Len(n) = k + 1 /\ n[k + 1] = [type |-> "hold"]
  BY AppendIs, SeqIs, Zenon
<1>2. k + 1 \in 1 .. Len(n)
  BY <1>1
<1>3. x[1] = ">HOLD:" /\ NoEvent # Stopped /\ ">HOLD:" # ">CLIENT:"
  BY TupleIs DEF NoEvent, Stopped
<1> HIDE DEF x, k, n
<1>4. /\ After(NoEvent, x) = NoEvent /\ Hands(NoEvent, x) /\ ~Responds(NoEvent, x)
      /\ Handed(NoEvent) = [type |-> "hold"]
  BY <1>3, Zenon DEF After, Hands, Responds, Handed
<1>5. /\ Move(Place(NoEvent, k, Len(said)), x) = q
      /\ Fits(Place(NoEvent, k, Len(said)), x, n, said)
  BY <1>1, <1>2, <1>4, PlaceIs
<1>6. Ends(q, n, said)
  BY <1>1, Zenon DEF Ends
<1> HIDE DEF q
<1>7. ASSUME NEW w, NEW p, IsSeq(w), Leads(w, n, said, p, Place(NoEvent, k, Len(said)))
      PROVE  Leads(w \o <<x>>, n, said, p, q)
  <2>1. Leads(Append(w, x), n, said, p, Move(Place(NoEvent, k, Len(said)), x))
    BY <1>5, <1>7, LeadsOn, Zenon
  <2>2. w \o <<x>> = Append(w, x)
    BY <1>7, OneLine, Zenon
  <2> QED BY <1>5, <2>1, <2>2, Zenon
<1>8. Completes(<<x>>, n, said, k)
  BY <1>6, <1>7, Zenon DEF Completes
<1> QED BY <1>8, Zenon DEF x, n, k

\* The header of a notification of a client.
Heads(v, x, y, z, k) ==
    /\ v[1] = x /\ v[2] = y /\ v[3] = z /\ Len(v) = Len(k) + 3
    /\ SubSeq(v, 4, Len(v)) = k

LEMMA HeadIs ==
    ASSUME NEW x, NEW y, NEW z, NEW k, IsSeq(k)
    PROVE  Heads(<<x, y, z>> \o k, x, y, z, k)
<1>1. PICK X : k \in Seq(X)
  BY Zenon DEF IsSeq
<1> DEFINE Y == X \cup {x, y, z}
           h == <<x, y, z>>
<1>2. k \in Seq(Y) /\ h \in Seq(Y) /\ Len(h) = 3 /\ h[1] = x /\ h[2] = y /\ h[3] = z
  BY <1>1
<1> HIDE DEF Y, h
<1>3. IsSeq(h)
  BY <1>2, Zenon DEF IsSeq
<1>4. Follows(h \o k, h, k)
  BY <1>3, ConcatFollows, Zenon
<1>5. /\ h \o k \in Seq(Y) /\ Len(h \o k) = Len(k) + 3 /\ Len(k) \in Nat
      /\ \A i \in 1 .. Len(k) : (h \o k)[i + 3] = k[i]
  <2>1. \A i \in 1 .. Len(k) : 3 + i = i + 3
    BY <1>2
  <2>2. Len(h \o k) = 3 + Len(k) /\ \A i \in 1 .. Len(k) : (h \o k)[3 + i] = k[i]
    BY <1>2, <1>4, Zenon DEF Follows
  <2>3. h \o k \in Seq(Y) /\ Len(k) \in Nat /\ 3 + Len(k) = Len(k) + 3
    BY <1>2
  <2> QED BY <2>1, <2>2, <2>3, Zenon
<1>6. (h \o k)[1] = h[1] /\ (h \o k)[2] = h[2] /\ (h \o k)[3] = h[3]
  <2>1. 1 \in 1 .. 3 /\ 2 \in 1 .. 3 /\ 3 \in 1 .. 3
    OBVIOUS
  <2> QED BY <1>2, <1>4, <2>1, Zenon DEF Follows
<1>7. SubSeq(h \o k, 4, Len(h \o k)) = k
  BY <1>2, <1>5
<1> QED BY <1>2, <1>5, <1>6, <1>7, Zenon DEF h, Heads

LEMMA EventHeader ==
    ASSUME NEW t \in EventTypes, NEW c
    PROVE  /\ After(NoEvent, <<">CLIENT:", t, c>> \o Kid(t)) = Ev(t, {}, c, Kid(t))
           /\ ~Hands(NoEvent, <<">CLIENT:", t, c>> \o Kid(t))
           /\ ~Responds(NoEvent, <<">CLIENT:", t, c>> \o Kid(t))
<1> DEFINE k == Kid(t)
           h == <<">CLIENT:", t, c>> \o k
<1>1. IsSeq(k) /\ Len(k) = IF t \in {"CONNECT", "REAUTH"} THEN 1 ELSE 0
  <2>1. /\ t = "CONNECT" => k = <<"0">>
        /\ t = "REAUTH" => k = <<"1">>
        /\ t \notin {"CONNECT", "REAUTH"} => k = <<>>
    BY DEF Kid
  <2> HIDE DEF k
  <2> QED BY <2>1, TupleIs, EmptyIs, Zenon
<1> HIDE DEF k
<1>2. /\ h[1] = ">CLIENT:" /\ h[2] = t /\ h[3] = c /\ Len(h) = Len(k) + 3
      /\ SubSeq(h, 4, Len(h)) = k
  <2>1. Heads(h, ">CLIENT:", t, c, k)
    BY <1>1, HeadIs, Zenon
  <2> QED BY <2>1, Zenon DEF Heads
<1> HIDE DEF h
<1>3. ParseHeader(h) = t
  <2>1. /\ t \in {"CONNECT", "REAUTH", "DISCONNECT", "ESTABLISHED"}
        /\ t \in {"CONNECT", "REAUTH"} => ~(Len(h) < 4)
        /\ ~(Len(h) < 3)
    BY <1>1, <1>2 DEF EventTypes
  <2> QED BY <1>2, <2>1 DEF ParseHeader
<1>4. t # "Ignored" /\ t # "error" /\ t # "Unknown"
  BY DEF EventTypes
<1>5. NoEvent # Stopped /\ ">CLIENT:" # ">HOLD:"
  BY DEF NoEvent, Stopped
<1>6. ~Hands(NoEvent, h) /\ ~Responds(NoEvent, h)
  BY <1>2, <1>5, Zenon DEF Hands, Responds
<1>7. After(NoEvent, h) = Ev(t, {}, c, k)
  BY <1>2, <1>3, <1>4, <1>5, Zenon DEF After, Ev
<1> QED BY <1>6, <1>7, Zenon DEF h, k

LEMMA EventCompletes ==
    ASSUME NEW m, IsSeq(m), NEW said, NEW t \in EventTypes, NEW c
    PROVE  Completes(<< <<">CLIENT:", t, c>> \o Kid(t) >> \o EnvBlock(c),
                     Append(m, Ev(t, Env(c), c, Kid(t))), said, Len(m))
<1> DEFINE h == <<">CLIENT:", t, c>> \o Kid(t)
           y == Kid(t)
           k == Len(m)
           n == Append(m, Ev(t, Env(c), c, y))
           block == <<h>> \o EnvBlock(c)
           q == Place(NoEvent, k + 1, Len(said))
<1>1. k \in Nat /\ Len(n) = k + 1 /\ n[k + 1] = Ev(t, Env(c), c, y)
  BY AppendIs, SeqIs, Zenon
<1>2. k + 1 \in 1 .. Len(n)
  BY <1>1
<1>3. After(NoEvent, h) = Ev(t, {}, c, y) /\ ~Hands(NoEvent, h) /\ ~Responds(NoEvent, h)
  BY EventHeader, Zenon
<1>4. t # "Unknown" /\ t \in EventTypes \cup {"Unknown"}
  BY DEF EventTypes
<1> HIDE DEF h, y, k, n
<1>5. ASSUME NEW w, NEW p, IsSeq(w), Leads(w, n, said, p, Place(NoEvent, k, Len(said)))
      PROVE  Leads(w \o block, n, said, p, q)
  <2>1. Leads(w \o (<<h>> \o EnvBlock(c)), n, said, p,
              Place(NoEvent, IF t # "Unknown" THEN k + 1 ELSE k, Len(said)))
    BY <1>1, <1>2, <1>3, <1>4, <1>5, BlockLeads, SMT
  <2> QED BY <1>4, <2>1, Zenon
<1>6. Ends(q, n, said)
  BY <1>1, Zenon DEF Ends
<1> HIDE DEF q, block
<1>7. Completes(block, n, said, k)
  BY <1>5, <1>6, Zenon DEF Completes
<1> QED BY <1>7, Zenon DEF block, n, k, h, y

LEMMA EventStep ==
    ASSUME ReaderInv, TypeOK', Shape', NEW c \in Cids, NEW t \in EventTypes, VpnEvent(c, t)
    PROVE  ReaderInv'
<1> DEFINE block == << <<">CLIENT:", t, c>> \o Kid(t) >> \o EnvBlock(c)
           e == [type |-> t, cid |-> c, kid |-> Kid(t), env |-> Env(c)]
<1>1. /\ Write(block) /\ meant' = Append(meant, e)
      /\ UNCHANGED <<asked, closed, readerVars, brokerVars, answers>>
  BY Zenon DEF VpnEvent
<1>2. e = Ev(t, Env(c), c, Kid(t))
  BY DEF Ev
<1>3. IsSeq(meant)
  BY Zenon DEF ReaderInv, Shape
<1>4. IsSeq(block)
  BY EnvBlockIs, Zenon
<1>5. \A said : Completes(block, Append(meant, Ev(t, Env(c), c, Kid(t))), said, Len(meant))
  BY <1>3, EventCompletes, Zenon
<1>6. Extends(meant, Append(meant, e))
  BY <1>3, ExtendsIs, Zenon
<1> HIDE DEF block, e
<1>7. Extends(meant, meant') /\ \A said : IsSeq(said) => Completes(block, meant', said, Len(meant))
  BY <1>1, <1>2, <1>5, <1>6, Zenon
<1> QED BY <1>1, <1>4, <1>7, WriteStep, Zenon

LEMMA HoldStep ==
    ASSUME ReaderInv, TypeOK', Shape', VpnHolds
    PROVE  ReaderInv'
<1> DEFINE block == << <<">HOLD:">> >>
           e == [type |-> "hold"]
<1>1. /\ Write(block) /\ meant' = Append(meant, e)
      /\ UNCHANGED <<asked, closed, readerVars, brokerVars, answers>>
  BY Zenon DEF VpnHolds
<1>3. IsSeq(meant)
  BY Zenon DEF ReaderInv, Shape
<1>4. IsSeq(block)
  BY TupleIs, Zenon
<1>5. \A said : Completes(block, Append(meant, e), said, Len(meant))
  BY <1>3, HoldCompletes, Zenon
<1>6. Extends(meant, Append(meant, e))
  BY <1>3, ExtendsIs, Zenon
<1> HIDE DEF block, e
<1>7. Extends(meant, meant') /\ \A said : IsSeq(said) => Completes(block, meant', said, Len(meant))
  BY <1>1, <1>5, <1>6, Zenon
<1> QED BY <1>1, <1>4, <1>7, WriteStep, Zenon

\* A block that means nothing.
LEMMA OtherWrite ==
    ASSUME ReaderInv, TypeOK', Shape', NEW block, IsSeq(block), Write(block),
           \A said : Completes(block, meant, said, Len(meant)),
           UNCHANGED <<life, asked, closed, readerVars, brokerVars, meant, answers>>
    PROVE  ReaderInv'
<1>1. UNCHANGED <<asked, closed, readerVars, brokerVars, answers>> /\ UNCHANGED meant
  BY Zenon
<1>2. Extends(meant, meant)
  BY ExtendsIs, Zenon DEF ReaderInv, Shape
<1>3. Extends(meant, meant') /\ \A said : IsSeq(said) => Completes(block, meant', said, Len(meant))
  BY <1>1, <1>2, Zenon
<1> QED BY <1>1, <1>3, WriteStep, Zenon

LEMMA OtherStep ==
    ASSUME ReaderInv, TypeOK', Shape', VpnOther
    PROVE  ReaderInv'
<1>0. UNCHANGED <<life, asked, closed, readerVars, brokerVars, meant, answers>>
  BY Zenon DEF VpnOther
<1>1. NoEvent # Stopped /\ ">CLIENT:" # ">HOLD:" /\ ">LOG:" # ">CLIENT:" /\ ">LOG:" # ">HOLD:"
  BY DEF NoEvent, Stopped
<1>2. CASE Write(<< <<">CLIENT:", "ADDRESS">> >>)
  <2> DEFINE x == <<">CLIENT:", "ADDRESS">>
  <2>1. x[1] = ">CLIENT:" /\ x[2] = "ADDRESS"
    OBVIOUS
  <2> HIDE DEF x
  <2>2. ParseHeader(x) = "Ignored"
    BY <2>1 DEF ParseHeader
  <2>3. After(NoEvent, x) = NoEvent /\ ~Hands(NoEvent, x) /\ ~Responds(NoEvent, x)
    BY <1>1, <2>1, <2>2, Zenon DEF After, Hands, Responds
  <2>4. \A said : Completes(<<x>>, meant, said, Len(meant))
    BY <2>3, QuietCompletes, Zenon
  <2>5. IsSeq(<<x>>) /\ Write(<<x>>)
    BY <1>2, TupleIs, Zenon DEF x
  <2> QED BY <1>0, <2>4, <2>5, OtherWrite, Zenon
<1>3. CASE Write(<< <<">LOG:">> >>)
  <2> DEFINE x == <<">LOG:">>
  <2>1. x[1] = ">LOG:"
    OBVIOUS
  <2> HIDE DEF x
  <2>3. After(NoEvent, x) = NoEvent /\ ~Hands(NoEvent, x) /\ ~Responds(NoEvent, x)
    BY <1>1, <2>1, Zenon DEF After, Hands, Responds
  <2>4. \A said : Completes(<<x>>, meant, said, Len(meant))
    BY <2>3, QuietCompletes, Zenon
  <2>5. IsSeq(<<x>>) /\ Write(<<x>>)
    BY <1>3, TupleIs, Zenon DEF x
  <2> QED BY <1>0, <2>4, <2>5, OtherWrite, Zenon
<1>4. ASSUME NEW c \in Cids, Write(<< <<">CLIENT:", "CR_RESPONSE", c>> >> \o EnvBlock(c))
      PROVE  ReaderInv'
  <2> DEFINE h == <<">CLIENT:", "CR_RESPONSE", c>>
             y == SubSeq(h, 4, Len(h))
             k == Len(meant)
             block == <<h>> \o EnvBlock(c)
  <2>1. h[1] = ">CLIENT:" /\ h[2] = "CR_RESPONSE"
    OBVIOUS
  <2> HIDE DEF h, k
  <2>2. ParseHeader(h) = "Unknown"
    BY <2>1 DEF ParseHeader
  <2>3. "Unknown" # "Ignored" /\ "Unknown" # "error"
    OBVIOUS
  <2>4. After(NoEvent, h) = Ev("Unknown", {}, "", y) /\ ~Hands(NoEvent, h) /\ ~Responds(NoEvent, h)
    BY <1>1, <2>1, <2>2, <2>3, Zenon DEF After, Hands, Responds, Ev
  <2> HIDE DEF y
  <2>5. ASSUME NEW said, NEW w, NEW p, IsSeq(w), Leads(w, meant, said, p, Place(NoEvent, k, Len(said)))
        PROVE  Leads(w \o block, meant, said, p, Place(NoEvent, k, Len(said)))
    <3> DEFINE t == "Unknown"
               x == ""
    <3>1. /\ t \in EventTypes \cup {"Unknown"} /\ After(NoEvent, h) = Ev(t, {}, x, y)
          /\ t = "Unknown" /\ ~Hands(NoEvent, h) /\ ~Responds(NoEvent, h)
      BY <2>4, Zenon
    <3> HIDE DEF t, x
    <3>2. Leads(w \o (<<h>> \o EnvBlock(c)), meant, said, p,
                Place(NoEvent, IF t # "Unknown" THEN k + 1 ELSE k, Len(said)))
      <4>1. t # "Unknown" => k + 1 \in 1 .. Len(meant) /\ meant[k + 1] = Ev(t, Env(c), x, y)
        BY <3>1, Zenon
      <4> QED BY <2>5, <3>1, <4>1, BlockLeads, SMT
    <3> QED BY <3>1, <3>2, Zenon
  <2>6. \A said : Ends(Place(NoEvent, k, Len(said)), meant, said)
    BY Zenon DEF Ends, k
  <2> HIDE DEF block
  <2>7. \A said : Completes(block, meant, said, Len(meant))
    BY <2>5, <2>6, Zenon DEF Completes, k
  <2>8. IsSeq(block) /\ Write(block)
    BY <1>4, EnvBlockIs, Zenon DEF block, h
  <2> QED BY <1>0, <2>7, <2>8, OtherWrite, Zenon
<1> QED BY <1>2, <1>3, <1>4, Zenon DEF VpnOther

LEMMA GarbleStep ==
    ASSUME ReaderInv, TypeOK', Shape', VpnGarbles
    PROVE  ReaderInv'
<1>0. UNCHANGED <<life, asked, closed, readerVars, brokerVars, meant, answers>>
  BY Zenon DEF VpnGarbles
<1>1. NoEvent # Stopped /\ ">CLIENT:" # ">HOLD:" /\ "error" # "Ignored"
  BY DEF NoEvent, Stopped
<1>2. ASSUME NEW x, x[1] = ">CLIENT:", ParseHeader(x) = "error", Write(<<x>>)
      PROVE  ReaderInv'
  <2>1. After(NoEvent, x) = Stopped /\ ~Hands(NoEvent, x) /\ ~Responds(NoEvent, x)
    BY <1>1, <1>2, Zenon DEF After, Hands, Responds
  <2>2. \A said : Completes(<<x>>, meant, said, Len(meant))
    BY <2>1, QuietCompletes, Zenon
  <2> QED BY <1>0, <1>2, <2>2, TupleIs, OtherWrite, Zenon
<1>3. ASSUME NEW t \in {"DISCONNECT", "ESTABLISHED"}, Write(<< <<">CLIENT:", t>> >>)
      PROVE  ReaderInv'
  <2> DEFINE x == <<">CLIENT:", t>>
  <2>1. x[1] = ">CLIENT:" /\ x[2] = t /\ Len(x) = 2
    OBVIOUS
  <2> HIDE DEF x
  <2>2. ParseHeader(x) = "error"
    BY <2>1 DEF ParseHeader
  <2> QED BY <1>2, <1>3, <2>1, <2>2, Zenon DEF x
<1>4. ASSUME NEW t \in {"CONNECT", "REAUTH"}, NEW c \in Cids, Write(<< <<">CLIENT:", t, c>> >>)
      PROVE  ReaderInv'
  <2> DEFINE x == <<">CLIENT:", t, c>>
  <2>1. x[1] = ">CLIENT:" /\ x[2] = t /\ Len(x) = 3
    OBVIOUS
  <2> HIDE DEF x
  <2>2. ParseHeader(x) = "error"
    BY <2>1 DEF ParseHeader
  <2> QED BY <1>2, <1>4, <2>1, <2>2, Zenon DEF x
<1> QED BY <1>3, <1>4, Zenon DEF VpnGarbles

\* OpenVPN answers a command.
LEMMA CommandAnswered ==
    ASSUME ReaderInv, TypeOK', Shape', asked # <<>>, asked = <<executing>>, executing \in Contracts,
           NEW a, NEW result, Response(executing, a, result), ~closed,
           asked' = <<>>, wire' = wire \o a, answers' = Append(answers, result),
           UNCHANGED <<life, blocks, closed, readerVars, brokerVars, meant>>
    PROVE  ReaderInv'
<1>1. UNCHANGED <<reader, event, notifications, responseLine, executing, lines, results>>
  BY Zenon DEF readerVars, brokerVars
<1>2. /\ IsSeq(a) /\ IsSeq(wire) /\ IsSeq(answers) /\ IsSeq(meant)
      /\ \A j \in 1 .. Len(a) : a[j][1] \notin {">CLIENT:", ">HOLD:", ">LOG:"}
  BY Zenon DEF Response, ReaderInv, Shape
<1>3. PICK said : \E base \in Nat : /\ IsSeq(said) /\ Stream(said, base)
                                    /\ Unanswered(said, base) \/ Answered(said, base)
  BY Zenon DEF ReaderInv, Exchange
<1>4. PICK base \in Nat : /\ IsSeq(said) /\ Stream(said, base)
                          /\ Unanswered(said, base) \/ Answered(said, base)
  BY <1>3, Zenon
<1>5. executing # "none" /\ executing # "password"
  BY DEF Contracts
<1>6. base = Len(said) /\ lines = <<>> /\ responseLine = <<>> /\ results = answers
  BY <1>4, Zenon DEF Unanswered, Answered
<1> DEFINE b == said \o a
<1>7. Follows(b, said, a)
  BY <1>2, <1>4, ConcatFollows, Zenon
<1>8. Leads(a, meant, b, Place(NoEvent, Len(meant), Len(said)),
            Place(NoEvent, Len(meant), Len(said) + Len(a)))
  BY <1>2, <1>4, LeadsResponse, Zenon
<1> HIDE DEF b
<1>9. Stream(b, base)'
  <2>1. CASE reader = "stopped"
    BY <1>1, <2>1, Zenon DEF Stream
  <2>2. CASE reader # "stopped"
    <3>1. reader \in {"probe", "lines", "block"} /\ reader # "probe" /\ Flows(said, base)
      BY <1>4, <1>5, <2>2, Zenon DEF Stream
    <3>2. PICK q : Leads(wire, meant, said, Here(base), q) /\ Ends(q, meant, said)
      BY <3>1, Zenon DEF Flows
    <3>3. Leads(wire, meant, b, Here(base), q)
      <4>1. \A i \in 1 .. Len(said) : i \in 1 .. Len(b) /\ b[i] = said[i]
        <5>1. \A i \in 1 .. Len(said) : i \in 1 .. Len(b)
          BY <1>7 DEF Follows
        <5> QED BY <1>7, <5>1, Zenon DEF Follows
      <4>2. \A i \in 1 .. Len(meant) : i \in 1 .. Len(meant) /\ meant[i] = meant[i]
        BY Zenon
      <4> QED BY <3>2, <4>1, <4>2, LeadsStill, Zenon
    <3>4. \E r : Leads(wire \o a, meant, b, Here(base), r) /\ Ends(r, meant, b)
      <4>1. CASE q = Place(NoEvent, Len(meant), Len(said))
        <5> DEFINE r == Place(NoEvent, Len(meant), Len(said) + Len(a))
        <5>1. Leads(a, meant, b, q, r)
          BY <1>8, <4>1, Zenon
        <5>2. Leads(wire \o a, meant, b, Here(base), r)
          BY <1>2, <3>3, <5>1, LeadsConcat, Zenon
        <5>3. Ends(r, meant, b)
          BY <1>7, Zenon DEF Ends, Follows
        <5> QED BY <5>2, <5>3, Zenon
      <4>2. CASE \E n, r : q = Place(Stopped, n, r)
        <5>1. PICK n, r : q = Place(Stopped, n, r)
          BY <4>2, Zenon
        <5>2. Leads(a, meant, b, q, q)
          BY <1>2, <5>1, LeadsStopped, Zenon
        <5>3. Leads(wire \o a, meant, b, Here(base), q)
          BY <1>2, <3>3, <5>2, LeadsConcat, Zenon
        <5>4. Ends(q, meant, b)
          BY <5>1, Zenon DEF Ends
        <5> QED BY <5>3, <5>4, Zenon
      <4> QED BY <3>2, <4>1, <4>2, Zenon DEF Ends
    <3>5. Here(base)' = Here(base)
      BY <1>1, Zenon DEF Here
    <3>6. Flows(b, base)'
      BY <3>4, <3>5, Zenon DEF Flows
    <3>7. asked' # <<"password">>
      OBVIOUS
    <3> QED BY <1>1, <3>1, <3>6, <3>7, Zenon DEF Stream
  <2> QED BY <2>1, <2>2, Zenon
<1>10. Answered(b, base)'
  <2>1. /\ Len(answers') = Len(results') + 1 /\ \A i \in 1 .. Len(results') : results'[i] = answers'[i]
        /\ answers'[Len(answers')] = result
    BY <1>1, <1>2, <1>6, AppendIs
  <2>2. Len(<<>>) = 0 /\ \A i \in 1 .. 0 : FALSE
    OBVIOUS
  <2>3. Arrives(a, b, base)'
    <3>1. Response(executing, a, answers'[Len(answers')])
      BY <2>1, Zenon
    <3>2. Len(b) = base + Len(a) /\ \A i \in 1 .. Len(a) : b[base + i] = a[i]
      BY <1>6, <1>7, Zenon DEF Follows
    <3>3. 0 + 0 <= Len(a)
      BY <1>7 DEF Follows
    <3>4. Len(lines') + Len(responseLine') <= Len(a)
      BY <1>1, <1>6, <2>2, <3>3, Zenon
    <3> QED BY <1>1, <1>6, <2>2, <3>1, <3>2, <3>4, Zenon DEF Arrives
  <2> QED BY <1>1, <1>5, <2>1, <2>3, Zenon DEF Answered
<1>11. NotificationsIntact'
  BY <1>1, Zenon DEF ReaderInv, NotificationsIntact
<1>12. IsSeq(b)
  BY <1>7, Zenon DEF Follows
<1> QED BY <1>9, <1>10, <1>11, <1>12, Zenon DEF ReaderInv, Exchange

LEMMA AnswerStep ==
    ASSUME ReaderInv, TypeOK', Shape', VpnAnswers
    PROVE  ReaderInv'
<1>1. /\ asked # <<>> /\ ~closed /\ asked' = <<>>
      /\ UNCHANGED <<life, blocks, closed, readerVars, brokerVars, meant>>
  BY Zenon DEF VpnAnswers
<1>2. UNCHANGED <<reader, event, notifications, responseLine, executing, lines, results>>
  BY <1>1, Zenon DEF readerVars, brokerVars
<1>3. PICK said : \E base \in Nat : /\ IsSeq(said) /\ Stream(said, base)
                                    /\ Unanswered(said, base) \/ Answered(said, base)
  BY Zenon DEF ReaderInv, Exchange
<1>4. PICK base \in Nat : /\ IsSeq(said) /\ Stream(said, base)
                          /\ Unanswered(said, base) \/ Answered(said, base)
  BY <1>3, Zenon
<1>5. /\ Unanswered(said, base)
      /\ \/ executing = "none" /\ asked = <<"password">>
         \/ executing # "none" /\ asked = <<executing>>
  BY <1>1, <1>4, Zenon DEF Unanswered, Answered
<1>6. /\ \A x : Head(<<x>>) = x
      /\ "password" # "multiLineUntilEnd" /\ "password" \notin Contracts
  BY DEF Contracts
<1>7. CASE executing = "none" /\ asked = <<"password">>
  <2>1. PICK r : wire' = Append(wire, <<r>>) /\ answers' = answers
    BY <1>6, <1>7, Zenon DEF VpnAnswers
  <2>2. Stream(said, base)'
    <3>1. CASE reader = "stopped"
      BY <1>2, <3>1, Zenon DEF Stream
    <3>2. CASE reader # "stopped"
      <4>1. reader = "password" /\ meant = <<>> /\ wire = <<>>
        BY <1>1, <1>4, <1>7, <3>2, Zenon DEF Stream
      <4>2. Len(wire') = 1
        BY <2>1, <4>1
      <4> QED BY <1>1, <1>2, <1>7, <4>1, <4>2, Zenon DEF Stream
    <3> QED BY <3>1, <3>2, Zenon
  <2>3. Unanswered(said, base)'
    BY <1>1, <1>2, <1>5, <1>7, <2>1, Zenon DEF Unanswered
  <2>4. NotificationsIntact'
    BY <1>1, <1>2, Zenon DEF ReaderInv, NotificationsIntact
  <2> QED BY <1>4, <2>2, <2>3, <2>4, Zenon DEF ReaderInv, Exchange
<1>8. CASE executing # "none" /\ asked = <<executing>>
  <2>1. executing \in Contracts /\ Head(asked) = executing
    BY <1>6, <1>8, Zenon DEF ReaderInv, TypeOK
  <2>2. ASSUME NEW order \in Orders, executing = "multiLineUntilEnd",
               wire' = wire \o StatusBlock(order), answers' = Append(answers, Meaning(order))
        PROVE  ReaderInv'
    <3>1. Response(executing, StatusBlock(order), Meaning(order))
      BY <2>2, StatusMeans, Zenon DEF ReaderInv
    <3> QED BY <1>1, <1>8, <2>1, <2>2, <3>1, CommandAnswered, Zenon
  <2>3. ASSUME NEW r \in AckLines, executing # "multiLineUntilEnd",
               wire' = Append(wire, <<r>>), answers' = Append(answers, <<"ack", r>>)
        PROVE  ReaderInv'
    <3> DEFINE a == << <<r>> >>
    <3>1. r \in Acks
      BY Zenon DEF AckLines, Acks
    <3>2. IsSeq(a) /\ Len(a) = 1 /\ a[1] = <<r>> /\ <<r>>[1] = r /\ a # <<>>
      BY TupleIs
    <3>3. r \notin {">CLIENT:", ">HOLD:", ">LOG:"}
      BY <3>1 DEF Acks
    <3>4. Response(executing, a, <<"ack", r>>)
      <4>1. \A j \in 1 .. Len(a) : a[j] = <<r>>
        BY <3>2
      <4> HIDE DEF a
      <4>2. \A j \in 1 .. Len(a) : a[j][1] \notin {">CLIENT:", ">HOLD:", ">LOG:"}
        BY <3>2, <3>3, <4>1, Zenon
      <4>3. \E s \in Acks : a = << <<s>> >> /\ <<"ack", r>> = <<"ack", s>>
        BY <3>1, Zenon DEF a
      <4> QED BY <2>3, <3>2, <4>2, <4>3, Zenon DEF Response
    <3>5. wire' = wire \o a
      BY <2>3, OneLine, Zenon DEF ReaderInv, Shape
    <3> HIDE DEF a
    <3> QED BY <1>1, <1>8, <2>1, <2>3, <3>4, <3>5, CommandAnswered, Zenon
  <2>4. executing # "password"
    BY <1>6, <2>1, Zenon
  <2> QED BY <2>1, <2>2, <2>3, <2>4, Zenon DEF VpnAnswers
<1> QED BY <1>5, <1>7, <1>8, Zenon
=============================================================================
