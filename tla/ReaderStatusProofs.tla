------------------------- MODULE ReaderStatusProofs -------------------------
(***************************************************************************)
(* What ParseStatusLines makes of the response to status 3, with any       *)
(* columns in any order that has the ones the daemon needs: exactly the    *)
(* clients OpenVPN had when it wrote it (StatusMeans).                     *)
(*                                                                         *)
(* Layout says where the headers and the rows of a response are.  From it  *)
(* follow the header that counts at each row, the value under each name,   *)
(* and so what each row is parsed to.                                      *)
(***************************************************************************)
EXTENDS ManagementReader, FiniteSetTheorems, TLAPS
-----------------------------------------------------------------------------
(* Sequences of anything. *)

IsSeq(s) == \E X : s \in Seq(X)

LEMMA SeqIs ==
    ASSUME NEW s, IsSeq(s)
    PROVE  /\ Len(s) \in Nat /\ DOMAIN s = 1 .. Len(s)
           /\ Len(s) = 0 <=> s = <<>>
  BY DEF IsSeq

LEMMA EmptyIs == IsSeq(<<>>) /\ Len(<<>>) = 0
<1>1. <<>> \in Seq({}) /\ Len(<<>>) = 0
  OBVIOUS
<1> QED BY <1>1, Zenon DEF IsSeq

LEMMA AppendIs ==
    ASSUME NEW s, IsSeq(s), NEW x
    PROVE  /\ IsSeq(Append(s, x)) /\ Len(Append(s, x)) = Len(s) + 1
           /\ \A i \in 1 .. Len(s) : Append(s, x)[i] = s[i]
           /\ Append(s, x)[Len(s) + 1] = x
<1>1. PICK X : s \in Seq(X)
  BY Zenon DEF IsSeq
<1> DEFINE Y == X \cup {x}
<1>2. s \in Seq(Y) /\ x \in Y
  BY <1>1
<1> HIDE DEF Y
<1>3. /\ Append(s, x) \in Seq(Y) /\ Len(Append(s, x)) = Len(s) + 1
      /\ \A i \in 1 .. Len(s) : Append(s, x)[i] = s[i]
      /\ Append(s, x)[Len(s) + 1] = x
  BY <1>2
<1> QED BY <1>3, Zenon DEF IsSeq

LEMMA TailIs ==
    ASSUME NEW s, IsSeq(s), s # <<>>
    PROVE  /\ IsSeq(Tail(s)) /\ Len(s) > 0 /\ Len(Tail(s)) = Len(s) - 1
           /\ \A i \in 1 .. Len(s) - 1 : Tail(s)[i] = s[i + 1]
           /\ Head(s) = s[1]
<1>1. PICK X : s \in Seq(X)
  BY Zenon DEF IsSeq
<1>2. /\ Tail(s) \in Seq(X) /\ Len(s) > 0 /\ Len(Tail(s)) = Len(s) - 1
      /\ \A i \in 1 .. Len(s) - 1 : Tail(s)[i] = s[i + 1]
      /\ Head(s) = s[1]
  BY <1>1
<1> QED BY <1>2, Zenon DEF IsSeq

LEMMA PrefixIs ==
    ASSUME NEW s, IsSeq(s), NEW n \in 0 .. Len(s)
    PROVE  /\ IsSeq(SubSeq(s, 1, n)) /\ Len(SubSeq(s, 1, n)) = n
           /\ \A i \in 1 .. n : SubSeq(s, 1, n)[i] = s[i]
<1>1. PICK X : s \in Seq(X)
  BY Zenon DEF IsSeq
<1>2. /\ SubSeq(s, 1, n) \in Seq(X) /\ Len(SubSeq(s, 1, n)) = n
      /\ \A i \in 1 .. n : SubSeq(s, 1, n)[i] = s[i]
  BY <1>1
<1> QED BY <1>2, Zenon DEF IsSeq

LEMMA ConcatIs ==
    ASSUME NEW s, IsSeq(s), NEW t, IsSeq(t)
    PROVE  /\ IsSeq(s \o t) /\ Len(s \o t) = Len(s) + Len(t)
           /\ \A i \in 1 .. Len(s) : (s \o t)[i] = s[i]
           /\ \A i \in 1 .. Len(t) : (s \o t)[Len(s) + i] = t[i]
<1>1. PICK X : s \in Seq(X)
  BY Zenon DEF IsSeq
<1>2. PICK Y : t \in Seq(Y)
  BY Zenon DEF IsSeq
<1>3. s \in Seq(X \cup Y) /\ t \in Seq(X \cup Y)
  BY <1>1, <1>2
<1>4. /\ s \o t \in Seq(X \cup Y) /\ Len(s \o t) = Len(s) + Len(t)
      /\ \A i \in 1 .. Len(s) : (s \o t)[i] = s[i]
      /\ \A i \in 1 .. Len(t) : (s \o t)[Len(s) + i] = t[i]
  BY <1>3
<1> QED BY <1>4, Zenon DEF IsSeq

\* Two sequences are the same if their elements are.
LEMMA SameSeq ==
    ASSUME NEW s, IsSeq(s), NEW t, IsSeq(t), Len(s) = Len(t),
           \A i \in 1 .. Len(s) : s[i] = t[i]
    PROVE  s = t
<1>1. PICK X : s \in Seq(X)
  BY Zenon DEF IsSeq
<1>2. PICK Y : t \in Seq(Y)
  BY Zenon DEF IsSeq
<1> QED BY <1>1, <1>2

\* A prefix, element by element.
LEMMA IsPrefixIs ==
    ASSUME NEW s, IsSeq(s), NEW t, IsSeq(t)
    PROVE  IsPrefix(s, t) <=> Len(s) <= Len(t) /\ \A i \in 1 .. Len(s) : s[i] = t[i]
<1>1. Len(s) \in Nat /\ Len(t) \in Nat
  BY SeqIs
<1>2. Len(s) <= Len(t) => Len(s) \in 0 .. Len(t)
  BY <1>1
<1>3. Len(s) \in 0 .. Len(s)
  BY <1>1
<1>4. ASSUME IsPrefix(s, t) PROVE Len(s) <= Len(t) /\ \A i \in 1 .. Len(s) : s[i] = t[i]
  BY <1>2, <1>3, <1>4, PrefixIs, Zenon DEF IsPrefix
<1>5. ASSUME Len(s) <= Len(t), \A i \in 1 .. Len(s) : s[i] = t[i] PROVE IsPrefix(s, t)
  <2>1. SubSeq(s, 1, Len(s)) = SubSeq(t, 1, Len(s))
    <3>1. /\ IsSeq(SubSeq(s, 1, Len(s))) /\ Len(SubSeq(s, 1, Len(s))) = Len(s)
          /\ \A i \in 1 .. Len(s) : SubSeq(s, 1, Len(s))[i] = s[i]
      BY <1>3, PrefixIs, Zenon
    <3>2. /\ IsSeq(SubSeq(t, 1, Len(s))) /\ Len(SubSeq(t, 1, Len(s))) = Len(s)
          /\ \A i \in 1 .. Len(s) : SubSeq(t, 1, Len(s))[i] = t[i]
      BY <1>2, <1>5, PrefixIs, Zenon
    <3> QED BY <1>5, <3>1, <3>2, SameSeq, Zenon
  <2> QED BY <1>5, <2>1, Zenon DEF IsPrefix
<1> QED BY <1>4, <1>5, Zenon

LEMMA TupleIs ==
    /\ \A x : IsSeq(<<x>>) /\ Len(<<x>>) = 1 /\ <<x>>[1] = x
    /\ \A x, y : IsSeq(<<x, y>>) /\ Len(<<x, y>>) = 2
    /\ \A x, y, z : IsSeq(<<x, y, z>>) /\ Len(<<x, y, z>>) = 3
    /\ \A x, y, z, u : IsSeq(<<x, y, z, u>>) /\ Len(<<x, y, z, u>>) = 4
<1>1. \A x : <<x>> \in Seq({x}) /\ Len(<<x>>) = 1 /\ <<x>>[1] = x
  OBVIOUS
<1>2. \A x, y : <<x, y>> \in Seq({x, y}) /\ Len(<<x, y>>) = 2
  OBVIOUS
<1>3. \A x, y, z : <<x, y, z>> \in Seq({x, y, z}) /\ Len(<<x, y, z>>) = 3
  OBVIOUS
<1>4. \A x, y, z, u : <<x, y, z, u>> \in Seq({x, y, z, u}) /\ Len(<<x, y, z, u>>) = 4
  OBVIOUS
<1> QED BY <1>1, <1>2, <1>3, <1>4, Zenon DEF IsSeq

-----------------------------------------------------------------------------
(* The response to a status command. *)

Acks == {"SUCCESS:", "ERROR:", "desynchronized"}

\* The lines a are a response to a command, and result is what it says.
Response(contract, a, result) ==
    /\ IsSeq(a) /\ a # <<>>
    /\ \A j \in 1 .. Len(a) : a[j][1] \notin {">CLIENT:", ">HOLD:", ">LOG:"}
    /\ contract = "singleLineAck" =>
          \E r \in Acks : a = << <<r>> >> /\ result = <<"ack", r>>
    /\ contract = "multiLineUntilEnd" =>
          /\ a[Len(a)] = <<"END">>
          /\ \A j \in 1 .. Len(a) - 1 : a[j] # <<"END">>
          /\ result = IF Unparsable(a) THEN <<"error", "unparsable">>
                      ELSE <<"snapshot", ParseStatusLines(a)>>

\* The elements of a finite set, in some order.
LEMMA SetToSeqIs ==
    ASSUME NEW S, IsFiniteSet(S)
    PROVE  /\ IsSeq(SetToSeq(S))
           /\ \A i \in 1 .. Len(SetToSeq(S)) : SetToSeq(S)[i] \in S
           /\ \A x \in S : \E i \in 1 .. Len(SetToSeq(S)) : SetToSeq(S)[i] = x
<1> DEFINE n == Cardinality(S)
           s == SetToSeq(S)
<1>1. n \in Nat /\ ExistsBijection(1 .. n, S)
  BY FS_CardinalityType, Zenon
<1>2. PICK g : g \in [1 .. n -> S] /\ IsInjective(g)
  BY <1>1, Zenon DEF ExistsBijection, Bijection, Injection
<1>3. s \in [1 .. n -> S] /\ IsInjective(s)
  BY <1>2, Zenon DEF SetToSeq
<1>4. s \in Injection(1 .. n, S)
  BY <1>3, Zenon DEF Injection
<1>5. IsFiniteSet(1 .. n) /\ Cardinality(1 .. n) = n
  BY <1>1, FS_Interval
<1>6. s \in Surjection(1 .. n, S)
  BY <1>4, <1>5, FS_Injection, Zenon
<1> HIDE DEF s, n
<1>7. s \in Seq(S) /\ Len(s) = n
  BY <1>1, <1>3
<1>8. IsSeq(s)
  BY <1>7, Zenon DEF IsSeq
<1>9. \A x \in S : \E i \in 1 .. n : s[i] = x
  BY <1>6, Zenon DEF Surjection
<1> QED BY <1>3, <1>7, <1>8, <1>9, Zenon DEF s

\* A row has its kind, and the value of a client under each of the columns.
LEMMA RowIs ==
    ASSUME NEW kind, NEW columns, IsSeq(columns), NEW c
    PROVE  /\ IsSeq(Row(kind, columns, c)) /\ Len(Row(kind, columns, c)) = Len(columns) + 1
           /\ Row(kind, columns, c)[1] = kind
           /\ \A j \in 1 .. Len(columns) : Row(kind, columns, c)[j + 1] = Cell(c, columns[j])
<1> DEFINE n == Len(columns)
           v == [i \in DOMAIN columns |-> Cell(c, columns[i])]
           X == {Cell(c, columns[i]) : i \in 1 .. n}
<1>1. n \in Nat /\ DOMAIN columns = 1 .. n
  BY SeqIs, Zenon
<1>2. v = [i \in 1 .. n |-> Cell(c, columns[i])]
  BY <1>1, Zenon
<1>3. v \in [1 .. n -> X]
  BY <1>2, Zenon
<1>4. \A i \in 1 .. n : v[i] = Cell(c, columns[i])
  BY <1>2, Zenon
<1> HIDE DEF n, v, X
<1>5. v \in Seq(X) /\ Len(v) = n
  BY <1>1, <1>3
<1>6. IsSeq(v)
  BY <1>5, Zenon DEF IsSeq
<1>7. IsSeq(<<kind>>) /\ Len(<<kind>>) = 1 /\ <<kind>>[1] = kind
  BY TupleIs, Zenon
<1>8. /\ IsSeq(<<kind>> \o v) /\ Len(<<kind>> \o v) = 1 + n
      /\ \A i \in 1 .. 1 : (<<kind>> \o v)[i] = <<kind>>[i]
      /\ \A i \in 1 .. n : (<<kind>> \o v)[1 + i] = v[i]
  BY <1>5, <1>6, <1>7, ConcatIs, SMT
<1>9. 1 \in 1 .. 1 /\ 1 + n = n + 1 /\ \A i \in 1 .. n : 1 + i = i + 1
  BY <1>1
<1>10. Row(kind, columns, c) = <<kind>> \o v
  BY Zenon DEF Row, v
<1> QED BY <1>4, <1>7, <1>8, <1>9, <1>10, Zenon DEF n

RowAt(rows, i, kind, columns, c) ==
    rows[i] = Row(kind, columns, c) /\ Header(rows, kind, i) = columns

\* The k-th of the names is the first that the columns have.
FirstName(names, k, columns) ==
    /\ \E j \in 1 .. Len(columns) : columns[j] = names[k]
    /\ \A l \in 1 .. Len(names), j \in 1 .. Len(columns) : columns[j] = names[l] => k <= l

\* The value under the first name that the header has.
LEMMA ValueIs ==
    ASSUME NEW rows, NEW i, NEW kind, NEW columns, IsSeq(columns), NEW c,
           RowAt(rows, i, kind, columns, c), NEW names, IsSeq(names),
           NEW k \in 1 .. Len(names), FirstName(names, k, columns)
    PROVE  StatusValue(rows, i, names) = Cell(c, names[k])
<1> DEFINE header == Header(rows, rows[i][1], i)
           known == {x \in (DOMAIN names) \X (DOMAIN header) :
                        header[x[2]] = names[x[1]] /\ x[2] + 1 <= Len(rows[i])}
           first == CHOOSE x \in known : \A l \in known : x[1] <= l[1]
<1>1. StatusValue(rows, i, names) = IF known = {} THEN "" ELSE rows[i][first[2] + 1]
  BY Zenon DEF StatusValue
<1>0. /\ Len(rows[i]) = Len(columns) + 1 /\ rows[i][1] = kind
      /\ \A j \in 1 .. Len(columns) : rows[i][j + 1] = Cell(c, columns[j])
  <2> DEFINE row == Row(kind, columns, c)
  <2>1. /\ Len(row) = Len(columns) + 1 /\ row[1] = kind
        /\ \A j \in 1 .. Len(columns) : row[j + 1] = Cell(c, columns[j])
    BY RowIs, SMT
  <2> HIDE DEF row
  <2>2. rows[i] = row
    BY Zenon DEF row, RowAt
  <2> QED BY <2>1, <2>2, Zenon
<1>2. header = columns /\ Len(rows[i]) = Len(columns) + 1
  BY <1>0, Zenon DEF RowAt
<1>3. /\ Len(columns) \in Nat /\ DOMAIN columns = 1 .. Len(columns)
      /\ Len(names) \in Nat /\ DOMAIN names = 1 .. Len(names)
  BY SeqIs, Zenon
<1> HIDE DEF header
<1>4. \A x : x \in known <=>
         /\ x \in (1 .. Len(names)) \X (1 .. Len(columns))
         /\ columns[x[2]] = names[x[1]] /\ x[2] + 1 <= Len(columns) + 1
  BY <1>2, <1>3, Zenon
<1>5. PICK j \in 1 .. Len(columns) : columns[j] = names[k]
  BY Zenon DEF FirstName
<1>6. <<k, j>> \in known
  <2>1. j + 1 <= Len(columns) + 1
    BY <1>3
  <2>2. <<k, j>> \in (1 .. Len(names)) \X (1 .. Len(columns)) /\ <<k, j>>[1] = k /\ <<k, j>>[2] = j
    OBVIOUS
  <2> QED BY <1>4, <1>5, <2>1, <2>2, Zenon
<1>7. \A x \in known : /\ x[1] \in 1 .. Len(names) /\ x[2] \in 1 .. Len(columns)
                       /\ columns[x[2]] = names[x[1]] /\ k <= x[1]
  <2>1. \A x \in (1 .. Len(names)) \X (1 .. Len(columns)) :
            x[1] \in 1 .. Len(names) /\ x[2] \in 1 .. Len(columns)
    OBVIOUS
  <2> QED BY <1>4, <2>1, Zenon DEF FirstName
<1> HIDE DEF known
<1>8. \A l \in known : <<k, j>>[1] <= l[1]
  BY <1>7
<1>9. first \in known /\ \A l \in known : first[1] <= l[1]
  BY <1>6, <1>8, Zenon
<1> HIDE DEF first
<1>10. first[1] = k
  <2>1. first[1] <= <<k, j>>[1] /\ <<k, j>>[1] = k
    BY <1>6, <1>9
  <2> QED BY <1>3, <1>7, <1>9, <2>1
<1>11. first[2] \in 1 .. Len(columns) /\ columns[first[2]] = names[k]
  BY <1>7, <1>9, <1>10, Zenon
<1>12. rows[i][first[2] + 1] = Cell(c, names[k])
  BY <1>0, <1>11, Zenon
<1> QED BY <1>1, <1>6, <1>12, Zenon

\* The first line of a table names its columns.
HeaderLine(kind, columns) == <<"HEADER", kind>> \o columns

LEMMA HeaderLineIs ==
    ASSUME NEW kind, NEW columns, IsSeq(columns)
    PROVE  /\ Len(HeaderLine(kind, columns)) = Len(columns) + 2
           /\ HeaderLine(kind, columns)[1] = "HEADER" /\ HeaderLine(kind, columns)[2] = kind
           /\ SubSeq(HeaderLine(kind, columns), 3, Len(HeaderLine(kind, columns))) = columns
<1>1. PICK X : columns \in Seq(X)
  BY Zenon DEF IsSeq
<1> DEFINE Y == X \cup {"HEADER", kind}
           h == <<"HEADER", kind>>
<1>2. columns \in Seq(Y) /\ h \in Seq(Y) /\ Len(h) = 2 /\ h[1] = "HEADER" /\ h[2] = kind
  BY <1>1
<1> HIDE DEF Y, h
<1>3. /\ h \o columns \in Seq(Y) /\ Len(h \o columns) = Len(columns) + 2
      /\ (h \o columns)[1] = h[1] /\ (h \o columns)[2] = h[2]
      /\ \A i \in 1 .. Len(columns) : (h \o columns)[i + 2] = columns[i]
  <2>1. IsSeq(h)
    BY <1>2, Zenon DEF IsSeq
  <2>2. /\ Len(h \o columns) = Len(h) + Len(columns)
        /\ \A i \in 1 .. Len(h) : (h \o columns)[i] = h[i]
        /\ \A i \in 1 .. Len(columns) : (h \o columns)[Len(h) + i] = columns[i]
    BY <2>1, ConcatIs, SMT
  <2>3. /\ h \o columns \in Seq(Y) /\ Len(columns) \in Nat
        /\ \A i \in 1 .. Len(columns) : 2 + i = i + 2
    BY <1>2
  <2>4. Len(h \o columns) = Len(columns) + 2 /\ 1 \in 1 .. Len(h) /\ 2 \in 1 .. Len(h)
    BY <1>2, <2>2, <2>3
  <2> QED BY <1>2, <2>2, <2>3, <2>4, Zenon
<1>4. SubSeq(h \o columns, 3, Len(h \o columns)) = columns
  BY <1>2, <1>3
<1> QED BY <1>2, <1>3, <1>4, Zenon DEF HeaderLine, h

Table(kind, columns, cs) ==
    <<HeaderLine(kind, columns)>> \o [i \in DOMAIN cs |-> Row(kind, columns, cs[i])]

LEMMA TableIs ==
    ASSUME NEW kind, NEW columns, NEW cs, IsSeq(cs)
    PROVE  /\ IsSeq(Table(kind, columns, cs)) /\ Len(Table(kind, columns, cs)) = Len(cs) + 1
           /\ Table(kind, columns, cs)[1] = HeaderLine(kind, columns)
           /\ \A i \in 1 .. Len(cs) :
                 Table(kind, columns, cs)[i + 1] = Row(kind, columns, cs[i])
<1> DEFINE n == Len(cs)
           h == HeaderLine(kind, columns)
           v == [i \in DOMAIN cs |-> Row(kind, columns, cs[i])]
           X == {Row(kind, columns, cs[i]) : i \in 1 .. n}
<1>1. n \in Nat /\ DOMAIN cs = 1 .. n
  BY SeqIs, Zenon
<1>2. v = [i \in 1 .. n |-> Row(kind, columns, cs[i])]
  BY <1>1, Zenon
<1>3. v \in [1 .. n -> X]
  BY <1>2, Zenon
<1>4. \A i \in 1 .. n : v[i] = Row(kind, columns, cs[i])
  BY <1>2, Zenon
<1> HIDE DEF n, v, X, h
<1>5. v \in Seq(X) /\ Len(v) = n
  BY <1>1, <1>3
<1>6. IsSeq(v)
  BY <1>5, Zenon DEF IsSeq
<1>7. IsSeq(<<h>>) /\ Len(<<h>>) = 1 /\ <<h>>[1] = h
  BY TupleIs, Zenon
<1>8. /\ IsSeq(<<h>> \o v) /\ Len(<<h>> \o v) = 1 + n
      /\ \A i \in 1 .. 1 : (<<h>> \o v)[i] = <<h>>[i]
      /\ \A i \in 1 .. n : (<<h>> \o v)[1 + i] = v[i]
  BY <1>5, <1>6, <1>7, ConcatIs, SMT
<1>9. 1 \in 1 .. 1 /\ 1 + n = n + 1 /\ \A i \in 1 .. n : 1 + i = i + 1
  BY <1>1
<1>10. Table(kind, columns, cs) = <<h>> \o v
  BY Zenon DEF Table, v, h
<1> QED BY <1>4, <1>7, <1>8, <1>9, <1>10, Zenon DEF n, h

\* The lines of a status that shows the clients cs, and the routes us.
Layout(a, order, cs, us) ==
    /\ IsSeq(a) /\ Len(a) = Len(cs) + Len(us) + 4
    /\ a[1] = <<"TITLE">> /\ a[2] = HeaderLine("CLIENT_LIST", order)
    /\ \A i \in 1 .. Len(cs) : a[i + 2] = Row("CLIENT_LIST", order, cs[i])
    /\ a[Len(cs) + 3] = HeaderLine("ROUTING_TABLE", RouteColumns)
    /\ \A i \in 1 .. Len(us) : a[Len(cs) + 3 + i] = Row("ROUTING_TABLE", RouteColumns, us[i])
    /\ a[Len(cs) + Len(us) + 4] = <<"END">>

Shown(states) == SetToSeq({c \in Cids : life[c] \in states})

LEMMA StatusLayout ==
    ASSUME NEW order, NEW cs, IsSeq(cs), NEW us, IsSeq(us),
           cs = Shown({"pending", "up"}), us = Shown({"up"})
    PROVE  Layout(StatusBlock(order), order, cs, us)
<1> DEFINE t == << <<"TITLE">> >>
           T == Table("CLIENT_LIST", order, cs)
           U == Table("ROUTING_TABLE", RouteColumns, us)
           e == << <<"END">> >>
           n == Len(cs)
           u == Len(us)
           a == ((t \o T) \o U) \o e
<1>1. StatusBlock(order) = a
  BY SMT DEF StatusBlock, Table, HeaderLine, Shown
<1>2. n \in Nat /\ u \in Nat
  BY SeqIs, Zenon
<1>3. /\ IsSeq(t) /\ Len(t) = 1 /\ t[1] = <<"TITLE">>
      /\ IsSeq(e) /\ Len(e) = 1 /\ e[1] = <<"END">>
  BY TupleIs, Zenon
<1>4. /\ IsSeq(T) /\ Len(T) = n + 1 /\ T[1] = HeaderLine("CLIENT_LIST", order)
      /\ \A i \in 1 .. n : T[i + 1] = Row("CLIENT_LIST", order, cs[i])
  BY TableIs, SMT
<1>5. /\ IsSeq(U) /\ Len(U) = u + 1 /\ U[1] = HeaderLine("ROUTING_TABLE", RouteColumns)
      /\ \A i \in 1 .. u : U[i + 1] = Row("ROUTING_TABLE", RouteColumns, us[i])
  BY TableIs, SMT
<1> HIDE DEF t, T, U, e
<1>6. /\ IsSeq(t \o T) /\ Len(t \o T) = n + 2
      /\ \A i \in 1 .. 1 : (t \o T)[i] = t[i]
      /\ \A i \in 1 .. n + 1 : (t \o T)[1 + i] = T[i]
  <2>1. /\ IsSeq(t \o T) /\ Len(t \o T) = Len(t) + Len(T)
        /\ \A i \in 1 .. Len(t) : (t \o T)[i] = t[i]
        /\ \A i \in 1 .. Len(T) : (t \o T)[Len(t) + i] = T[i]
    <3>1. IsSeq(t) /\ IsSeq(T)
      BY <1>3, <1>4, Zenon
    <3> QED BY <3>1, ConcatIs, SMT
  <2>2. 1 + (n + 1) = n + 2
    BY <1>2
  <2> QED BY <1>3, <1>4, <2>1, <2>2, Zenon
<1> DEFINE v == t \o T
<1> HIDE DEF v, n, u
<1>7. /\ IsSeq(v \o U) /\ Len(v \o U) = n + u + 3
      /\ \A i \in 1 .. n + 2 : (v \o U)[i] = v[i]
      /\ \A i \in 1 .. u + 1 : (v \o U)[n + 2 + i] = U[i]
  <2>1. /\ IsSeq(v \o U) /\ Len(v \o U) = Len(v) + Len(U)
        /\ \A i \in 1 .. Len(v) : (v \o U)[i] = v[i]
        /\ \A i \in 1 .. Len(U) : (v \o U)[Len(v) + i] = U[i]
    <3>1. IsSeq(v) /\ IsSeq(U)
      BY <1>5, <1>6, Zenon DEF v
    <3> QED BY <3>1, ConcatIs, SMT
  <2>2. (n + 2) + (u + 1) = n + u + 3
    BY <1>2
  <2>3. Len(v) = n + 2
    BY <1>6, Zenon DEF v
  <2> QED BY <1>5, <2>1, <2>2, <2>3, Zenon
<1> DEFINE w == v \o U
<1> HIDE DEF w
<1>8. /\ IsSeq(w \o e) /\ Len(w \o e) = n + u + 4
      /\ \A i \in 1 .. n + u + 3 : (w \o e)[i] = w[i]
      /\ \A i \in 1 .. 1 : (w \o e)[n + u + 3 + i] = e[i]
  <2>1. /\ IsSeq(w \o e) /\ Len(w \o e) = Len(w) + Len(e)
        /\ \A i \in 1 .. Len(w) : (w \o e)[i] = w[i]
        /\ \A i \in 1 .. Len(e) : (w \o e)[Len(w) + i] = e[i]
    <3>1. IsSeq(w) /\ IsSeq(e)
      BY <1>3, <1>7, Zenon DEF w
    <3> QED BY <3>1, ConcatIs, SMT
  <2>2. (n + u + 3) + 1 = n + u + 4
    BY <1>2
  <2>3. Len(w) = n + u + 3
    BY <1>7, Zenon DEF w
  <2> QED BY <1>3, <2>1, <2>2, <2>3, Zenon
<1> DEFINE b == w \o e
<1> HIDE DEF b
<1>9. b[1] = <<"TITLE">> /\ b[2] = T[1] /\ \A i \in 1 .. n : b[i + 2] = T[i + 1]
  <2>1. \A i \in 1 .. n + 2 : i \in 1 .. n + u + 3 /\ b[i] = v[i]
    <3>1. \A i \in 1 .. n + 2 : i \in 1 .. n + u + 3
      BY <1>2
    <3> QED BY <1>7, <1>8, <3>1, Zenon DEF w, b
  <2>2. \A i \in 1 .. n + 1 : b[1 + i] = T[i]
    <3>1. \A i \in 1 .. n + 1 : 1 + i \in 1 .. n + 2
      BY <1>2
    <3> QED BY <1>6, <2>1, <3>1, Zenon DEF v
  <2>3. \A i \in 1 .. n : i + 1 \in 1 .. n + 1 /\ 1 + (i + 1) = i + 2
    BY <1>2
  <2>4. b[1] = <<"TITLE">> /\ b[2] = T[1]
    BY <1>2, <1>3, <1>6, <2>1, <2>2 DEF v
  <2> QED BY <2>2, <2>3, <2>4, Zenon
<1>10. b[n + 3] = U[1] /\ \A i \in 1 .. u : b[n + 3 + i] = U[i + 1]
  <2>1. \A i \in 1 .. u + 1 : b[n + 2 + i] = U[i]
    BY <1>2, <1>7, <1>8 DEF w, b
  <2>2. \A i \in 1 .. u : i + 1 \in 1 .. u + 1 /\ n + 2 + (i + 1) = n + 3 + i
    BY <1>2
  <2>3. 1 \in 1 .. u + 1 /\ n + 2 + 1 = n + 3
    BY <1>2
  <2> QED BY <2>1, <2>2, <2>3, Zenon
<1>11. b[n + u + 4] = <<"END">>
  <2>1. 1 \in 1 .. 1 /\ n + u + 3 + 1 = n + u + 4
    BY <1>2
  <2> QED BY <1>3, <1>8, <2>1, Zenon DEF b
<1>12. IsSeq(b) /\ Len(b) = n + u + 4
  BY <1>8, Zenon DEF b
<1>13. StatusBlock(order) = b
  BY <1>1, Zenon DEF b, w, v
<1>14. Layout(b, order, cs, us)
  BY <1>4, <1>5, <1>9, <1>10, <1>11, <1>12, Zenon DEF Layout, n, u
<1> QED BY <1>13, <1>14, Zenon

LEMMA HeaderAt ==
    ASSUME NEW rows, NEW kind, NEW i \in Nat, NEW h \in 1 .. i - 1, NEW columns,
           IsSeq(columns), columns # <<>>, rows[h] = HeaderLine(kind, columns),
           \A j \in 1 .. i - 1 : rows[j][1] = "HEADER" /\ rows[j][2] = kind => j = h
    PROVE  Header(rows, kind, i) = columns
<1> DEFINE heads == {j \in 1 .. i - 1 : /\ Len(rows[j]) >= 3 /\ rows[j][1] = "HEADER"
                                        /\ rows[j][2] = kind}
           line == HeaderLine(kind, columns)
<1>1. /\ Len(line) = Len(columns) + 2 /\ line[1] = "HEADER" /\ line[2] = kind
      /\ SubSeq(line, 3, Len(line)) = columns
  BY HeaderLineIs, SMT
<1>2. Len(line) >= 3
  BY <1>1, SeqIs
<1> HIDE DEF line
<1>3. rows[h] = line
  BY Zenon DEF line
<1>4. heads = {h}
  BY <1>1, <1>2, <1>3, Zenon
<1>5. Max({h}) = h
  BY DEF Max
<1>6. Header(rows, kind, i) =
         IF heads = {} THEN <<>> ELSE SubSeq(rows[Max(heads)], 3, Len(rows[Max(heads)]))
  BY Zenon DEF Header
<1> HIDE DEF heads
<1> QED BY <1>1, <1>3, <1>4, <1>5, <1>6, Zenon

\* The lines of a status, by their kind.
Kinds(a, n, u) ==
    /\ a[1][1] = "TITLE"
    /\ a[2][1] = "HEADER" /\ a[2][2] = "CLIENT_LIST"
    /\ \A i \in 1 .. n : a[i + 2][1] = "CLIENT_LIST"
    /\ a[n + 3][1] = "HEADER" /\ a[n + 3][2] = "ROUTING_TABLE"
    /\ \A i \in 1 .. u : a[n + 3 + i][1] = "ROUTING_TABLE"
    /\ a[n + u + 4][1] = "END"

LEMMA LayoutKinds ==
    ASSUME NEW a, NEW order, IsSeq(order), NEW cs, IsSeq(cs), NEW us, IsSeq(us),
           Layout(a, order, cs, us)
    PROVE  Kinds(a, Len(cs), Len(us))
<1>0. IsSeq(RouteColumns)
  BY TupleIs, Zenon DEF RouteColumns
<1>1. /\ HeaderLine("CLIENT_LIST", order)[1] = "HEADER"
      /\ HeaderLine("CLIENT_LIST", order)[2] = "CLIENT_LIST"
      /\ HeaderLine("ROUTING_TABLE", RouteColumns)[1] = "HEADER"
      /\ HeaderLine("ROUTING_TABLE", RouteColumns)[2] = "ROUTING_TABLE"
  BY <1>0, HeaderLineIs, Zenon
<1>2. \A c : /\ Row("CLIENT_LIST", order, c)[1] = "CLIENT_LIST"
             /\ Row("ROUTING_TABLE", RouteColumns, c)[1] = "ROUTING_TABLE"
  BY <1>0, RowIs, Zenon
<1>3. <<"TITLE">>[1] = "TITLE" /\ <<"END">>[1] = "END"
  BY TupleIs, Zenon
<1> QED BY <1>1, <1>2, <1>3, Zenon DEF Layout, Kinds

LEMMA LayoutPlaces ==
    ASSUME NEW n \in Nat, NEW u \in Nat, NEW j \in 1 .. n + u + 4
    PROVE  \/ j = 1 \/ j = 2 \/ j = n + 3 \/ j = n + u + 4
           \/ \E i \in 1 .. n : j = i + 2
           \/ \E i \in 1 .. u : j = n + 3 + i
<1>1. CASE j \in 3 .. n + 2
  <2>1. j - 2 \in 1 .. n /\ j = (j - 2) + 2
    BY <1>1
  <2> QED BY <2>1, Zenon
<1>2. CASE j \in n + 4 .. n + u + 3
  <2>1. j - n - 3 \in 1 .. u /\ j = n + 3 + (j - n - 3)
    BY <1>2
  <2> QED BY <2>1, Zenon
<1> QED BY <1>1, <1>2

\* Every row has the columns of its own table.
HeadersAre(a, order, cs, us) ==
    /\ \A i \in 1 .. Len(cs) : Header(a, "CLIENT_LIST", i + 2) = order
    /\ \A i \in 1 .. Len(us) : Header(a, "ROUTING_TABLE", Len(cs) + 3 + i) = RouteColumns

LEMMA LayoutHeaders ==
    ASSUME NEW a, NEW order, IsSeq(order), order # <<>>, NEW cs, IsSeq(cs), NEW us,
           IsSeq(us), Layout(a, order, cs, us)
    PROVE  HeadersAre(a, order, cs, us)
<1> DEFINE n == Len(cs)
           u == Len(us)
<1>0. IsSeq(RouteColumns) /\ RouteColumns # <<>>
  BY TupleIs DEF RouteColumns
<1>1. n \in Nat /\ u \in Nat
  BY SeqIs, Zenon
<1>2. Kinds(a, n, u)
  BY LayoutKinds, Zenon
<1>3. a[2] = HeaderLine("CLIENT_LIST", order) /\ a[n + 3] = HeaderLine("ROUTING_TABLE", RouteColumns)
  BY Zenon DEF Layout
<1> HIDE DEF n, u
<1>4. ASSUME NEW j \in 1 .. n + u + 4, a[j][1] = "HEADER"
      PROVE  \/ j = 2 /\ a[j][2] = "CLIENT_LIST"
             \/ j = n + 3 /\ a[j][2] = "ROUTING_TABLE"
  <2>1. /\ "TITLE" # "HEADER" /\ "CLIENT_LIST" # "HEADER" /\ "ROUTING_TABLE" # "HEADER"
        /\ "END" # "HEADER"
    OBVIOUS
  <2>2. \/ j = 1 \/ j = 2 \/ j = n + 3 \/ j = n + u + 4
        \/ \E i \in 1 .. n : j = i + 2
        \/ \E i \in 1 .. u : j = n + 3 + i
    BY <1>1, LayoutPlaces, Zenon
  <2> QED BY <1>2, <1>4, <2>1, <2>2, Zenon DEF Kinds
<1>5. "CLIENT_LIST" # "ROUTING_TABLE"
  OBVIOUS
<1>6. ASSUME NEW i \in 1 .. n PROVE Header(a, "CLIENT_LIST", i + 2) = order
  <2>1. i + 2 \in Nat /\ 2 \in 1 .. (i + 2) - 1 /\ \A j \in 1 .. (i + 2) - 1 : j \in 1 .. n + u + 4
    BY <1>1
  <2>2. \A j \in 1 .. (i + 2) - 1 : a[j][1] = "HEADER" /\ a[j][2] = "CLIENT_LIST" => j = 2
    BY <1>4, <1>5, <2>1, Zenon
  <2> QED BY <1>3, <2>1, <2>2, HeaderAt, Zenon
<1>7. ASSUME NEW i \in 1 .. u PROVE Header(a, "ROUTING_TABLE", n + 3 + i) = RouteColumns
  <2> DEFINE k == n + 3 + i
             h == n + 3
  <2>1. k \in Nat /\ h \in 1 .. k - 1 /\ \A j \in 1 .. k - 1 : j \in 1 .. n + u + 4
    BY <1>1
  <2> HIDE DEF k, h
  <2>2. \A j \in 1 .. k - 1 : a[j][1] = "HEADER" /\ a[j][2] = "ROUTING_TABLE" => j = h
    BY <1>4, <1>5, <2>1, Zenon DEF h
  <2>3. Header(a, "ROUTING_TABLE", k) = RouteColumns
    <3>1. a[h] = HeaderLine("ROUTING_TABLE", RouteColumns)
      BY <1>3, Zenon DEF h
    <3> QED BY <1>0, <2>1, <2>2, <3>1, HeaderAt, Zenon
  <2> QED BY <2>3, Zenon DEF k
<1> QED BY <1>6, <1>7, Zenon DEF n, u, HeadersAre

LEMMA OneValueIs ==
    ASSUME NEW rows, NEW i, NEW kind, NEW columns, IsSeq(columns), NEW c,
           RowAt(rows, i, kind, columns, c),
           NEW name, \E j \in 1 .. Len(columns) : columns[j] = name
    PROVE  StatusValue(rows, i, <<name>>) = Cell(c, name)
<1> DEFINE names == <<name>>
<1>1. IsSeq(names) /\ Len(names) = 1 /\ names[1] = name
  BY TupleIs, Zenon
<1> HIDE DEF names
<1>2. 1 \in 1 .. Len(names) /\ FirstName(names, 1, columns)
  <2>1. 1 \in 1 .. 1 /\ \A l \in 1 .. 1 : 1 <= l
    OBVIOUS
  <2> QED BY <1>1, <2>1, Zenon DEF FirstName
<1>3. StatusValue(rows, i, names) = Cell(c, names[1])
  BY <1>1, <1>2, ValueIs, SMT
<1> QED BY <1>1, <1>3, Zenon DEF names

LEMMA OrderIs ==
    ASSUME NEW order \in Orders
    PROVE  /\ IsSeq(order) /\ order # <<>>
           /\ \A x \in Columns \ {"Connected Since (time_t)"} :
                 \E j \in 1 .. Len(order) : order[j] = x
           /\ \A x : x \in ToSet(order) <=> \E j \in 1 .. Len(order) : order[j] = x
<1>1. /\ order \in Seq(Columns)
      /\ Columns \ {"Connected Since (time_t)"} \subseteq ToSet(order)
  BY ReaderAssumption, Zenon DEF ReaderAssumption
<1>2. IsSeq(order)
  BY <1>1, Zenon DEF IsSeq
<1>3. DOMAIN order = 1 .. Len(order)
  BY <1>2, SeqIs, Zenon
<1>4. \A x : x \in ToSet(order) <=> \E j \in 1 .. Len(order) : order[j] = x
  BY <1>3, Zenon DEF ToSet
<1>5. \A x \in Columns \ {"Connected Since (time_t)"} : \E j \in 1 .. Len(order) : order[j] = x
  BY <1>1, <1>4, Zenon
<1>6. "Client ID" \in Columns \ {"Connected Since (time_t)"}
  BY DEF Columns
<1>7. order # <<>>
  <2>1. PICK j \in 1 .. Len(order) : order[j] = "Client ID"
    BY <1>5, <1>6, Zenon
  <2>2. Len(order) # 0
    <3>1. j \in 1 .. Len(order) /\ Len(order) \in Nat
      BY <1>2, SeqIs, Zenon
    <3> HIDE <2>1
    <3> QED BY <3>1
  <2> QED BY <1>2, <2>2, SeqIs, Zenon
<1> QED BY <1>2, <1>4, <1>5, <1>7, Zenon

\* What the parser makes of the row of a client, and of a route.
SinceOf(order) == IF "Connected Since (time_t)" \in ToSet(order) THEN "seconds" ELSE "date"

ClientOf(order, c) ==
    [cid |-> c, cn |-> CN[c], address |-> Address[c],
     vip |-> IF life[c] = "up" THEN "vip" ELSE "", since |-> SinceOf(order)]

RouteOf(c) == <<CN[c], Address[c]>>

LEMMA CellIs ==
    ASSUME NEW c
    PROVE  /\ Cell(c, "Common Name") = CN[c] /\ Cell(c, "Real Address") = Address[c]
           /\ Cell(c, "Virtual Address") = IF life[c] = "up" THEN "vip" ELSE ""
           /\ Cell(c, "Connected Since") = "date"
           /\ Cell(c, "Connected Since (time_t)") = "seconds"
           /\ Cell(c, "Client ID") = c
  BY DEF Cell

LEMMA ClientParsed ==
    ASSUME NEW order \in Orders, NEW rows, NEW i, NEW c,
           RowAt(rows, i, "CLIENT_LIST", order, c)
    PROVE  ParseClient(rows, i) = ClientOf(order, c)
<1> DEFINE kind == "CLIENT_LIST"
           time == "Connected Since (time_t)"
           names == <<time, "Connected Since">>
<1>1. /\ IsSeq(order)
      /\ \A x \in Columns \ {time} : \E j \in 1 .. Len(order) : order[j] = x
      /\ \A x : x \in ToSet(order) <=> \E j \in 1 .. Len(order) : order[j] = x
  BY OrderIs, Zenon
<1>2. /\ "Client ID" \in Columns \ {time} /\ "Common Name" \in Columns \ {time}
      /\ "Real Address" \in Columns \ {time} /\ "Virtual Address" \in Columns \ {time}
      /\ "Connected Since" \in Columns \ {time}
  BY DEF Columns
<1>3. /\ StatusValue(rows, i, <<"Client ID">>) = c
      /\ StatusValue(rows, i, <<"Common Name">>) = CN[c]
      /\ StatusValue(rows, i, <<"Real Address">>) = Address[c]
      /\ StatusValue(rows, i, <<"Virtual Address">>) = IF life[c] = "up" THEN "vip" ELSE ""
  <2>1. \A x \in Columns \ {time} : StatusValue(rows, i, <<x>>) = Cell(c, x)
    <3>1. IsSeq(order)
      BY <1>1, Zenon
    <3>2. \A x : (\E j \in 1 .. Len(order) : order[j] = x) => StatusValue(rows, i, <<x>>) = Cell(c, x)
      BY <3>1, OneValueIs, SMT
    <3> QED BY <1>1, <3>2, Zenon
  <2>2. /\ Cell(c, "Common Name") = CN[c] /\ Cell(c, "Real Address") = Address[c]
        /\ Cell(c, "Virtual Address") = (IF life[c] = "up" THEN "vip" ELSE "")
        /\ Cell(c, "Client ID") = c
    BY CellIs, Zenon
  <2>3. /\ StatusValue(rows, i, <<"Client ID">>) = Cell(c, "Client ID")
        /\ StatusValue(rows, i, <<"Common Name">>) = Cell(c, "Common Name")
        /\ StatusValue(rows, i, <<"Real Address">>) = Cell(c, "Real Address")
        /\ StatusValue(rows, i, <<"Virtual Address">>) = Cell(c, "Virtual Address")
    BY <1>2, <2>1, Zenon
  <2> QED BY <2>2, <2>3, Zenon
<1>4. /\ IsSeq(names) /\ Len(names) = 2 /\ names[1] = time /\ names[2] = "Connected Since"
  BY TupleIs
<1> HIDE DEF names, time, kind
<1>5. /\ 1 \in 1 .. Len(names) /\ 2 \in 1 .. Len(names)
      /\ \A l \in 1 .. Len(names) : 1 <= l /\ (l = 1 \/ 2 <= l)
  <2>1. 1 \in 1 .. 2 /\ 2 \in 1 .. 2 /\ \A l \in 1 .. 2 : 1 <= l /\ (l = 1 \/ 2 <= l)
    OBVIOUS
  <2> QED BY <1>4, <2>1, Zenon
<1>6. CASE time \in ToSet(order)
  <2>1. FirstName(names, 1, order)
    BY <1>1, <1>4, <1>5, <1>6, Zenon DEF FirstName
  <2>2. StatusValue(rows, i, names) = Cell(c, names[1])
    <3>1. IsSeq(names)
      BY <1>4, Zenon
    <3>2. IsSeq(order) /\ RowAt(rows, i, kind, order, c)
      BY <1>1, Zenon DEF kind
    <3> QED BY <1>5, <2>1, <3>1, <3>2, ValueIs, SMT
  <2>3. StatusValue(rows, i, names) = "seconds"
    <3>1. Cell(c, time) = "seconds"
      BY CellIs, Zenon DEF time
    <3> QED BY <1>4, <2>2, <3>1, Zenon
  <2> QED BY <1>3, <1>6, <2>3, Zenon DEF ParseClient, ClientOf, SinceOf, names, time
<1>7. CASE time \notin ToSet(order)
  <2>1. FirstName(names, 2, order)
    BY <1>1, <1>2, <1>4, <1>5, <1>7, Zenon DEF FirstName
  <2>2. StatusValue(rows, i, names) = Cell(c, names[2])
    <3>1. IsSeq(names)
      BY <1>4, Zenon
    <3>2. IsSeq(order) /\ RowAt(rows, i, kind, order, c)
      BY <1>1, Zenon DEF kind
    <3> QED BY <1>5, <2>1, <3>1, <3>2, ValueIs, SMT
  <2>3. StatusValue(rows, i, names) = "date"
    <3>1. Cell(c, "Connected Since") = "date"
      BY CellIs, Zenon
    <3> QED BY <1>4, <2>2, <3>1, Zenon
  <2> QED BY <1>3, <1>7, <2>3, Zenon DEF ParseClient, ClientOf, SinceOf, names, time
<1> QED BY <1>6, <1>7, Zenon

LEMMA RouteParsed ==
    ASSUME NEW rows, NEW i, NEW c, RowAt(rows, i, "ROUTING_TABLE", RouteColumns, c)
    PROVE  ParseRoute(rows, i) = RouteOf(c)
<1>1. IsSeq(RouteColumns)
  BY TupleIs, Zenon DEF RouteColumns
<1>2. /\ \E j \in 1 .. Len(RouteColumns) : RouteColumns[j] = "Common Name"
      /\ \E j \in 1 .. Len(RouteColumns) : RouteColumns[j] = "Real Address"
  <2>1. 2 \in 1 .. Len(RouteColumns) /\ 3 \in 1 .. Len(RouteColumns)
    <3>1. Len(RouteColumns) = 3
      BY TupleIs, Zenon DEF RouteColumns
    <3> QED BY <3>1
  <2>2. RouteColumns[2] = "Common Name" /\ RouteColumns[3] = "Real Address"
    <3>1. \A x, y, z : <<x, y, z>>[2] = y /\ <<x, y, z>>[3] = z
      OBVIOUS
    <3> QED BY <3>1, Zenon DEF RouteColumns
  <2> QED BY <2>1, <2>2, Zenon
<1>3. /\ StatusValue(rows, i, <<"Common Name">>) = Cell(c, "Common Name")
      /\ StatusValue(rows, i, <<"Real Address">>) = Cell(c, "Real Address")
  <2>1. \A x : (\E j \in 1 .. Len(RouteColumns) : RouteColumns[j] = x) =>
               StatusValue(rows, i, <<x>>) = Cell(c, x)
    BY <1>1, OneValueIs, SMT
  <2> QED BY <1>2, <2>1, Zenon
<1> QED BY <1>3, CellIs, Zenon DEF ParseRoute, RouteOf

\* The sequence s has exactly the members of S.
Lists(s, S) ==
    /\ IsSeq(s) /\ \A i \in 1 .. Len(s) : s[i] \in S
    /\ \A x \in S : \E i \in 1 .. Len(s) : s[i] = x

LEMMA ClientOfIs ==
    ASSUME NEW order, NEW c \in Cids
    PROVE  /\ "" \notin {ClientOf(order, c).cid, ClientOf(order, c).cn, ClientOf(order, c).since}
           /\ ClientOf(order, c).cid = c /\ ClientOf(order, c).cn = CN[c]
           /\ ClientOf(order, c).address = Address[c]
           /\ ClientOf(order, c).vip # "" <=> life[c] = "up"
           /\ ClientOf(order, c).since = SinceOf(order)
<1> DEFINE v == IF life[c] = "up" THEN "vip" ELSE ""
           s == SinceOf(order)
           r == [cid |-> c, cn |-> CN[c], address |-> Address[c], vip |-> v, since |-> s]
<1>1. c # "" /\ CN[c] # ""
  BY ReaderAssumption, Zenon DEF ReaderAssumption
<1>2. "vip" # "" /\ "seconds" # "" /\ "date" # ""
  OBVIOUS
<1>3. (v # "" <=> life[c] = "up") /\ s # ""
  BY <1>2, Zenon DEF SinceOf
<1>4. ClientOf(order, c) = r
  BY Zenon DEF ClientOf
<1> HIDE DEF v
<1>5. r.cid = c /\ r.cn = CN[c] /\ r.address = Address[c] /\ r.vip = v /\ r.since = s
  BY Zenon
<1> HIDE DEF r
<1> QED BY <1>1, <1>3, <1>4, <1>5, Zenon

\* The parser finds the rows of the two tables.
RowsAre(a, order, cs, us) ==
    /\ \A j : j \in Rows(a, "CLIENT_LIST") <=> \E i \in 1 .. Len(cs) : j = i + 2
    /\ \A j : j \in Rows(a, "ROUTING_TABLE") <=> \E i \in 1 .. Len(us) : j = Len(cs) + 3 + i

LEMMA LayoutRows ==
    ASSUME NEW a, NEW order, IsSeq(order), NEW cs, IsSeq(cs), NEW us, IsSeq(us),
           Layout(a, order, cs, us)
    PROVE  RowsAre(a, order, cs, us)
<1> DEFINE n == Len(cs)
           u == Len(us)
<1>1. n \in Nat /\ u \in Nat
  BY SeqIs, Zenon
<1>2. Kinds(a, n, u)
  BY LayoutKinds, Zenon
<1>3. DOMAIN a = 1 .. n + u + 4
  BY SeqIs, Zenon DEF Layout
<1> HIDE DEF n, u
<1>4. ASSUME NEW j \in 1 .. n + u + 4
      PROVE  /\ a[j][1] = "CLIENT_LIST" => \E i \in 1 .. n : j = i + 2
             /\ a[j][1] = "ROUTING_TABLE" => \E i \in 1 .. u : j = n + 3 + i
  <2>1. /\ "TITLE" # "CLIENT_LIST" /\ "HEADER" # "CLIENT_LIST" /\ "END" # "CLIENT_LIST"
        /\ "TITLE" # "ROUTING_TABLE" /\ "HEADER" # "ROUTING_TABLE" /\ "END" # "ROUTING_TABLE"
        /\ "CLIENT_LIST" # "ROUTING_TABLE"
    OBVIOUS
  <2>2. \/ j = 1 \/ j = 2 \/ j = n + 3 \/ j = n + u + 4
        \/ \E i \in 1 .. n : j = i + 2
        \/ \E i \in 1 .. u : j = n + 3 + i
    BY <1>1, LayoutPlaces, Zenon
  <2> QED BY <1>2, <2>1, <2>2, Zenon DEF Kinds
<1>5. /\ \A i \in 1 .. n : i + 2 \in 1 .. n + u + 4
      /\ \A i \in 1 .. u : n + 3 + i \in 1 .. n + u + 4
  BY <1>1
<1>6. /\ \A i \in 1 .. n : a[i + 2][1] = "CLIENT_LIST"
      /\ \A i \in 1 .. u : a[n + 3 + i][1] = "ROUTING_TABLE"
  BY <1>2, Zenon DEF Kinds
<1>7. /\ \A j : j \in Rows(a, "CLIENT_LIST") <=> \E i \in 1 .. n : j = i + 2
      /\ \A j : j \in Rows(a, "ROUTING_TABLE") <=> \E i \in 1 .. u : j = n + 3 + i
  BY <1>3, <1>4, <1>5, <1>6, Zenon DEF Rows
<1> QED BY <1>7, Zenon DEF n, u, RowsAre

LEMMA LayoutClients ==
    ASSUME NEW order \in Orders, NEW a, NEW cs, NEW us, IsSeq(us), Layout(a, order, cs, us),
           NEW S \in SUBSET Cids, Lists(cs, S)
    PROVE  Clients(a) = {ClientOf(order, c) : c \in S}
<1>1. IsSeq(order) /\ order # <<>> /\ IsSeq(cs)
  BY OrderIs, Zenon DEF Lists
<1>2. \A j : j \in Rows(a, "CLIENT_LIST") <=> \E i \in 1 .. Len(cs) : j = i + 2
  <2>1. RowsAre(a, order, cs, us)
    BY <1>1, LayoutRows, Zenon
  <2> QED BY <2>1, Zenon DEF RowsAre
<1>3. \A i \in 1 .. Len(cs) : Header(a, "CLIENT_LIST", i + 2) = order
  <2>1. HeadersAre(a, order, cs, us)
    BY <1>1, LayoutHeaders, Zenon
  <2> QED BY <2>1, Zenon DEF HeadersAre
<1>4. \A i \in 1 .. Len(cs) : RowAt(a, i + 2, "CLIENT_LIST", order, cs[i])
  BY <1>3, Zenon DEF Layout, RowAt
<1>5. \A i \in 1 .. Len(cs) : ParseClient(a, i + 2) = ClientOf(order, cs[i])
  BY <1>4, ClientParsed, Zenon
<1>6. {ParseClient(a, j) : j \in Rows(a, "CLIENT_LIST")} = {ClientOf(order, c) : c \in S}
  <2>1. ASSUME NEW j \in Rows(a, "CLIENT_LIST")
        PROVE  \E c \in S : ParseClient(a, j) = ClientOf(order, c)
    <3>1. PICK i \in 1 .. Len(cs) : j = i + 2
      BY <1>2, <2>1, Zenon
    <3>2. cs[i] \in S
      BY Zenon DEF Lists
    <3> QED BY <1>5, <3>1, <3>2, Zenon
  <2>2. ASSUME NEW c \in S
        PROVE  \E j \in Rows(a, "CLIENT_LIST") : ClientOf(order, c) = ParseClient(a, j)
    BY <1>2, <1>5, <2>2, Zenon DEF Lists
  <2> QED BY <2>1, <2>2, Zenon
<1>7. \A x \in {ClientOf(order, c) : c \in S} : "" \notin {x.cid, x.cn, x.since}
  <2>1. \A c \in S : "" \notin {ClientOf(order, c).cid, ClientOf(order, c).cn, ClientOf(order, c).since}
    BY ClientOfIs, Zenon
  <2> QED BY <2>1, Zenon
<1> QED BY <1>6, <1>7, Zenon DEF Clients

LEMMA LayoutRoutes ==
    ASSUME NEW order \in Orders, NEW a, NEW cs, IsSeq(cs), NEW us, Layout(a, order, cs, us),
           NEW S \in SUBSET Cids, Lists(us, S)
    PROVE  Routes(a) = {RouteOf(c) : c \in S}
<1>1. IsSeq(order) /\ order # <<>> /\ IsSeq(us)
  BY OrderIs, Zenon DEF Lists
<1>2. \A j : j \in Rows(a, "ROUTING_TABLE") <=> \E i \in 1 .. Len(us) : j = Len(cs) + 3 + i
  <2>1. RowsAre(a, order, cs, us)
    BY <1>1, LayoutRows, Zenon
  <2> QED BY <2>1, Zenon DEF RowsAre
<1>3. \A i \in 1 .. Len(us) : Header(a, "ROUTING_TABLE", Len(cs) + 3 + i) = RouteColumns
  <2>1. HeadersAre(a, order, cs, us)
    BY <1>1, LayoutHeaders, Zenon
  <2> QED BY <2>1, Zenon DEF HeadersAre
<1>4. \A i \in 1 .. Len(us) : RowAt(a, Len(cs) + 3 + i, "ROUTING_TABLE", RouteColumns, us[i])
  BY <1>3, Zenon DEF Layout, RowAt
<1>5. \A i \in 1 .. Len(us) : ParseRoute(a, Len(cs) + 3 + i) = RouteOf(us[i])
  BY <1>4, RouteParsed, Zenon
<1>6. {ParseRoute(a, j) : j \in Rows(a, "ROUTING_TABLE")} = {RouteOf(c) : c \in S}
  <2>1. ASSUME NEW j \in Rows(a, "ROUTING_TABLE")
        PROVE  \E c \in S : ParseRoute(a, j) = RouteOf(c)
    <3>1. PICK i \in 1 .. Len(us) : j = Len(cs) + 3 + i
      BY <1>2, <2>1, Zenon
    <3>2. us[i] \in S
      BY Zenon DEF Lists
    <3> QED BY <1>5, <3>1, <3>2, Zenon
  <2>2. ASSUME NEW c \in S
        PROVE  \E j \in Rows(a, "ROUTING_TABLE") : RouteOf(c) = ParseRoute(a, j)
    BY <1>2, <1>5, <2>2, Zenon DEF Lists
  <2> QED BY <2>1, <2>2, Zenon
<1>7. \A c \in S : "" \notin {RouteOf(c)[1], RouteOf(c)[2]}
  <2>1. \A c \in S : CN[c] # "" /\ Address[c] # ""
    BY ReaderAssumption, Zenon DEF ReaderAssumption
  <2>2. \A c : RouteOf(c)[1] = CN[c] /\ RouteOf(c)[2] = Address[c]
    BY DEF RouteOf
  <2> QED BY <2>1, <2>2, Zenon
<1> QED BY <1>6, <1>7, Zenon DEF Routes

Entry(x, routes) ==
    [cid |-> x.cid, cn |-> x.cn, address |-> x.address, since |-> x.since,
     established |-> x.vip # "", routed |-> <<x.cn, x.address>> \in routes]

MeantEntry(c) ==
    [cid |-> c, cn |-> CN[c], address |-> Address[c], since |-> "seconds",
     established |-> life[c] = "up", routed |-> life[c] = "up"]

\* A client is shown with a route exactly if it is established.
LEMMA EntryIs ==
    ASSUME NEW order, SinceOf(order) = "seconds", NEW c \in Cids
    PROVE  Entry(ClientOf(order, c), {RouteOf(d) : d \in {e \in Cids : life[e] \in {"up"}}}) =
               MeantEntry(c)
<1> DEFINE U == {e \in Cids : life[e] \in {"up"}}
           routes == {RouteOf(d) : d \in U}
           x == ClientOf(order, c)
<1>1. /\ x.cid = c /\ x.cn = CN[c] /\ x.address = Address[c] /\ (x.vip # "" <=> life[c] = "up")
      /\ x.since = SinceOf(order)
  BY ClientOfIs, Zenon
<1>2. x.since = "seconds"
  BY <1>1, Zenon
<1> HIDE DEF x
<1>3. RouteOf(c) \in routes <=> life[c] = "up"
  <2>1. \A d \in Cids : RouteOf(c) = RouteOf(d) => c = d
    <3>1. \A d \in Cids : CN[c] = CN[d] /\ Address[c] = Address[d] => c = d
      BY ReaderAssumption, Zenon DEF ReaderAssumption
    <3>2. \A d : RouteOf(d)[1] = CN[d] /\ RouteOf(d)[2] = Address[d]
      BY DEF RouteOf
    <3>3. ASSUME NEW d \in Cids, RouteOf(c) = RouteOf(d) PROVE c = d
      <4>1. RouteOf(c)[1] = RouteOf(d)[1] /\ RouteOf(c)[2] = RouteOf(d)[2]
        BY <3>3, Zenon
      <4>2. CN[c] = CN[d] /\ Address[c] = Address[d]
        BY <3>2, <4>1, Zenon
      <4> QED BY <3>1, <4>2, Zenon
    <3> QED BY <3>3, Zenon
  <2> QED BY <2>1, Zenon
<1>4. <<x.cn, x.address>> = RouteOf(c)
  BY <1>1, Zenon DEF RouteOf
<1> HIDE DEF routes
<1>5. Entry(x, routes) = MeantEntry(c)
  <2> DEFINE empty == ""
             k == CN[c]
             d == Address[c]
             route == <<x.cn, x.address>>
  <2>1. (x.vip # empty <=> life[c] = "up") /\ (route \in routes <=> life[c] = "up")
    BY <1>1, <1>3, <1>4, Zenon
  <2>2. Entry(x, routes) =
           [cid |-> c, cn |-> k, address |-> d, since |-> "seconds",
            established |-> x.vip # empty, routed |-> route \in routes]
    BY <1>1, <1>2, Zenon DEF Entry
  <2>3. MeantEntry(c) =
           [cid |-> c, cn |-> k, address |-> d, since |-> "seconds",
            established |-> life[c] = "up", routed |-> life[c] = "up"]
    BY Zenon DEF MeantEntry
  <2> HIDE DEF empty, k, d, route
  <2> QED BY <2>1, <2>2, <2>3
<1> QED BY <1>5, Zenon DEF x, routes

\* The status block says what Meaning says, to the parser of the daemon.
LEMMA StatusMeans ==
    ASSUME TypeOK, NEW order \in Orders
    PROVE  Response("multiLineUntilEnd", StatusBlock(order), Meaning(order))
<1> DEFINE S == {c \in Cids : life[c] \in {"pending", "up"}}
           U == {c \in Cids : life[c] \in {"up"}}
           cs == Shown({"pending", "up"})
           us == Shown({"up"})
           a == StatusBlock(order)
           time == "Connected Since (time_t)"
<1>1. Lists(cs, S) /\ Lists(us, U)
  <2>1. IsFiniteSet(S) /\ IsFiniteSet(U)
    BY ReaderAssumption, FS_Subset, Zenon DEF ReaderAssumption
  <2>2. Lists(SetToSeq(S), S) /\ Lists(SetToSeq(U), U)
    BY <2>1, SetToSeqIs, Zenon DEF Lists
  <2> QED BY <2>2, Zenon DEF Shown
<1>2. IsSeq(cs) /\ IsSeq(us) /\ IsSeq(order)
  BY <1>1, OrderIs, Zenon DEF Lists
<1>3. Layout(a, order, cs, us)
  BY <1>2, StatusLayout, SMT
<1> HIDE DEF a, cs, us
<1>4. /\ Clients(a) = {ClientOf(order, c) : c \in S}
      /\ Routes(a) = {RouteOf(c) : c \in U}
  <2>1. S \in SUBSET Cids /\ U \in SUBSET Cids
    BY Zenon
  <2> HIDE DEF S, U
  <2> QED BY <1>1, <1>2, <1>3, <2>1, LayoutClients, LayoutRoutes, Zenon
<1>5. Kinds(a, Len(cs), Len(us))
  BY <1>2, <1>3, LayoutKinds, Zenon
<1>6. Len(cs) \in Nat /\ Len(us) \in Nat /\ Len(a) = Len(cs) + Len(us) + 4 /\ IsSeq(a)
  BY <1>2, <1>3, SeqIs, Zenon DEF Layout
<1>7. \A j \in 1 .. Len(a) : a[j][1] \in {"TITLE", "HEADER", "CLIENT_LIST", "ROUTING_TABLE", "END"}
  <2>1. ASSUME NEW j \in 1 .. Len(a)
        PROVE  a[j][1] \in {"TITLE", "HEADER", "CLIENT_LIST", "ROUTING_TABLE", "END"}
    <3>1. j \in 1 .. Len(cs) + Len(us) + 4
      BY <1>6
    <3>2. \/ j = 1 \/ j = 2 \/ j = Len(cs) + 3 \/ j = Len(cs) + Len(us) + 4
          \/ \E i \in 1 .. Len(cs) : j = i + 2
          \/ \E i \in 1 .. Len(us) : j = Len(cs) + 3 + i
      BY <1>6, <3>1, LayoutPlaces, Zenon
    <3> QED BY <1>5, <3>2, Zenon DEF Kinds
  <2> QED BY <2>1, Zenon
<1>8. \A j \in 1 .. Len(a) - 1 : a[j][1] # "END"
  <2>1. "TITLE" # "END" /\ "HEADER" # "END" /\ "CLIENT_LIST" # "END" /\ "ROUTING_TABLE" # "END"
    OBVIOUS
  <2>2. ASSUME NEW j \in 1 .. Len(a) - 1 PROVE a[j][1] # "END"
    <3>1. j \in 1 .. Len(cs) + Len(us) + 4 /\ j # Len(cs) + Len(us) + 4
      BY <1>6
    <3>2. \/ j = 1 \/ j = 2 \/ j = Len(cs) + 3
          \/ \E i \in 1 .. Len(cs) : j = i + 2
          \/ \E i \in 1 .. Len(us) : j = Len(cs) + 3 + i
      BY <1>6, <3>1, LayoutPlaces, Zenon
    <3> QED BY <1>5, <2>1, <3>2, Zenon DEF Kinds
  <2> QED BY <2>2
<1>9. a # <<>> /\ a[Len(a)] = <<"END">>
  <2>1. Len(a) # 0
    BY <1>6
  <2> QED BY <1>3, <1>6, <2>1, EmptyIs, Zenon DEF Layout
<1>10. /\ \A j \in 1 .. Len(a) : a[j][1] \notin {">CLIENT:", ">HOLD:", ">LOG:"}
       /\ \A j \in 1 .. Len(a) - 1 : a[j] # <<"END">>
  <2>1. /\ \A x \in {"TITLE", "HEADER", "CLIENT_LIST", "ROUTING_TABLE", "END"} :
               x \notin {">CLIENT:", ">HOLD:", ">LOG:"}
        /\ <<"END">>[1] = "END"
    OBVIOUS
  <2> QED BY <1>7, <1>8, <2>1, Zenon
<1>11. life # [c \in Cids |-> "none"] <=> S # {}
  <2>1. life \in [Cids -> {"none", "pending", "up"}]
    BY Zenon DEF TypeOK
  <2>2. "none" # "pending" /\ "none" # "up"
    OBVIOUS
  <2>3. ASSUME S = {} PROVE life = [c \in Cids |-> "none"]
    <3>1. \A c \in Cids : life[c] = "none"
      BY <2>1, <2>3, Zenon
    <3> QED BY <2>1, <3>1, Zenon
  <2>4. ASSUME life = [c \in Cids |-> "none"] PROVE S = {}
    <3>1. \A c \in Cids : life[c] = "none"
      BY <2>4, Zenon
    <3> QED BY <2>2, <3>1, Zenon
  <2> QED BY <2>3, <2>4, Zenon
<1>12. {d \in Cids : life[d] # "none"} = S
  <2>1. \A c \in Cids : life[c] \in {"none", "pending", "up"}
    BY Zenon DEF TypeOK
  <2>2. "none" # "pending" /\ "none" # "up"
    OBVIOUS
  <2> QED BY <2>1, <2>2, Zenon
<1>13. Meaning(order) = IF S # {} /\ time \notin ToSet(order) THEN <<"error", "unparsable">>
                        ELSE <<"snapshot", {MeantEntry(c) : c \in S}>>
  BY <1>11, <1>12, Zenon DEF Meaning, MeantEntry
<1>14. ParseStatusLines(a) = {Entry(x, Routes(a)) : x \in Clients(a)}
  BY Zenon DEF ParseStatusLines, Entry
<1>15. Unparsable(a) <=> S # {} /\ time \notin ToSet(order)
  <2>1. \A c \in S : ClientOf(order, c).since # "seconds" <=> time \notin ToSet(order)
    <3>1. "date" # "seconds"
      OBVIOUS
    <3>2. \A c \in S : ClientOf(order, c).since = SinceOf(order)
      BY ClientOfIs, Zenon
    <3> QED BY <3>1, <3>2, Zenon DEF SinceOf
  <2> QED BY <1>4, <2>1, Zenon DEF Unparsable
<1>16. ASSUME S = {} \/ time \in ToSet(order)
       PROVE  ParseStatusLines(a) = {MeantEntry(c) : c \in S}
  <2>1. CASE S = {}
    BY <1>4, <1>14, <2>1, Zenon
  <2>2. CASE time \in ToSet(order)
    <3>1. \A c \in S : Entry(ClientOf(order, c), Routes(a)) = MeantEntry(c)
      <4>1. \A c \in Cids : Entry(ClientOf(order, c), {RouteOf(d) : d \in U}) = MeantEntry(c)
        BY <2>2, EntryIs, Zenon DEF SinceOf
      <4> QED BY <1>4, <4>1, Zenon
    <3> QED BY <1>4, <1>14, <3>1, Zenon
  <2> QED BY <1>16, <2>1, <2>2, Zenon
<1>17. Meaning(order) = IF Unparsable(a) THEN <<"error", "unparsable">>
                        ELSE <<"snapshot", ParseStatusLines(a)>>
  <2> HIDE DEF S, time
  <2> QED BY <1>13, <1>15, <1>16, Zenon
<1>18. "multiLineUntilEnd" # "singleLineAck"
  OBVIOUS
<1> QED BY <1>6, <1>9, <1>10, <1>17, <1>18, Zenon DEF Response, a
=============================================================================
