---------------------------- MODULE RebuildProofs ----------------------------
(***************************************************************************)
(* Theorems about Rebuild, for every number of clients, identities, lost   *)
(* connections and restarts, and every set of faults:                      *)
(*                                                                         *)
(*   RebuildTypes          type correctness                                *)
(*   StaleAlwaysReclaimed  what is gone is not tracked, once caught up     *)
(*   UpAlwaysTracked       what is established is tracked, once caught up  *)
(*                                                                         *)
(* Both speak of a daemon that has caught up.  On the way there the events *)
(* that are still to be handled make up for what the tracking lacks:       *)
(* RebuildInv says which event there is for what, in each phase of the     *)
(* bootstrap.                                                              *)
(*                                                                         *)
(* And three that hold until the first restart or fault (calm):            *)
(*                                                                         *)
(*   NewestAlwaysKept         an established client is told to go only     *)
(*                            when its time is over or a newer one has     *)
(*                            been established                             *)
(*   ReplacementAlwaysKept    one told to go before its time is over       *)
(*                            leaves behind an established one that is     *)
(*                            kept                                         *)
(*   AuthorizedAlwaysTracked  what has been let in is tracked, once caught *)
(*                            up                                           *)
(*                                                                         *)
(* Who is newer is in the order of CIDs; the code never compares them.  It *)
(* goes by the order in which events are handled, by the times in a status *)
(* and by what its indexes hold.  NewestInv says that these agree: Ordered *)
(* for the entries and indexes, Queue for the events to come, Clients for  *)
(* OpenVPN's clients and their times, Rowed for a snapshot that is yet to  *)
(* be used, and Late for the one case in which an event comes after its    *)
(* effect, an ESTABLISHED the rebuild or a CONNECT has been ahead of.      *)
(*                                                                         *)
(* Afterwards they fail: the first two after a lost response (ackLost),    *)
(* and when a client authenticates before the event loop has handled an    *)
(* ESTABLISHED of its identity that is late (lag), the third after a       *)
(* restart of the daemon (restart).                                        *)
(***************************************************************************)
EXTENDS Rebuild, TLAPS

Ev(type, c) == [type |-> type, cid |-> c]

\* s has such an event, or has it from i on.
Has(s, type, c) == \E i \in 1 .. Len(s) : s[i] = Ev(type, c)
From(s, i, type, c) == \E j \in i .. Len(s) : s[j] = Ev(type, c)

\* The tracking has been rebuilt.
Caught == {"replay", "live"}

\* The events s of a client in state v.  One that has not connected has none,
\* one that is there no DISCONNECT; after any event of one that has gone comes
\* its DISCONNECT, after the CONNECT of one that is up its ESTABLISHED.
Told(s, v, c) ==
    /\ v = "none" => \A i \in 1 .. Len(s) : s[i].cid # c
    /\ v \in Present => ~Has(s, "DISCONNECT", c)
    /\ v \notin Present =>
          \A i \in 1 .. Len(s) : s[i].cid = c => From(s, i, "DISCONNECT", c)
    /\ v = "up" =>
          \A i \in 1 .. Len(s) :
              s[i] = Ev("CONNECT", c) => From(s, i, "ESTABLISHED", c)

EventInv ==
    /\ link = "down" => events = <<>>
    /\ \A c \in Cids : Told(events, vpn[c], c)

\* An entry, or a row that will become one, of a client that has gone is
\* removed by an event to come.
StaleInv ==
    \A c \in Cids : vpn[c] \notin Present =>
        /\ link \in Caught /\ cids[c] # {} => Has(events, "DISCONNECT", c)
        /\ link = "snapped" /\ snap[c] # "absent" => Has(events, "DISCONNECT", c)

\* A client that is up has an established entry, or an established row, or an
\* entry that an event to come makes an established one.
UpInv ==
    \A c \in Cids \ orphans :
        /\ vpn[c] = "authed" => "tracked" \in cids[c]
        /\ vpn[c] = "up" =>
            /\ link \in Caught =>
                  \/ "established" \in cids[c]
                  \/ Has(events, "ESTABLISHED", c) /\ "tracked" \in cids[c]
            /\ link = "snapped" =>
                  \/ snap[c] = "established"
                  \/ Has(events, "ESTABLISHED", c) /\ "tracked" \in cids[c]

\* An authorized client was there when the snapshot was taken.
SnapInv ==
    link = "snapped" =>
        \A c \in Cids : vpn[c] \in {"authed", "up"} => snap[c] # "absent"

EntryInv == \A c \in Cids : cids[c] # {} => "tracked" \in cids[c]

RebuildInv ==
    /\ TypeOK /\ EntryInv /\ EventInv /\ StaleInv /\ UpInv /\ SnapInv
    /\ link = "live" => todo = 0

-----------------------------------------------------------------------------
(* The operations on the handler's variables. *)

HandlerType ==
    [cids : [Cids -> SUBSET Flags], attempt : [Identities -> OptCid],
     active : [Identities -> OptCid], born : [Cids -> Procs],
     timers : SUBSET Cids, lost : SUBSET Goroutines]

\* A handler whose entries are marked as such.
Sane(h) == /\ h \in HandlerType
           /\ \A c \in Cids : h.cids[c] # {} => "tracked" \in h.cids[c]

\* k has no entry that h has not, and nothing of a client that is there is lost.
Kept(h, k) ==
    \A c \in Cids :
        /\ k.cids[c] # {} => h.cids[c] # {}
        /\ vpn[c] \in Present => h.cids[c] \cap {"tracked", "established"} \subseteq k.cids[c]

LEMMA Fields ==
    ASSUME NEW h \in HandlerType
    PROVE  /\ h.cids \in [Cids -> SUBSET Flags]
           /\ h.attempt \in [Identities -> OptCid]
           /\ h.active \in [Identities -> OptCid]
           /\ h.born \in [Cids -> Procs]
           /\ h.timers \in SUBSET Cids /\ h.lost \in SUBSET Goroutines
  BY DEF HandlerType

LEMMA ForgetType ==
    ASSUME NEW h, NEW index \in [Identities -> OptCid], NEW S
    PROVE  Forget(h, index, S) \in [Identities -> OptCid]
  BY Zenon DEF Forget, OptCid

LEMMA Constants == 0 \in Procs /\ \A b \in Procs, c \in Cids : IdentityOf[b][c] \in Identities
<1>1. 0 \in Procs
  BY RebuildAssumption DEF RebuildAssumption, Procs
<1> QED BY <1>1, RebuildAssumption, Zenon DEF RebuildAssumption

LEMMA DropIs ==
    ASSUME NEW h \in HandlerType, NEW T
    PROVE  /\ Drop(h, T) \in HandlerType
           /\ \A c \in Cids : /\ c \in T => Drop(h, T).cids[c] = {}
                              /\ c \notin T => Drop(h, T).cids[c] = h.cids[c]
<1> DEFINE S == {c \in T : h.cids[c] # {}}
           f == [c \in Cids |-> IF c \in S THEN {} ELSE h.cids[c]]
           a == Forget(h, h.attempt, S)
           b == Forget(h, h.active, S)
           p == [c \in Cids |-> IF c \in S THEN 0 ELSE h.born[c]]
           t == h.timers \ S
<1>1. /\ h.cids \in [Cids -> SUBSET Flags] /\ h.attempt \in [Identities -> OptCid]
      /\ h.active \in [Identities -> OptCid] /\ h.born \in [Cids -> Procs]
      /\ h.timers \in SUBSET Cids /\ h.lost \in SUBSET Goroutines
  BY Fields, Zenon
<1>2. /\ f \in [Cids -> SUBSET Flags] /\ a \in [Identities -> OptCid]
      /\ b \in [Identities -> OptCid] /\ p \in [Cids -> Procs] /\ t \in SUBSET Cids
  BY <1>1, ForgetType, Constants, Zenon
<1>3. Drop(h, T) = [h EXCEPT !.cids = f, !.attempt = a, !.active = b, !.born = p, !.timers = t]
  BY Zenon DEF Drop
<1>4. \A c \in Cids : (c \in T => f[c] = {}) /\ (c \notin T => f[c] = h.cids[c])
  BY <1>1, Zenon
<1> HIDE DEF f, a, b, p, t
<1>5. /\ Drop(h, T) \in HandlerType
      /\ Drop(h, T).cids = f
  BY <1>2, <1>3, Zenon DEF HandlerType
<1> QED BY <1>4, <1>5, Zenon

\* k is h with another entry for c, as far as entries go.
LEMMA EntryKept ==
    ASSUME NEW h, Sane(h), NEW c \in Cids, NEW e \in SUBSET Flags,
           NEW k \in HandlerType, k.cids[c] = e,
           \A d \in Cids \ {c} : k.cids[d] = h.cids[d],
           e # {} => h.cids[c] # {} /\ "tracked" \in e,
           vpn[c] \in Present => h.cids[c] \cap {"tracked", "established"} \subseteq e
    PROVE  Sane(k) /\ Kept(h, k)
<1>1. \A d \in Cids : d = c \/ k.cids[d] = h.cids[d]
  BY Zenon
<1>2. Sane(k)
  BY <1>1, Zenon DEF Sane
<1>3. Kept(h, k)
  BY <1>1, Zenon DEF Kept
<1> QED BY <1>2, <1>3, Zenon

LEMMA SameKept ==
    ASSUME NEW h, Sane(h), NEW k \in HandlerType, k.cids = h.cids
    PROVE  Sane(k) /\ Kept(h, k)
  BY Zenon DEF Sane, Kept

LEMMA KeptTwice ==
    ASSUME NEW h, NEW k, NEW m, Kept(h, k), Kept(k, m) PROVE Kept(h, m)
  BY Zenon DEF Kept

LEMMA LostIs ==
    ASSUME NEW h, Sane(h), NEW l \in SUBSET Goroutines, NEW k, k = [h EXCEPT !.lost = l]
    PROVE  Sane(k) /\ Kept(h, k) /\ k.cids = h.cids
<1>1. k \in HandlerType /\ k.cids = h.cids
  BY Zenon DEF HandlerType, Sane
<1> QED BY <1>1, SameKept, Zenon

\* Only the entry of c is rewritten.
LEMMA EntrySane ==
    ASSUME NEW h, Sane(h), NEW c \in Cids, NEW e \in SUBSET Flags,
           h.cids[c] \cap {"tracked", "established"} \subseteq e,
           e # {} => h.cids[c] # {} /\ "tracked" \in e
    PROVE  Sane([h EXCEPT !.cids[c] = e]) /\ Kept(h, [h EXCEPT !.cids[c] = e])
<1> DEFINE k == [h EXCEPT !.cids[c] = e]
           f == [h.cids EXCEPT ![c] = e]
<1>1. /\ h \in HandlerType /\ f \in [Cids -> SUBSET Flags]
      /\ f[c] = e /\ \A d \in Cids \ {c} : f[d] = h.cids[d]
  BY Fields, Zenon DEF Sane
<1>2. k = [h EXCEPT !.cids = f]
  BY Zenon
<1> HIDE DEF f, k
<1>3. k \in HandlerType /\ k.cids = f
  BY <1>1, <1>2, Zenon DEF HandlerType
<1>4. /\ k \in HandlerType
      /\ k.cids[c] = e /\ \A d \in Cids \ {c} : k.cids[d] = h.cids[d]
  BY <1>1, <1>3, Zenon
<1>5. Sane(k) /\ Kept(h, k)
  BY <1>4, EntryKept, Zenon
<1> QED BY <1>5, Zenon DEF k

\* cleanupPromoted.
LEMMA CleanupIs ==
    ASSUME NEW h, Sane(h), NEW c \in Cids, vpn[c] \notin Present
    PROVE  /\ Sane(CleanupPromoted(h, c)) /\ Kept(h, CleanupPromoted(h, c))
           /\ \A d \in Cids \ {c} : CleanupPromoted(h, c).cids[d] = h.cids[d]
<1> DEFINE k == CleanupPromoted(h, c)
           a == Forget(h, h.attempt, {c})
           f == [h.cids EXCEPT ![c] = {}]
           p == [h.born EXCEPT ![c] = 0]
<1>0. /\ h \in HandlerType /\ a \in [Identities -> OptCid] /\ {} \in SUBSET Flags
      /\ f \in [Cids -> SUBSET Flags] /\ p \in [Cids -> Procs]
      /\ f[c] = {} /\ \A d \in Cids \ {c} : f[d] = h.cids[d]
  BY Fields, ForgetType, Constants, Zenon DEF Sane
<1>1. CASE k = h
  BY <1>1, Zenon DEF Sane, Kept
<1>2. CASE k = [h EXCEPT !.cids = f, !.attempt = a, !.born = p]
  <2> HIDE DEF f, a, p, k
  <2>1. k \in HandlerType /\ k.cids = f
    BY <1>0, <1>2, Zenon DEF HandlerType
  <2>2. k.cids[c] = {} /\ \A d \in Cids \ {c} : k.cids[d] = h.cids[d]
    BY <1>0, <2>1, Zenon
  <2>3. Sane(k) /\ Kept(h, k)
    BY <1>0, <2>1, <2>2, EntryKept, Zenon
  <2> QED BY <2>2, <2>3, Zenon DEF k
<1> QED BY <1>1, <1>2, Zenon DEF CleanupPromoted

LEMMA PromoteIs ==
    ASSUME NEW h, Sane(h), NEW c \in Cids
    PROVE  Sane(Promote(h, c)) /\ Kept(h, Promote(h, c))
<1> DEFINE k == Promote(h, c)
           e == (h.cids[c] \ {"cancel", "failed"}) \cup {"promoted", "deadline"}
<1>0. h \in HandlerType /\ h.cids \in [Cids -> SUBSET Flags]
  BY Fields, Zenon DEF Sane
<1>1. /\ "tracked" \notin {"cancel", "failed"} /\ "established" \notin {"cancel", "failed"}
      /\ {"promoted", "deadline"} \subseteq Flags
  BY DEF Flags
<1>2. CASE k = h
  BY <1>2, Zenon DEF Sane, Kept
<1>3. CASE k = [h EXCEPT !.cids[c] = e] /\ "cancel" \in h.cids[c]
  <2>1. e \in SUBSET Flags
    BY <1>0, <1>1, Zenon
  <2>2. /\ "tracked" \in e /\ h.cids[c] # {}
        /\ h.cids[c] \cap {"tracked", "established"} \subseteq e
    BY <1>1, <1>3, Zenon DEF Sane
  <2> HIDE DEF e
  <2>3. Sane([h EXCEPT !.cids[c] = e]) /\ Kept(h, [h EXCEPT !.cids[c] = e])
    BY <2>1, <2>2, EntrySane, Zenon
  <2> QED BY <1>3, <2>3, Zenon
<1> QED BY <1>2, <1>3, Zenon DEF Promote

LEMMA ClearIs ==
    ASSUME NEW h, Sane(h), NEW c \in Cids
    PROVE  Sane(ClearInFlight(h, c)) /\ Kept(h, ClearInFlight(h, c))
<1> DEFINE k == ClearInFlight(h, c)
           e == h.cids[c] \ {"cancel", "failed"}
           f == [h.cids EXCEPT ![c] = e]
           a == IF h.cids[c] = {} \/ "promoted" \in h.cids[c] THEN h.attempt
                ELSE Forget(h, h.attempt, {c})
<1>0. h \in HandlerType /\ h.cids \in [Cids -> SUBSET Flags] /\ a \in [Identities -> OptCid]
  BY Fields, ForgetType, Zenon DEF Sane
<1>1. /\ e \in SUBSET Flags /\ f \in [Cids -> SUBSET Flags]
      /\ f[c] = e /\ \A d \in Cids \ {c} : f[d] = h.cids[d]
  BY <1>0, Zenon
<1>2. "tracked" \notin {"cancel", "failed"} /\ "established" \notin {"cancel", "failed"}
  OBVIOUS
<1>3. /\ h.cids[c] \cap {"tracked", "established"} \subseteq e
      /\ h.cids[c] # {} => "tracked" \in e
      /\ e # {} => h.cids[c] # {}
  BY <1>2, Zenon DEF Sane
<1>4. k = [h EXCEPT !.cids = f, !.attempt = a]
  BY Zenon DEF ClearInFlight
<1> HIDE DEF k, f, a
<1>5. k \in HandlerType /\ k.cids = f
  BY <1>0, <1>1, <1>4, Zenon DEF HandlerType
<1> HIDE DEF e
<1>6. Sane(k) /\ Kept(h, k)
  <2>1. k.cids[c] = e /\ \A d \in Cids \ {c} : k.cids[d] = h.cids[d]
    BY <1>1, <1>5, Zenon
  <2> QED BY <1>1, <1>3, <1>5, <2>1, EntryKept, Zenon
<1> QED BY <1>6, Zenon DEF k

LEMMA InFlightType ==
    ASSUME NEW h, NEW c \in Cids PROVE InFlight(h, c) \subseteq Goroutines
  BY DEF InFlight, Goroutines

\* The entry of handleConnect replaces whatever was there.
LEMMA AdmitIs ==
    ASSUME NEW h, Sane(h), NEW c \in Cids, proc \in Procs
    PROVE  /\ Sane(Admit(h, c)) /\ "tracked" \in Admit(h, c).cids[c]
           /\ \A d \in Cids \ {c} : Admit(h, c).cids[d] = h.cids[d]
<1> DEFINE k == Admit(h, c)
           e == {"tracked", "cancel"}
           f == [h.cids EXCEPT ![c] = e]
           a == [h.attempt EXCEPT ![Identity(c)] = c]
           t == h.timers \ {c}
           p == [h.born EXCEPT ![c] = proc]
           D == {<<"deadline", d>> : d \in {c} \cap {x \in Cids : "deadline" \in h.cids[x]}}
           X == {<<"expiry", d>> : d \in {c} \cap h.timers}
           l == h.lost \cup InFlight(h, c) \cup D \cup X
<1>0. /\ h.cids \in [Cids -> SUBSET Flags] /\ h.attempt \in [Identities -> OptCid]
      /\ h.active \in [Identities -> OptCid] /\ h.born \in [Cids -> Procs]
      /\ h.timers \in SUBSET Cids /\ h.lost \in SUBSET Goroutines /\ h \in HandlerType
  BY Fields, Zenon DEF Sane
<1>1. e \in SUBSET Flags
  BY Zenon DEF Flags
<1>2. /\ f \in [Cids -> SUBSET Flags] /\ f[c] = e /\ "tracked" \in e
      /\ \A d \in Cids \ {c} : f[d] = h.cids[d]
  BY <1>0, <1>1, Zenon
<1>3. a \in [Identities -> OptCid] /\ t \in SUBSET Cids /\ p \in [Cids -> Procs]
  BY <1>0, Zenon DEF OptCid
<1>4. l \in SUBSET Goroutines
  <2>1. D \subseteq Goroutines /\ X \subseteq Goroutines
    BY <1>0 DEF Goroutines
  <2> QED BY <1>0, <2>1, InFlightType, Zenon
<1>5. k = [h EXCEPT !.cids = f, !.born = p, !.attempt = a, !.timers = t, !.lost = l]
  BY Zenon DEF Admit
<1> HIDE DEF k, f, a, t, p, l
<1>6. k \in HandlerType /\ k.cids = f
  BY <1>0, <1>2, <1>3, <1>4, <1>5, Zenon DEF HandlerType
<1> HIDE DEF e
<1>7. \A d \in Cids : d = c \/ k.cids[d] = h.cids[d]
  BY <1>2, <1>6, Zenon
<1>8. Sane(k) /\ "tracked" \in k.cids[c]
  BY <1>2, <1>6, <1>7, Zenon DEF Sane
<1> QED BY <1>7, <1>8, Zenon DEF k

\* handleDisconnect and the pruning, of clients that are not there.
LEMMA DropKept ==
    ASSUME NEW h, Sane(h), NEW T, \A d \in T : vpn[d] \notin Present
    PROVE  Sane(Drop(h, T)) /\ Kept(h, Drop(h, T))
<1>1. /\ Drop(h, T) \in HandlerType
      /\ \A c \in Cids : /\ c \in T => Drop(h, T).cids[c] = {}
                         /\ c \notin T => Drop(h, T).cids[c] = h.cids[c]
  BY DropIs, Zenon DEF Sane
<1>2. \A c \in Cids : \/ c \in T /\ Drop(h, T).cids[c] = {}
                      \/ c \notin T /\ Drop(h, T).cids[c] = h.cids[c]
  BY <1>1, Zenon
<1>3. Sane(Drop(h, T))
  BY <1>1, <1>2, Zenon DEF Sane
<1>4. Kept(h, Drop(h, T))
  BY <1>2, Zenon DEF Kept
<1> QED BY <1>3, <1>4, Zenon

\* establishCID up to the kill.
LEMMA TakeOverIs ==
    ASSUME NEW h, Sane(h), NEW c \in Cids, NEW auth \in BOOLEAN
    PROVE  /\ Sane(TakeOver(h, c, auth)) /\ Kept(h, TakeOver(h, c, auth))
           /\ h.cids[c] # {} => "established" \in TakeOver(h, c, auth).cids[c]
<1> DEFINE k == TakeOver(h, c, auth)
           old == Replaced(h, c)
           timed == /\ MaxSessionDuration
                    /\ "promoted" \in h.cids[c] \/ auth
                    /\ "established" \notin h.cids[c]
           marked(d) == (h.cids[d] \ {"expiry"}) \cup {"evictionRequested"}
           mine == (h.cids[c] \ {"promoted", "deadline"}) \cup {"established"}
                   \cup (IF timed THEN {"expiry"} ELSE {})
           f == [d \in Cids |->
                    IF d = c THEN mine
                    ELSE IF d \in old /\ h.cids[d] # {} THEN marked(d)
                    ELSE h.cids[d]]
           a == Forget(h, h.attempt, {c})
           v == [h.active EXCEPT ![Owner(h, c)] = c]
           t == (h.timers \ old) \cup (IF timed THEN {c} ELSE {})
           next == [h EXCEPT !.cids = f, !.attempt = a, !.active = v, !.timers = t]
<1>0. /\ h.cids \in [Cids -> SUBSET Flags] /\ h.attempt \in [Identities -> OptCid]
      /\ h.active \in [Identities -> OptCid] /\ h.born \in [Cids -> Procs]
      /\ h.timers \in SUBSET Cids /\ h.lost \in SUBSET Goroutines /\ h \in HandlerType
  BY Fields, Zenon DEF Sane
<1>1. k = IF h.cids[c] = {} THEN h ELSE next
  BY DEF TakeOver
<1>2. CASE h.cids[c] = {}
  BY <1>1, <1>2, Zenon DEF Sane, Kept
<1>3. CASE h.cids[c] # {}
  <2>1. /\ "tracked" \notin {"promoted", "deadline"} /\ "tracked" # "expiry"
        /\ "established" \notin {"promoted", "deadline"} /\ "established" # "expiry"
        /\ {"established", "expiry", "evictionRequested"} \subseteq Flags
    BY DEF Flags
  <2>2. /\ mine \in SUBSET Flags /\ "tracked" \in mine /\ "established" \in mine
    BY <1>0, <1>3, <2>1, Zenon DEF Sane
  <2>3. \A d \in Cids : /\ marked(d) \in SUBSET Flags
                        /\ h.cids[d] \cap {"tracked", "established"} \subseteq marked(d)
    BY <1>0, <2>1, Zenon
  <2> HIDE DEF mine, marked
  <2>4. \A d \in Cids : \/ d = c /\ f[d] = mine
                        \/ d # c /\ h.cids[d] # {} /\ f[d] = marked(d)
                        \/ d # c /\ f[d] = h.cids[d]
    BY Zenon
  <2>5. f \in [Cids -> SUBSET Flags]
    <3>1. f = [d \in Cids |-> f[d]]
      BY Zenon
    <3>2. \A d \in Cids : f[d] \in SUBSET Flags
      BY <1>0, <2>2, <2>3, <2>4, Zenon
    <3> HIDE DEF f
    <3> QED BY <3>1, <3>2, Zenon
  <2> HIDE DEF f
  <2>6. a \in [Identities -> OptCid] /\ v \in [Identities -> OptCid] /\ t \in SUBSET Cids
    BY <1>0, ForgetType, Zenon DEF OptCid
  <2> HIDE DEF a, v, t
  <2>7. next \in HandlerType /\ next.cids = f
    BY <1>0, <2>5, <2>6, Zenon DEF HandlerType
  <2> HIDE DEF next
  <2>8. Sane(next)
    <3>1. ASSUME NEW d \in Cids, f[d] # {} PROVE "tracked" \in f[d]
      BY <2>2, <2>3, <2>4, <3>1, Zenon DEF Sane
    <3> QED BY <2>7, <3>1, Zenon DEF Sane
  <2>9. Kept(h, next)
    <3>1. ASSUME NEW d \in Cids
          PROVE  /\ f[d] # {} => h.cids[d] # {}
                 /\ h.cids[d] \cap {"tracked", "established"} \subseteq f[d]
      <4>1. CASE d = c /\ f[d] = mine
        <5>1. h.cids[d] \cap {"tracked", "established"} \subseteq mine
          BY <2>2, Zenon
        <5> QED BY <1>3, <4>1, <5>1, Zenon
      <4>2. CASE h.cids[d] # {} /\ f[d] = marked(d)
        BY <2>3, <4>2, Zenon
      <4>3. CASE f[d] = h.cids[d]
        BY <4>3, Zenon
      <4> QED BY <2>4, <4>1, <4>2, <4>3, Zenon
    <3> QED BY <2>7, <3>1, Zenon DEF Kept
  <2>10. "established" \in next.cids[c]
    BY <2>2, <2>4, <2>7, Zenon
  <2> QED BY <1>1, <1>3, <2>8, <2>9, <2>10, Zenon
<1> QED BY <1>2, <1>3, Zenon

\* establishCID.
LEMMA EstablishIs ==
    ASSUME NEW h, Sane(h), NEW c \in Cids, NEW auth \in BOOLEAN
    PROVE  /\ Sane(Establish(h, c, auth)) /\ Kept(h, Establish(h, c, auth))
           /\ h.cids[c] # {} => "established" \in Establish(h, c, auth).cids[c]
<1> DEFINE n == TakeOver(h, c, auth)
           gone == {d \in Replaced(h, c) : vpn[d] \notin Present}
<1>1. Sane(n) /\ Kept(h, n) /\ (h.cids[c] # {} => "established" \in n.cids[c])
  BY TakeOverIs, Zenon
<1>2. c \notin gone /\ \A d \in gone : vpn[d] \notin Present
  BY Zenon DEF Replaced
<1>3. Establish(h, c, auth) = Drop(n, gone)
  BY Zenon DEF Establish
<1> HIDE DEF n, gone
<1>4. Sane(Drop(n, gone)) /\ Kept(n, Drop(n, gone))
  BY <1>1, <1>2, DropKept, Zenon
<1>5. Drop(n, gone).cids[c] = n.cids[c]
  BY <1>1, <1>2, DropIs, Zenon DEF Sane
<1> QED BY <1>1, <1>3, <1>4, <1>5, KeptTwice, Zenon

\* RebuildSessionTrackingFromSnapshot, after the pruning.
LEMMA RestoreIs ==
    ASSUME NEW h, Sane(h), proc \in Procs, MaxSessionDuration \in BOOLEAN
    PROVE  /\ Sane(Restore(h))
           /\ \A c \in Cids :
                /\ snap[c] = "established" =>
                      {"tracked", "established"} \subseteq Restore(h).cids[c]
                /\ snap[c] # "established" => Restore(h).cids[c] = h.cids[c]
<1> DEFINE k == Restore(h)
           up == {c \in Cids : snap[c] = "established"}
           over == IF MaxSessionDuration THEN up \cap expired ELSE {}
           winner(i) == {c \in up \ Losers : Identity(c) = i}
           flags(c) ==
               (h.cids[c] \ {"promoted"}) \cup {"tracked", "established"}
               \cup (IF c \in Losers \cup over THEN {"evictionRequested"} ELSE {})
               \cup (IF MaxSessionDuration THEN {"expiry"} ELSE {})
           f == [c \in Cids |-> IF c \in up THEN flags(c) ELSE h.cids[c]]
           p == [c \in Cids |-> IF c \in up THEN proc ELSE h.born[c]]
           owned == [h EXCEPT !.cids = f, !.born = p]
           a == Forget(owned, owned.attempt, up)
           v == [i \in Identities |-> IF winner(i) = {} THEN owned.active[i]
                                      ELSE CHOOSE c \in winner(i) : TRUE]
           t == IF MaxSessionDuration THEN (owned.timers \cup up) \ over
                ELSE owned.timers
<1>0. /\ h.cids \in [Cids -> SUBSET Flags] /\ h.attempt \in [Identities -> OptCid]
      /\ h.active \in [Identities -> OptCid] /\ h.born \in [Cids -> Procs]
      /\ h.timers \in SUBSET Cids /\ h.lost \in SUBSET Goroutines /\ h \in HandlerType
  BY Fields, Zenon DEF Sane
<1>1. {"tracked", "established", "expiry", "evictionRequested"} \subseteq Flags
  BY DEF Flags
<1>2. \A c \in Cids : /\ flags(c) \in SUBSET Flags
                      /\ {"tracked", "established"} \subseteq flags(c)
  BY <1>0, <1>1, Zenon
<1> HIDE DEF flags
<1>3. \A c \in Cids : /\ snap[c] = "established" => f[c] = flags(c)
                      /\ snap[c] # "established" => f[c] = h.cids[c]
  BY Zenon
<1>4. f \in [Cids -> SUBSET Flags] /\ p \in [Cids -> Procs]
  BY <1>0, <1>2, Zenon
<1>5. k = [owned EXCEPT !.attempt = a, !.active = v, !.timers = t]
  BY DEF Restore, flags
<1>6. owned \in HandlerType /\ owned.cids = f
  <2> HIDE DEF f, p
  <2> QED BY <1>0, <1>4, Zenon DEF HandlerType
<1> HIDE DEF owned
<1>7. /\ owned.attempt \in [Identities -> OptCid] /\ owned.active \in [Identities -> OptCid]
      /\ owned.timers \in SUBSET Cids
  BY <1>6, Fields, Zenon
<1>8. a \in [Identities -> OptCid] /\ t \in SUBSET Cids
  BY <1>7, ForgetType, Zenon
<1>9. v \in [Identities -> OptCid]
  <2>1. \A i \in Identities : winner(i) # {} => (CHOOSE c \in winner(i) : TRUE) \in winner(i)
    BY Zenon
  <2>2. \A i \in Identities : winner(i) \subseteq OptCid
    BY Zenon DEF OptCid
  <2> HIDE DEF winner
  <2> QED BY <1>7, <2>1, <2>2, Zenon
<1> HIDE DEF f, a, v, t, k
<1>10. k \in HandlerType /\ k.cids = f
  BY <1>5, <1>6, <1>8, <1>9, Zenon DEF HandlerType
<1>11. Sane(k)
  <2>1. ASSUME NEW c \in Cids, f[c] # {} PROVE "tracked" \in f[c]
    BY <1>2, <1>3, <2>1, Zenon DEF Sane
  <2> QED BY <1>10, <2>1, Zenon DEF Sane
<1> QED BY <1>2, <1>3, <1>10, <1>11, Zenon DEF k

-----------------------------------------------------------------------------
(* Events. *)

LEMMA Shapes ==
    ASSUME NEW s \in Seq(Events)
    PROVE  /\ Len(s) \in Nat
           /\ \A i \in 1 .. Len(s) : s[i] \in Events
           /\ \A e \in Events : /\ Append(s, e) \in Seq(Events)
                                /\ Len(Append(s, e)) = Len(s) + 1
                                /\ \A i \in 1 .. Len(s) : Append(s, e)[i] = s[i]
                                /\ Append(s, e)[Len(s) + 1] = e
           /\ s # <<>> => /\ Tail(s) \in Seq(Events)
                          /\ Len(Tail(s)) = Len(s) - 1
                          /\ \A i \in 1 .. Len(s) - 1 : Tail(s)[i] = s[i + 1]
                          /\ Head(s) = s[1] /\ Head(s) \in Events
                          /\ Len(s) > 0
  OBVIOUS

LEMMA NoEvents == ASSUME NEW v, NEW c PROVE Told(<<>>, v, c)
<1>1. \A i \in 1 .. Len(<<>>) : FALSE
  OBVIOUS
<1> QED BY <1>1, Zenon DEF Told, Has

\* The oldest event is taken.
LEMMA TailHas ==
    ASSUME NEW s \in Seq(Events), s # <<>>, NEW t, NEW c
    PROVE  /\ Has(Tail(s), t, c) => Has(s, t, c)
           /\ Has(s, t, c) => Head(s) = Ev(t, c) \/ Has(Tail(s), t, c)
           /\ From(s, 2, t, c) => Has(Tail(s), t, c)
           /\ From(s, 1, t, c) => Has(s, t, c)
<1>1. /\ Len(s) \in Nat /\ Len(s) > 0 /\ Len(Tail(s)) = Len(s) - 1
      /\ \A i \in 1 .. Len(s) - 1 : Tail(s)[i] = s[i + 1]
      /\ Head(s) = s[1]
  BY Shapes, Zenon
<1>2. \A i \in 1 .. Len(Tail(s)) : i + 1 \in 1 .. Len(s) /\ s[i + 1] = Tail(s)[i]
  BY <1>1
<1>3. \A i \in 1 .. Len(s) : i = 1 \/ (i - 1 \in 1 .. Len(Tail(s)) /\ Tail(s)[i - 1] = s[i])
  BY <1>1
<1>4. \A i \in 2 .. Len(s) : i - 1 \in 1 .. Len(Tail(s)) /\ Tail(s)[i - 1] = s[i]
  BY <1>1
<1>5. Has(Tail(s), t, c) => Has(s, t, c)
  BY <1>2, Zenon DEF Has
<1>6. Has(s, t, c) => Head(s) = Ev(t, c) \/ Has(Tail(s), t, c)
  BY <1>1, <1>3, Zenon DEF Has
<1>7. From(s, 2, t, c) => Has(Tail(s), t, c)
  BY <1>4, Zenon DEF Has, From
<1>8. From(s, 1, t, c) => Has(s, t, c)
  BY Zenon DEF Has, From
<1> QED BY <1>5, <1>6, <1>7, <1>8, Zenon

LEMMA TailFrom ==
    ASSUME NEW s \in Seq(Events), s # <<>>, NEW t, NEW c, NEW i \in 1 .. Len(Tail(s)),
           From(s, i + 1, t, c)
    PROVE  From(Tail(s), i, t, c)
<1>1. /\ Len(s) \in Nat /\ Len(s) > 0 /\ Len(Tail(s)) = Len(s) - 1
      /\ \A j \in 1 .. Len(s) - 1 : Tail(s)[j] = s[j + 1]
  BY Shapes, Zenon
<1>2. PICK j \in i + 1 .. Len(s) : s[j] = Ev(t, c)
  BY Zenon DEF From
<1>3. j - 1 \in i .. Len(Tail(s)) /\ Tail(s)[j - 1] = s[j]
  BY <1>1
<1> QED BY <1>2, <1>3, Zenon DEF From

LEMMA TailTold ==
    ASSUME NEW s \in Seq(Events), s # <<>>, NEW v, NEW c, Told(s, v, c)
    PROVE  Told(Tail(s), v, c)
<1>1. \A i \in 1 .. Len(Tail(s)) : i + 1 \in 1 .. Len(s) /\ s[i + 1] = Tail(s)[i]
  BY Shapes
<1>2. \A i \in 1 .. Len(Tail(s)) : \A t : From(s, i + 1, t, c) => From(Tail(s), i, t, c)
  BY TailFrom, Zenon
<1> QED BY <1>1, <1>2, TailHas, Zenon DEF Told

\* An event follows.
LEMMA AppendHas ==
    ASSUME NEW s \in Seq(Events), NEW e \in Events, NEW t, NEW c
    PROVE  /\ Has(s, t, c) => Has(Append(s, e), t, c)
           /\ Has(Append(s, e), t, c) => Has(s, t, c) \/ e = Ev(t, c)
           /\ e = Ev(t, c) => \A i \in 1 .. Len(s) + 1 : From(Append(s, e), i, t, c)
           /\ e = Ev(t, c) => Has(Append(s, e), t, c)
           /\ \A i \in 1 .. Len(s) : From(s, i, t, c) => From(Append(s, e), i, t, c)
<1>1. /\ Len(s) \in Nat /\ Len(Append(s, e)) = Len(s) + 1
      /\ \A i \in 1 .. Len(s) : Append(s, e)[i] = s[i]
      /\ Append(s, e)[Len(s) + 1] = e
  BY Shapes, Zenon
<1>2. /\ \A i \in 1 .. Len(s) : i \in 1 .. Len(s) + 1
      /\ \A i \in 1 .. Len(s) + 1 : i \in 1 .. Len(s) \/ i = Len(s) + 1
      /\ \A i \in 1 .. Len(s) + 1 : Len(s) + 1 \in i .. Len(s) + 1
      /\ Len(s) + 1 \in 1 .. Len(s) + 1
      /\ \A i \in 1 .. Len(s) : \A j \in i .. Len(s) : j \in i .. Len(s) + 1 /\ j \in 1 .. Len(s)
  BY <1>1
<1> QED BY <1>1, <1>2, Zenon DEF Has, From

\* Of another client.
LEMMA AppendTold ==
    ASSUME NEW s \in Seq(Events), NEW e \in Events, NEW v, NEW c, Told(s, v, c), e.cid # c
    PROVE  Told(Append(s, e), v, c)
<1>1. /\ Len(s) \in Nat /\ Len(Append(s, e)) = Len(s) + 1
      /\ \A i \in 1 .. Len(s) : Append(s, e)[i] = s[i]
      /\ Append(s, e)[Len(s) + 1] = e
  BY Shapes, Zenon
<1>2. \A i \in 1 .. Len(s) + 1 : i \in 1 .. Len(s) \/ i = Len(s) + 1
  BY <1>1
<1>3. \A t : e # Ev(t, c)
  BY DEF Ev
<1> QED BY <1>1, <1>2, <1>3, AppendHas, Zenon DEF Told

\* Of the client itself.
LEMMA ConnectTold ==
    ASSUME NEW s \in Seq(Events), NEW c \in Cids, Told(s, "none", c)
    PROVE  Told(Append(s, Ev("CONNECT", c)), "pending", c)
<1>1. /\ "pending" # "none" /\ "pending" \in Present /\ "pending" # "up"
      /\ Ev("CONNECT", c) # Ev("DISCONNECT", c) /\ Ev("DISCONNECT", c).cid = c
      /\ Ev("CONNECT", c) \in Events
  BY DEF Present, Ev, Events
<1>2. ~Has(s, "DISCONNECT", c)
  BY <1>1, Zenon DEF Told, Has
<1> QED BY <1>1, <1>2, AppendHas, Zenon DEF Told

LEMMA EstablishTold ==
    ASSUME NEW s \in Seq(Events), NEW c \in Cids, Told(s, "authed", c)
    PROVE  /\ Told(Append(s, Ev("ESTABLISHED", c)), "up", c)
           /\ Has(Append(s, Ev("ESTABLISHED", c)), "ESTABLISHED", c)
<1> DEFINE e == Ev("ESTABLISHED", c)
<1>1. /\ "up" # "none" /\ "up" \in Present /\ "authed" \in Present
      /\ e # Ev("DISCONNECT", c) /\ e \in Events
  BY DEF Present, Ev, Events
<1>2. Len(Append(s, e)) = Len(s) + 1
  BY <1>1, Shapes, Zenon
<1> QED BY <1>1, <1>2, AppendHas, Zenon DEF Told

LEMMA LeaveTold ==
    ASSUME NEW s \in Seq(Events), NEW c \in Cids
    PROVE  /\ Told(Append(s, Ev("DISCONNECT", c)), "gone", c)
           /\ Has(Append(s, Ev("DISCONNECT", c)), "DISCONNECT", c)
<1> DEFINE e == Ev("DISCONNECT", c)
<1>1. "gone" # "none" /\ "gone" \notin Present /\ "gone" # "up" /\ e \in Events
  BY DEF Present, Ev, Events
<1>2. Len(Append(s, e)) = Len(s) + 1
  BY <1>1, Shapes, Zenon
<1> QED BY <1>1, <1>2, AppendHas, Zenon DEF Told

-----------------------------------------------------------------------------
(* Steps that leave the clients and the events alone. *)

HandlerOK ==
    /\ cids \in [Cids -> SUBSET Flags] /\ attempt \in [Identities -> OptCid]
    /\ active \in [Identities -> OptCid] /\ born \in [Cids -> Procs]
    /\ timers \in SUBSET Cids /\ lost \in SUBSET Goroutines

RestOK ==
    /\ proc \in Procs
    /\ vpn \in [Cids -> Present \cup {"none", "gone"}]
    /\ since \in [Cids -> 0 .. MaxTime] /\ now \in 0 .. MaxTime
    /\ closing \in SUBSET Cids /\ expired \in SUBSET Cids
    /\ wasUp \in SUBSET Cids /\ orphans \in SUBSET Cids /\ calm \in BOOLEAN
    /\ link \in {"down", "boot", "snapped", "replay", "live"}
    /\ losses \in 0 .. MaxLosses
    /\ events \in Seq(Events)
    /\ snap \in [Cids -> Rows]
    /\ todo \in 0 .. Len(events)
    /\ evictions \in SUBSET Cids

LEMMA TypeParts ==
    /\ TypeOK <=> HandlerOK /\ RestOK
    /\ TypeOK' <=> HandlerOK' /\ RestOK'
<1>1. TypeOK <=> HandlerOK /\ RestOK
  BY Zenon DEF TypeOK, HandlerOK, RestOK
<1>2. TypeOK' <=> HandlerOK' /\ RestOK'
  BY Zenon DEF TypeOK, HandlerOK, RestOK
<1> QED BY <1>1, <1>2, Zenon

LEMMA HandlerIs ==
    ASSUME HandlerOK, EntryInv
    PROVE  Sane(Handler) /\ Handler.cids = cids
  BY Zenon DEF HandlerOK, EntryInv, Sane, Handler, HandlerType

LEMMA BecomesAre ==
    ASSUME NEW k
    PROVE  Becomes(k) <=> /\ cids' = k.cids /\ attempt' = k.attempt /\ active' = k.active
                          /\ born' = k.born /\ timers' = k.timers /\ lost' = k.lost
  BY Zenon DEF Becomes

\* What Becomes does.
LEMMA BecomesIs ==
    ASSUME NEW k, Sane(k), Becomes(k)
    PROVE  HandlerOK' /\ EntryInv' /\ cids' = k.cids
<1>1. HandlerOK'
  BY Fields, BecomesAre, Zenon DEF Sane, HandlerOK
<1>2. EntryInv'
  BY BecomesAre, Zenon DEF Sane, EntryInv
<1> QED BY <1>1, <1>2, BecomesAre, Zenon

\* Nothing is tracked anew, and nothing lost of a client that is there.
CidsKept ==
    \A c \in Cids :
        /\ cids'[c] # {} => cids[c] # {}
        /\ vpn[c] \in Present => cids[c] \cap {"tracked", "established"} \subseteq cids'[c]

LEMMA SameCids == ASSUME UNCHANGED cids PROVE CidsKept
  BY Zenon DEF CidsKept

LEMMA BecomesKept ==
    ASSUME HandlerOK, EntryInv, NEW k, Sane(k), Kept(Handler, k), Becomes(k)
    PROVE  HandlerOK' /\ EntryInv' /\ CidsKept
<1>1. Handler.cids = cids /\ HandlerOK' /\ EntryInv' /\ cids' = k.cids
  BY HandlerIs, BecomesIs, Zenon
<1> QED BY <1>1, Zenon DEF Kept, CidsKept

LEMMA QuietStep ==
    ASSUME RebuildInv, HandlerOK', RestOK', EntryInv', CidsKept,
           UNCHANGED <<vpn, events, link, snap, todo, orphans>>
    PROVE  RebuildInv'
<1>0. "authed" \in Present /\ "up" \in Present
  BY DEF Present
<1>1. EventInv'
  BY Zenon DEF RebuildInv, EventInv
<1>2. StaleInv'
  BY Zenon DEF RebuildInv, StaleInv, CidsKept
<1>3. UpInv'
  <2> SUFFICES ASSUME NEW c \in Cids \ orphans
               PROVE  /\ vpn[c] = "authed" => "tracked" \in cids'[c]
                      /\ vpn[c] = "up" =>
                           /\ link \in Caught =>
                                 \/ "established" \in cids'[c]
                                 \/ Has(events, "ESTABLISHED", c) /\ "tracked" \in cids'[c]
                           /\ link = "snapped" =>
                                 \/ snap[c] = "established"
                                 \/ Has(events, "ESTABLISHED", c) /\ "tracked" \in cids'[c]
    BY Zenon DEF UpInv
  <2>1. vpn[c] \in Present => /\ "tracked" \in cids[c] => "tracked" \in cids'[c]
                              /\ "established" \in cids[c] => "established" \in cids'[c]
    BY Zenon DEF CidsKept
  <2> QED BY <1>0, <2>1, Zenon DEF RebuildInv, UpInv
<1>4. SnapInv' /\ (link' = "live" => todo' = 0)
  BY Zenon DEF RebuildInv, SnapInv
<1> QED BY <1>1, <1>2, <1>3, <1>4, TypeParts, Zenon DEF RebuildInv

LEMMA KeptThrough ==
    ASSUME HandlerOK, EntryInv, NEW h, Kept(Handler, h), NEW k, Sane(k), Kept(h, k),
           Becomes(k)
    PROVE  HandlerOK' /\ EntryInv' /\ CidsKept
<1>1. Kept(Handler, k)
  BY KeptTwice, Zenon
<1> QED BY <1>1, BecomesKept, Zenon

LEMMA CloseType ==
    ASSUME closing \in SUBSET Cids, NEW S \in SUBSET Cids, Close(S)
    PROVE  closing' \in SUBSET Cids
  BY Zenon DEF Close

LEMMA ReplacedType ==
    ASSUME NEW h \in HandlerType, NEW c \in Cids PROVE Replaced(h, c) \in SUBSET Cids
<1>1. h.active \in [Identities -> OptCid] /\ h.born \in [Cids -> Procs]
  BY Fields, Zenon
<1>2. Owner(h, c) \in Identities
  BY <1>1, Constants, Zenon DEF Owner
<1>3. h.active[Owner(h, c)] \in OptCid
  BY <1>1, <1>2, Zenon
<1> QED BY <1>3, Zenon DEF Replaced, OptCid

\* RestOK when only the clients told to go change.
LEMMA RestKept ==
    ASSUME RestOK, closing' \in SUBSET Cids, evictions' \in SUBSET Cids,
           calm' \in BOOLEAN, UNCHANGED <<lifeVars, events, link, losses, snap, todo>>
    PROVE  RestOK'
  BY Zenon DEF RestOK, lifeVars

LEMMA QuietHandler ==
    ASSUME RebuildInv, HandlerOK', EntryInv', CidsKept, closing' \in SUBSET Cids,
           evictions' \in SUBSET Cids, calm' \in BOOLEAN,
           UNCHANGED <<lifeVars, events, link, losses, snap, todo>>
    PROVE  RebuildInv'
<1>1. RestOK'
  BY TypeParts, RestKept, Zenon DEF RebuildInv
<1> QED BY <1>1, QuietStep, Zenon DEF lifeVars

\* The deadline of a promoted client, with the status it asked for.
LEMMA ReconcileIs ==
    ASSUME HandlerOK, EntryInv, closing \in SUBSET Cids, NEW c \in Cids,
           NEW h, Sane(h), Kept(Handler, h), Reconcile(h, c)
    PROVE  HandlerOK' /\ EntryInv' /\ CidsKept /\ closing' \in SUBSET Cids
<1>0. {} \in SUBSET Cids /\ {c} \in SUBSET Cids /\ Replaced(h, c) \in SUBSET Cids
      /\ TRUE \in BOOLEAN
  BY ReplacedType, Zenon DEF Sane
<1>1. CASE vpn[c] \notin Present /\ Becomes(CleanupPromoted(h, c)) /\ Close({})
  <2>1. Sane(CleanupPromoted(h, c)) /\ Kept(h, CleanupPromoted(h, c))
    BY <1>1, CleanupIs, Zenon
  <2> QED BY <1>0, <1>1, <2>1, KeptThrough, CloseType, Zenon
<1>2. CASE Becomes(Establish(h, c, TRUE)) /\ Close(Replaced(h, c))
  <2>1. Sane(Establish(h, c, TRUE)) /\ Kept(h, Establish(h, c, TRUE))
    BY <1>0, EstablishIs, Zenon
  <2> QED BY <1>0, <1>2, <2>1, KeptThrough, CloseType, Zenon
<1>3. CASE Becomes(h) /\ \E S \in {{}, {c}} : Close(S)
  <2>1. closing' \in SUBSET Cids
    BY <1>0, <1>3, CloseType, Zenon
  <2> QED BY <1>3, <2>1, BecomesKept, Zenon
<1>4. CASE Becomes(h) /\ Close(IF "promoted" \in h.cids[c] THEN {c} ELSE {})
  <2>1. (IF "promoted" \in h.cids[c] THEN {c} ELSE {}) \in {{}, {c}}
    BY Zenon
  <2> QED BY <1>3, <1>4, <2>1, Zenon
<1> QED BY <1>1, <1>2, <1>4, Zenon DEF Reconcile

\* A goroutine whose entry has been overwritten ends.
LEMMA WithoutIs ==
    ASSUME HandlerOK, EntryInv, NEW g
    PROVE  Sane(Without(g)) /\ Kept(Handler, Without(g)) /\ Without(g).cids = cids
<1>1. Sane(Handler) /\ Handler.cids = cids /\ Handler.lost \in SUBSET Goroutines
  BY HandlerIs, Fields, Zenon DEF Sane
<1>2. Handler.lost \ {g} \in SUBSET Goroutines
  BY <1>1, Zenon
<1>3. Without(g) = [Handler EXCEPT !.lost = Handler.lost \ {g}]
  BY Zenon DEF Without
<1> QED BY <1>1, <1>2, <1>3, LostIs, Zenon

LEMMA TimersStep ==
    ASSUME RebuildInv, NEW c \in Cids,
           \/ AuthTimeout(c) \/ PromotedDeadline(c) \/ ExpiryFires(c)
           \/ LostTimeout(c) \/ LostDeadline(c) \/ LostExpiry(c)
    PROVE  RebuildInv'
<1>0. /\ HandlerOK /\ EntryInv /\ closing \in SUBSET Cids /\ evictions \in SUBSET Cids
      /\ Sane(Handler) /\ Handler.cids = cids
      /\ {} \in SUBSET Cids /\ {c} \in SUBSET Cids /\ Pending({c}) \in SUBSET Cids
      /\ calm \in BOOLEAN
  BY TypeParts, HandlerIs, Zenon DEF RebuildInv, RestOK, Pending
<1>1. ASSUME HandlerOK', EntryInv', CidsKept, closing' \in SUBSET Cids,
             calm' \in BOOLEAN, UNCHANGED <<lifeVars, events, bootVars>>
      PROVE  RebuildInv'
  <2>1. evictions' \in SUBSET Cids /\ UNCHANGED <<lifeVars, events, link, losses, snap, todo>>
    BY <1>0, <1>1, Zenon DEF bootVars
  <2> QED BY <1>1, <2>1, QuietHandler, Zenon
<1>2. CASE AuthTimeout(c)
  <2>1. Sane(ClearInFlight(Handler, c)) /\ Kept(Handler, ClearInFlight(Handler, c))
    BY <1>0, ClearIs, Zenon
  <2>2. HandlerOK' /\ EntryInv' /\ CidsKept
    BY <1>0, <1>2, <2>1, BecomesKept, Zenon DEF AuthTimeout
  <2>3. closing' \in SUBSET Cids
    <3>1. PICK S \in {{}, Pending({c})} : Close(S)
      BY <1>2, Zenon DEF AuthTimeout
    <3> QED BY <1>0, <3>1, CloseType, Zenon
  <2> QED BY <1>0, <1>1, <1>2, <2>2, <2>3, Zenon DEF AuthTimeout, vpnVars
<1>3. CASE PromotedDeadline(c)
  <2> DEFINE e == cids[c] \ {"deadline"}
             h == [Handler EXCEPT !.cids[c] = e]
  <2>1. e \in SUBSET Flags /\ Handler \in HandlerType
    BY <1>0, Zenon DEF HandlerOK, Sane
  <2>2. /\ cids[c] \cap {"tracked", "established"} \subseteq e
        /\ e # {} => cids[c] # {} /\ "tracked" \in e
    <3>1. "tracked" # "deadline" /\ "established" # "deadline"
      OBVIOUS
    <3> QED BY <1>0, <3>1, Zenon DEF EntryInv
  <2>3. \/ Quiet /\ Reconcile(h, c)
        \/ link = "down" /\ Becomes(h) /\ Close({})
    BY <1>0, <1>3, Zenon DEF PromotedDeadline
  <2>4. calm' \in BOOLEAN /\ UNCHANGED <<lifeVars, events, bootVars>>
    BY <1>3, Zenon DEF PromotedDeadline
  <2> HIDE DEF e
  <2>5. Handler.cids[c] = cids[c]
    BY <1>0, Zenon
  <2>6. Sane(h) /\ Kept(Handler, h)
    BY <1>0, <2>1, <2>2, <2>5, EntrySane, Zenon
  <2> HIDE DEF h
  <2>7. CASE Reconcile(h, c)
    BY <1>0, <1>1, <2>4, <2>6, <2>7, ReconcileIs, Zenon
  <2>8. CASE Becomes(h) /\ Close({})
    BY <1>0, <1>1, <2>4, <2>6, <2>8, BecomesKept, CloseType, Zenon
  <2> QED BY <2>3, <2>7, <2>8, Zenon
<1>4. CASE ExpiryFires(c)
  <2>1. HandlerOK' /\ EntryInv' /\ UNCHANGED cids
    BY <1>0, <1>4, Zenon DEF ExpiryFires, HandlerOK, EntryInv
  <2>2. closing' \in SUBSET Cids
    <3>1. PICK S \in {{}, {c}} : Close(S)
      BY <1>4, Zenon DEF ExpiryFires
    <3> QED BY <1>0, <3>1, CloseType, Zenon
  <2> QED BY <1>0, <1>1, <1>4, <2>1, <2>2, SameCids, Zenon DEF ExpiryFires, vpnVars
<1>5. CASE LostTimeout(c)
  <2>1. PICK g \in lost \cap ({"auth", "idle"} \X {c}) :
            /\ Becomes([ClearInFlight(Without(g), c) EXCEPT
                            !.lost = @ \cup InFlight(Handler, c)])
            /\ Close(IF g[1] = "auth" /\ Forwarding THEN Pending({c}) ELSE {})
    BY <1>5, Zenon DEF LostTimeout
  <2> DEFINE h == ClearInFlight(Without(g), c)
             l == h.lost \cup InFlight(Handler, c)
             k == [h EXCEPT !.lost = l]
  <2>2. Sane(Without(g)) /\ Kept(Handler, Without(g))
    BY <1>0, WithoutIs, Zenon
  <2>3. Sane(h) /\ Kept(Without(g), h)
    BY <2>2, ClearIs, Zenon
  <2>4. Kept(Handler, h)
    BY <2>2, <2>3, KeptTwice, Zenon
  <2>5. Becomes(k)
    BY <2>1, Zenon
  <2> HIDE DEF h
  <2>6. l \in SUBSET Goroutines
    BY <2>3, Fields, InFlightType, Zenon DEF Sane
  <2> HIDE DEF l
  <2>7. Sane(k) /\ Kept(h, k)
    BY <2>3, <2>6, LostIs, Zenon
  <2> HIDE DEF k
  <2>8. HandlerOK' /\ EntryInv' /\ CidsKept
    BY <1>0, <2>4, <2>5, <2>7, KeptThrough, Zenon
  <2>9. closing' \in SUBSET Cids
    <3>1. PICK S \in {{}, Pending({c})} : Close(S)
      BY <2>1, Zenon
    <3> QED BY <1>0, <3>1, CloseType, Zenon
  <2> QED BY <1>0, <1>1, <1>5, <2>8, <2>9, Zenon DEF LostTimeout, vpnVars
<1>6. CASE LostDeadline(c)
  <2> DEFINE h == Without(<<"deadline", c>>)
  <2>1. Sane(h) /\ Kept(Handler, h)
    BY <1>0, WithoutIs, Zenon
  <2>2. CASE Reconcile(h, c)
    <3>1. HandlerOK' /\ EntryInv' /\ CidsKept /\ closing' \in SUBSET Cids
      BY <1>0, <2>1, <2>2, ReconcileIs, Zenon
    <3> QED BY <1>0, <1>1, <1>6, <3>1, Zenon DEF LostDeadline, vpnVars
  <2>3. CASE Becomes(h) /\ Close({})
    <3>1. HandlerOK' /\ EntryInv' /\ CidsKept /\ closing' \in SUBSET Cids
      BY <1>0, <2>1, <2>3, BecomesKept, CloseType, Zenon
    <3> QED BY <1>0, <1>1, <1>6, <3>1, Zenon DEF LostDeadline, vpnVars
  <2> QED BY <1>6, <2>2, <2>3, Zenon DEF LostDeadline
<1>7. CASE LostExpiry(c)
  <2> DEFINE h == Without(<<"expiry", c>>)
  <2>1. Sane(h) /\ Kept(Handler, h)
    BY <1>0, WithoutIs, Zenon
  <2>2. closing' \in SUBSET Cids
    <3>1. PICK S \in {{}, {c}} : Close(S)
      BY <1>7, Zenon DEF LostExpiry
    <3> QED BY <1>0, <3>1, CloseType, Zenon
  <2>3. HandlerOK' /\ EntryInv' /\ CidsKept
    BY <1>0, <1>7, <2>1, BecomesKept, Zenon DEF LostExpiry
  <2> QED BY <1>0, <1>1, <1>7, <2>2, <2>3, Zenon DEF LostExpiry, vpnVars
<1> QED BY <1>2, <1>3, <1>4, <1>5, <1>6, <1>7, Zenon

LEMMA ClockStep == ASSUME RebuildInv, Tick \/ \E c \in Cids : Expire(c) PROVE RebuildInv'
<1>0. HandlerOK /\ RestOK /\ EntryInv
  BY TypeParts, Zenon DEF RebuildInv
<1>1. /\ UNCHANGED <<handlerVars, proc, vpn, since, closing, wasUp, orphans, calm, events,
                     bootVars>>
      /\ now' \in 0 .. MaxTime /\ expired' \in SUBSET Cids
  <2>1. CASE Tick
    <3>1. now + 1 \in 0 .. MaxTime
      BY <1>0, <2>1, RebuildAssumption DEF Tick, RestOK, RebuildAssumption
    <3> QED BY <1>0, <2>1, <3>1, Zenon DEF Tick, RestOK
  <2>2. CASE \E c \in Cids : Expire(c)
    BY <1>0, <2>2, Zenon DEF Expire, RestOK
  <2> QED BY <2>1, <2>2, Zenon
<1>2. HandlerOK' /\ EntryInv' /\ UNCHANGED cids
  BY <1>0, <1>1, Zenon DEF handlerVars, HandlerOK, EntryInv
<1>3. RestOK' /\ UNCHANGED <<vpn, events, link, snap, todo, orphans>>
  BY <1>0, <1>1, Zenon DEF bootVars, RestOK
<1> QED BY <1>2, <1>3, SameCids, QuietStep, Zenon

LEMMA EvictionStep ==
    ASSUME RebuildInv, NEW c \in Cids, SendEviction(c) PROVE RebuildInv'
<1>0. /\ HandlerOK /\ EntryInv /\ closing \in SUBSET Cids /\ evictions \in SUBSET Cids
      /\ Sane(Handler) /\ {} \in SUBSET Cids /\ {c} \in SUBSET Cids /\ calm \in BOOLEAN
  BY TypeParts, HandlerIs, Zenon DEF RebuildInv, RestOK
<1>1. /\ evictions' \in SUBSET Cids /\ calm' \in BOOLEAN
      /\ UNCHANGED <<lifeVars, events, link, losses, snap, todo>>
  BY <1>0, Zenon DEF SendEviction, vpnVars
<1>2. CASE (Close({}) \/ Close({c})) /\ UNCHANGED handlerVars
  <2>1. HandlerOK' /\ EntryInv' /\ UNCHANGED cids
    BY <1>0, <1>2, Zenon DEF handlerVars, HandlerOK, EntryInv
  <2> QED BY <1>0, <1>1, <1>2, <2>1, SameCids, CloseType, QuietHandler, Zenon
<1>3. CASE vpn[c] \notin Present /\ Becomes(Drop(Handler, {c})) /\ Close({})
  <2>1. Sane(Drop(Handler, {c})) /\ Kept(Handler, Drop(Handler, {c}))
    BY <1>0, <1>3, DropKept, Zenon
  <2>2. HandlerOK' /\ EntryInv' /\ CidsKept
    BY <1>0, <1>3, <2>1, BecomesKept, Zenon
  <2> QED BY <1>0, <1>1, <1>3, <2>2, CloseType, QuietHandler, Zenon
<1> QED BY <1>2, <1>3, Zenon DEF SendEviction

-----------------------------------------------------------------------------
(* The life of a client. *)

\* Client c goes from one state to another.
LEMMA ClientStep ==
    ASSUME RebuildInv, HandlerOK', RestOK', EntryInv', CidsKept, NEW c \in Cids, NEW v,
           vpn' = [vpn EXCEPT ![c] = v], UNCHANGED <<link, snap, todo>>,
           \A d \in Cids \ {c} :
               /\ d \in orphans' <=> d \in orphans
               /\ Told(events', vpn[d], d)
               /\ \A t : Has(events, t, d) => Has(events', t, d),
           link = "down" => events' = <<>>,
           Told(events', v, c),
           v \notin Present => /\ link \in Caught /\ cids'[c] # {} => Has(events', "DISCONNECT", c)
                               /\ link = "snapped" /\ snap[c] # "absent" => Has(events', "DISCONNECT", c),
           v = "authed" /\ c \notin orphans' => "tracked" \in cids'[c],
           v = "up" /\ c \notin orphans' /\ link \in Caught \cup {"snapped"} =>
               Has(events', "ESTABLISHED", c) /\ "tracked" \in cids'[c],
           link = "snapped" /\ v \in {"authed", "up"} => snap[c] # "absent"
    PROVE  RebuildInv'
<1>0. vpn \in [Cids -> Present \cup {"none", "gone"}] /\ DOMAIN vpn = Cids
  BY TypeParts, Zenon DEF RebuildInv, RestOK
<1>1. vpn'[c] = v /\ \A d \in Cids : d # c => vpn'[d] = vpn[d]
  BY <1>0, Zenon
<1>2. EventInv'
  <2>1. \A d \in Cids : Told(events', vpn'[d], d)
    BY <1>1, Zenon
  <2> QED BY <2>1, Zenon DEF EventInv
<1>3. StaleInv'
  <2>1. ASSUME NEW d \in Cids, d # c, vpn[d] \notin Present
        PROVE  /\ link \in Caught /\ cids'[d] # {} => Has(events', "DISCONNECT", d)
               /\ link = "snapped" /\ snap[d] # "absent" => Has(events', "DISCONNECT", d)
    BY <2>1, Zenon DEF RebuildInv, StaleInv, CidsKept
  <2> QED BY <1>1, <2>1, Zenon DEF StaleInv
<1>4. UpInv'
  <2>1. ASSUME NEW d \in Cids, d \notin orphans', d # c
        PROVE  /\ vpn[d] = "authed" => "tracked" \in cids'[d]
               /\ vpn[d] = "up" =>
                    /\ link \in Caught =>
                          \/ "established" \in cids'[d]
                          \/ Has(events', "ESTABLISHED", d) /\ "tracked" \in cids'[d]
                    /\ link = "snapped" =>
                          \/ snap[d] = "established"
                          \/ Has(events', "ESTABLISHED", d) /\ "tracked" \in cids'[d]
    <3>1. /\ d \notin orphans
          /\ Has(events, "ESTABLISHED", d) => Has(events', "ESTABLISHED", d)
      BY <2>1, Zenon
    <3>2. vpn[d] \in Present => /\ "tracked" \in cids[d] => "tracked" \in cids'[d]
                                /\ "established" \in cids[d] => "established" \in cids'[d]
      BY Zenon DEF CidsKept
    <3>3. "authed" \in Present /\ "up" \in Present
      BY DEF Present
    <3> QED BY <2>1, <3>1, <3>2, <3>3, Zenon DEF RebuildInv, UpInv
  <2>2. "snapped" \in Caught \cup {"snapped"} /\ Caught \subseteq Caught \cup {"snapped"}
    BY Zenon
  <2>3. ASSUME NEW d \in Cids \ orphans'
        PROVE  /\ vpn'[d] = "authed" => "tracked" \in cids'[d]
               /\ vpn'[d] = "up" =>
                    /\ link \in Caught =>
                          \/ "established" \in cids'[d]
                          \/ Has(events', "ESTABLISHED", d) /\ "tracked" \in cids'[d]
                    /\ link = "snapped" =>
                          \/ snap[d] = "established"
                          \/ Has(events', "ESTABLISHED", d) /\ "tracked" \in cids'[d]
    <3>1. CASE d = c
      BY <1>1, <2>2, <3>1, Zenon
    <3>2. CASE d # c
      BY <1>1, <2>1, <3>2, Zenon
    <3> QED BY <3>1, <3>2, Zenon
  <2> QED BY <2>3, Zenon DEF UpInv
<1>5. SnapInv'
  <2>1. ASSUME link = "snapped", NEW d \in Cids, vpn'[d] \in {"authed", "up"}
        PROVE  snap[d] # "absent"
    <3>1. CASE d = c
      BY <1>1, <2>1, <3>1, Zenon
    <3>2. CASE d # c
      BY <1>1, <2>1, <3>2, Zenon DEF RebuildInv, SnapInv
    <3> QED BY <3>1, <3>2, Zenon
  <2> QED BY <2>1, Zenon DEF SnapInv
<1>6. link' = "live" => todo' = 0
  BY Zenon DEF RebuildInv
<1> QED BY <1>2, <1>3, <1>4, <1>5, <1>6, TypeParts, Zenon DEF RebuildInv

LEMMA AuthorizeStep ==
    ASSUME RebuildInv, NEW c \in Cids, Authorize(c) \/ LostAuthorize(c) PROVE RebuildInv'
<1>0. /\ HandlerOK /\ RestOK /\ EntryInv /\ Sane(Handler) /\ Handler.cids = cids
  BY TypeParts, HandlerIs, Zenon DEF RebuildInv
<1>1. ASSUME vpn[c] = "pending", link \in Caught, calm' \in BOOLEAN, vpn' = [vpn EXCEPT ![c] = "authed"],
             HandlerOK', EntryInv', CidsKept,
             orphans' \in SUBSET Cids, \A d \in Cids \ {c} : d \in orphans' <=> d \in orphans,
             cids[c] # {} \/ c \in orphans',
             UNCHANGED <<proc, since, closing, now, expired, wasUp, events, bootVars>>
      PROVE  RebuildInv'
  <2>0. /\ "pending" \in Present /\ "authed" \in Present
        /\ "authed" \notin {"none", "up"} /\ link \notin {"down", "snapped"}
    BY <1>1 DEF Present, Caught
  <2>1. vpn' \in [Cids -> Present \cup {"none", "gone"}]
    BY <1>0, <1>1, <2>0, Zenon DEF RestOK
  <2>2. RestOK' /\ UNCHANGED <<link, snap, todo>>
    BY <1>0, <1>1, <2>1, Zenon DEF RestOK, bootVars
  <2>3. Told(events', "authed", c)
    BY <1>1, <2>0, Zenon DEF RebuildInv, EventInv, Told
  <2>4. \A d \in Cids \ {c} : /\ Told(events', vpn[d], d)
                              /\ \A t : Has(events, t, d) => Has(events', t, d)
    BY <1>1, Zenon DEF RebuildInv, EventInv
  <2>5. c \notin orphans' => "tracked" \in cids'[c]
    BY <1>0, <1>1, <2>0, Zenon DEF EntryInv, CidsKept
  <2> QED BY <1>1, <2>0, <2>2, <2>3, <2>4, <2>5, ClientStep, Zenon
<1>2. CASE Authorize(c)
  <2>1. cids[c] # {} /\ cids[c] \in SUBSET Flags /\ "failed" \in Flags /\ "tracked" \in cids[c]
    BY <1>0, <1>2, Zenon DEF Authorize, HandlerOK, Flags, EntryInv
  <2>2. HandlerOK' /\ EntryInv' /\ CidsKept
    <3>1. CASE Becomes(Promote(Handler, c))
      BY <1>0, <3>1, PromoteIs, BecomesKept, Zenon
    <3>2. CASE Becomes([Handler EXCEPT !.cids[c] = @ \cup {"failed"}])
      <4> DEFINE e == cids[c] \cup {"failed"}
                 k == [Handler EXCEPT !.cids[c] = e]
      <4>1. Becomes(k)
        BY <1>0, <3>2, Zenon
      <4>2. /\ e \in SUBSET Flags /\ "tracked" \in e /\ Handler.cids[c] # {}
            /\ Handler.cids[c] \cap {"tracked", "established"} \subseteq e
        BY <1>0, <2>1, Zenon
      <4> HIDE DEF e
      <4>3. Sane(k) /\ Kept(Handler, k)
        BY <1>0, <4>2, EntrySane, Zenon
      <4> HIDE DEF k
      <4> QED BY <1>0, <4>1, <4>3, BecomesKept, Zenon
    <3> QED BY <1>2, <3>1, <3>2, Zenon DEF Authorize
  <2>3. link \in Caught /\ calm' \in BOOLEAN
    BY <1>2, Zenon DEF Authorize, Forwarding, Caught
  <2> QED BY <1>0, <1>1, <1>2, <2>1, <2>2, <2>3, Zenon DEF Authorize, RestOK
<1>3. CASE LostAuthorize(c)
  <2> DEFINE h == [Without(<<"auth", c>>) EXCEPT !.lost = @ \cup {<<"idle", c>>}]
  <2>1. <<"idle", c>> \in Goroutines
    BY DEF Goroutines
  <2>2. Sane(h) /\ Kept(Handler, h)
    <3> DEFINE w == Without(<<"auth", c>>)
               l == w.lost \cup {<<"idle", c>>}
    <3>1. Sane(w) /\ Kept(Handler, w)
      BY <1>0, WithoutIs, Zenon
    <3> HIDE DEF w
    <3>2. l \in SUBSET Goroutines
      BY <2>1, <3>1, Fields, Zenon DEF Sane
    <3>3. h = [w EXCEPT !.lost = l]
      BY Zenon DEF w
    <3> HIDE DEF l, h
    <3>4. Sane(h) /\ Kept(w, h)
      BY <3>1, <3>2, <3>3, LostIs, Zenon
    <3> QED BY <3>1, <3>4, KeptTwice, Zenon
  <2>3. \/ /\ vpn[c] = "pending" /\ vpn' = [vpn EXCEPT ![c] = "authed"]
           /\ orphans' = orphans \cup {d \in {c} : cids[d] = {}}
           /\ Becomes(Promote(h, c))
        \/ UNCHANGED <<vpn, orphans>> /\ Becomes(h)
    BY <1>3, Zenon DEF LostAuthorize
  <2>4. /\ link \in Caught /\ calm' \in BOOLEAN
        /\ UNCHANGED <<proc, since, closing, now, expired, wasUp, events, bootVars>>
    BY <1>0, <1>3, Zenon DEF LostAuthorize, Forwarding, Caught, RestOK
  <2> HIDE DEF h
  <2>5. CASE /\ vpn[c] = "pending" /\ vpn' = [vpn EXCEPT ![c] = "authed"]
             /\ orphans' = orphans \cup {d \in {c} : cids[d] = {}}
             /\ Becomes(Promote(h, c))
    <3>1. HandlerOK' /\ EntryInv' /\ CidsKept
      BY <1>0, <2>2, <2>5, PromoteIs, KeptThrough, Zenon
    <3>2. /\ orphans' \in SUBSET Cids /\ \A d \in Cids \ {c} : d \in orphans' <=> d \in orphans
          /\ cids[c] # {} \/ c \in orphans'
      BY <1>0, <2>5, Zenon DEF RestOK
    <3> QED BY <1>1, <2>4, <2>5, <3>1, <3>2, Zenon
  <2>6. CASE UNCHANGED <<vpn, orphans>> /\ Becomes(h)
    <3>1. HandlerOK' /\ EntryInv' /\ CidsKept
      BY <1>0, <2>2, <2>6, BecomesKept, Zenon
    <3>2. RestOK' /\ UNCHANGED <<vpn, events, link, snap, todo, orphans>>
      BY <1>0, <2>4, <2>6, Zenon DEF RestOK, bootVars
    <3> QED BY <3>1, <3>2, QuietStep, Zenon
  <2> QED BY <2>3, <2>5, <2>6, Zenon
<1> QED BY <1>2, <1>3, Zenon

LEMMA NotifyIs ==
    ASSUME RebuildInv, NEW c \in Cids, NEW t \in {"CONNECT", "ESTABLISHED", "DISCONNECT"},
           Notify(t, c)
    PROVE  /\ events' \in Seq(Events) /\ todo \in 0 .. Len(events')
           /\ link = "down" => events' = <<>>
           /\ link # "down" => events' = Append(events, Ev(t, c))
           /\ \A d \in Cids \ {c} : /\ Told(events', vpn[d], d)
                                    /\ \A u : Has(events, u, d) => Has(events', u, d)
<1>0. /\ events \in Seq(Events) /\ todo \in 0 .. Len(events)
      /\ link = "down" => events = <<>>
      /\ \A d \in Cids : Told(events, vpn[d], d)
  BY TypeParts, Zenon DEF RebuildInv, RestOK, EventInv
<1>1. Ev(t, c) \in Events /\ Ev(t, c).cid = c
  BY DEF Ev, Events
<1>2. CASE link = "down"
  BY <1>0, <1>2, Zenon DEF Notify
<1>3. CASE link # "down"
  <2>1. events' = Append(events, Ev(t, c))
    BY <1>3, Zenon DEF Notify, Ev
  <2>2. /\ Append(events, Ev(t, c)) \in Seq(Events)
        /\ Len(events) \in Nat /\ Len(Append(events, Ev(t, c))) = Len(events) + 1
    BY <1>0, <1>1, Shapes, Zenon
  <2>3. todo \in 0 .. Len(events')
    BY <1>0, <2>1, <2>2
  <2>4. \A d \in Cids \ {c} : Told(events', vpn[d], d)
    BY <1>0, <1>1, <2>1, AppendTold, Zenon
  <2>5. \A d \in Cids \ {c} : \A u : Has(events, u, d) => Has(events', u, d)
    BY <1>0, <1>1, <2>1, AppendHas, Zenon
  <2> QED BY <1>3, <2>1, <2>2, <2>3, <2>4, <2>5, Zenon
<1> QED BY <1>2, <1>3, Zenon

LEMMA VpnStep ==
    ASSUME RebuildInv, NEW c \in Cids, VpnConnect(c) \/ VpnEstablish(c) \/ VpnLeave(c)
    PROVE  RebuildInv'
<1>0. /\ HandlerOK /\ RestOK /\ EntryInv /\ events \in Seq(Events)
      /\ Told(events, vpn[c], c)
      /\ "pending" \in Present /\ "up" \in Present /\ "gone" \notin Present
      /\ "pending" \notin {"authed", "up"} /\ "up" # "authed" /\ "gone" \notin {"authed", "up"}
      /\ "down" \notin Caught \cup {"snapped"} /\ "authed" \in {"authed", "up"}
  <2>1. /\ "pending" \in Present /\ "up" \in Present /\ "gone" \notin Present
        /\ "down" \notin Caught \cup {"snapped"}
    BY DEF Present, Caught
  <2> QED BY <2>1, TypeParts, Zenon DEF RebuildInv, RestOK, EventInv
<1>1. ASSUME NEW v \in Present \cup {"none", "gone"}, vpn' = [vpn EXCEPT ![c] = v],
             since' \in [Cids -> 0 .. MaxTime], closing' \in SUBSET Cids,
             expired' \in SUBSET Cids, wasUp' \in SUBSET Cids,
             events' \in Seq(Events), todo \in 0 .. Len(events'),
             orphans' \in SUBSET Cids, UNCHANGED <<proc, now, calm, handlerVars, bootVars>>
      PROVE  /\ HandlerOK' /\ RestOK' /\ EntryInv' /\ CidsKept
             /\ UNCHANGED <<link, snap, todo, cids>>
  <2>1. vpn' \in [Cids -> Present \cup {"none", "gone"}]
    BY <1>0, <1>1, Zenon DEF RestOK
  <2>2. UNCHANGED cids /\ HandlerOK' /\ EntryInv'
    BY <1>0, <1>1, Zenon DEF handlerVars, HandlerOK, EntryInv
  <2>3. RestOK' /\ UNCHANGED <<link, snap, todo>>
    BY <1>0, <1>1, <2>1, Zenon DEF RestOK, bootVars
  <2> QED BY <1>1, <2>2, <2>3, SameCids, Zenon
<1>2. CASE VpnConnect(c)
  <2>1. /\ vpn[c] = "none" /\ vpn' = [vpn EXCEPT ![c] = "pending"] /\ Notify("CONNECT", c)
        /\ since' \in [Cids -> 0 .. MaxTime]
        /\ UNCHANGED <<proc, closing, now, expired, wasUp, orphans, calm, handlerVars, bootVars>>
    BY <1>0, <1>2, Zenon DEF VpnConnect, RestOK
  <2>2. /\ events' \in Seq(Events) /\ todo \in 0 .. Len(events')
        /\ link = "down" => events' = <<>>
        /\ link # "down" => events' = Append(events, Ev("CONNECT", c))
        /\ \A d \in Cids \ {c} : /\ Told(events', vpn[d], d)
                                 /\ \A u : Has(events, u, d) => Has(events', u, d)
    BY <2>1, NotifyIs, Zenon
  <2>3. Told(events', "pending", c)
    <3>1. Told(events, "none", c)
      BY <1>0, <2>1, Zenon
    <3>2. Told(Append(events, Ev("CONNECT", c)), "pending", c) /\ Told(<<>>, "pending", c)
      BY <1>0, <3>1, NoEvents, ConnectTold, Zenon
    <3> QED BY <2>2, <3>2, Zenon
  <2>4. /\ HandlerOK' /\ RestOK' /\ EntryInv' /\ CidsKept
        /\ UNCHANGED <<link, snap, todo, cids>>
    BY <1>0, <1>1, <2>1, <2>2, Zenon DEF RestOK
  <2> QED BY <1>0, <2>1, <2>2, <2>3, <2>4, ClientStep, Zenon
<1>3. CASE VpnEstablish(c)
  <2>1. /\ vpn[c] = "authed" /\ vpn' = [vpn EXCEPT ![c] = "up"] /\ Notify("ESTABLISHED", c)
        /\ wasUp' \in SUBSET Cids
        /\ UNCHANGED <<proc, closing, now, expired, since, orphans, calm, handlerVars, bootVars>>
    BY <1>0, <1>3, Zenon DEF VpnEstablish, RestOK
  <2>2. /\ events' \in Seq(Events) /\ todo \in 0 .. Len(events')
        /\ link = "down" => events' = <<>>
        /\ link # "down" => events' = Append(events, Ev("ESTABLISHED", c))
        /\ \A d \in Cids \ {c} : /\ Told(events', vpn[d], d)
                                 /\ \A u : Has(events, u, d) => Has(events', u, d)
    BY <2>1, NotifyIs, Zenon
  <2>3. Told(events', "up", c) /\ (link # "down" => Has(events', "ESTABLISHED", c))
    <3>1. Told(events, "authed", c)
      BY <1>0, <2>1, Zenon
    <3>2. /\ Told(Append(events, Ev("ESTABLISHED", c)), "up", c) /\ Told(<<>>, "up", c)
          /\ Has(Append(events, Ev("ESTABLISHED", c)), "ESTABLISHED", c)
      BY <1>0, <3>1, NoEvents, EstablishTold, Zenon
    <3> QED BY <2>2, <3>2, Zenon
  <2>4. /\ HandlerOK' /\ RestOK' /\ EntryInv' /\ CidsKept
        /\ UNCHANGED <<link, snap, todo, cids>>
    BY <1>0, <1>1, <2>1, <2>2, Zenon DEF RestOK
  <2>5. /\ c \notin orphans => "tracked" \in cids[c]
        /\ link = "snapped" => snap[c] # "absent"
    BY <1>0, <2>1, Zenon DEF RebuildInv, UpInv, SnapInv
  <2> QED BY <1>0, <2>1, <2>2, <2>3, <2>4, <2>5, ClientStep, Zenon
<1>4. CASE VpnLeave(c)
  <2>1. /\ vpn' = [vpn EXCEPT ![c] = "gone"] /\ Notify("DISCONNECT", c)
        /\ closing' \in SUBSET Cids /\ expired' \in SUBSET Cids
        /\ orphans' = orphans \ {c} /\ orphans' \in SUBSET Cids
        /\ UNCHANGED <<proc, now, since, wasUp, calm, handlerVars, bootVars>>
    BY <1>0, <1>4, Zenon DEF VpnLeave, RestOK
  <2>2. /\ events' \in Seq(Events) /\ todo \in 0 .. Len(events')
        /\ link = "down" => events' = <<>>
        /\ link # "down" => events' = Append(events, Ev("DISCONNECT", c))
        /\ \A d \in Cids \ {c} : /\ Told(events', vpn[d], d)
                                 /\ \A u : Has(events, u, d) => Has(events', u, d)
    BY <2>1, NotifyIs, Zenon
  <2>3. Told(events', "gone", c) /\ (link # "down" => Has(events', "DISCONNECT", c))
    BY <1>0, <2>1, <2>2, NoEvents, LeaveTold, Zenon
  <2>4. /\ HandlerOK' /\ RestOK' /\ EntryInv' /\ CidsKept
        /\ UNCHANGED <<link, snap, todo, cids>>
    BY <1>0, <1>1, <2>1, <2>2, Zenon DEF RestOK
  <2> QED BY <1>0, <2>1, <2>2, <2>3, <2>4, ClientStep, Zenon
<1> QED BY <1>2, <1>3, <1>4, Zenon

-----------------------------------------------------------------------------
(* The connection goes, and comes back. *)

LEMMA DownStep ==
    ASSUME HandlerOK', RestOK', EntryInv', link' = "down", events' = <<>>, todo' = 0,
           \A c \in Cids \ orphans' : vpn'[c] = "authed" => "tracked" \in cids'[c]
    PROVE  RebuildInv'
<1>1. "down" \notin Caught /\ "down" # "snapped"
  BY DEF Caught
<1>2. EventInv'
  BY NoEvents, Zenon DEF EventInv
<1>3. StaleInv' /\ UpInv' /\ SnapInv'
  BY <1>1, Zenon DEF StaleInv, UpInv, SnapInv
<1> QED BY <1>2, <1>3, TypeParts, Zenon DEF RebuildInv

LEMMA LinkDownIs ==
    ASSUME RestOK, LinkDown
    PROVE  /\ losses' \in 0 .. MaxLosses /\ link' = "down" /\ events' = <<>> /\ todo' = 0
           /\ link' \in {"down", "boot", "snapped", "replay", "live"}
           /\ evictions' \in SUBSET Cids /\ snap' \in [Cids -> Rows]
           /\ events' \in Seq(Events) /\ todo' \in 0 .. Len(events')
<1>1. losses' \in 0 .. MaxLosses
  BY RebuildAssumption DEF RebuildAssumption, RestOK, LinkDown
<1>2. "absent" \in Rows
  BY DEF Rows
<1>3. <<>> \in Seq(Events) /\ 0 \in 0 .. Len(<<>>)
  OBVIOUS
<1> QED BY <1>1, <1>2, <1>3, Zenon DEF LinkDown

\* The connection goes between an establishment and the kill that follows it.
LEMMA CutStep ==
    ASSUME RebuildInv, LinkDown, NEW k, Sane(k), Kept(Handler, k), Becomes(k),
           calm' \in BOOLEAN, UNCHANGED <<lifeVars, closing>>
    PROVE  RebuildInv'
<1>0. HandlerOK /\ RestOK /\ EntryInv
  BY TypeParts, Zenon DEF RebuildInv
<1>1. /\ losses' \in 0 .. MaxLosses /\ link' = "down" /\ events' = <<>> /\ todo' = 0
      /\ link' \in {"down", "boot", "snapped", "replay", "live"}
      /\ evictions' \in SUBSET Cids /\ snap' \in [Cids -> Rows]
      /\ events' \in Seq(Events) /\ todo' \in 0 .. Len(events')
  BY <1>0, LinkDownIs, Zenon
<1>2. HandlerOK' /\ EntryInv' /\ CidsKept
  BY <1>0, BecomesKept, Zenon
<1>3. RestOK' /\ UNCHANGED <<vpn, orphans>>
  BY <1>0, <1>1, Zenon DEF lifeVars, RestOK
<1>4. ASSUME NEW c \in Cids \ orphans, vpn[c] = "authed" PROVE "tracked" \in cids'[c]
  <2>1. "tracked" \in cids[c]
    BY <1>4, Zenon DEF RebuildInv, UpInv
  <2>2. vpn[c] \in Present
    BY <1>4 DEF Present
  <2> QED BY <1>2, <2>1, <2>2, Zenon DEF CidsKept
<1> QED BY <1>1, <1>2, <1>3, <1>4, DownStep, Zenon

LEMMA EventCutStep == ASSUME RebuildInv, EventCut PROVE RebuildInv'
<1> DEFINE e == Head(events)
           old == attempt[Identity(e.cid)]
<1>0. /\ HandlerOK /\ RestOK /\ EntryInv /\ Sane(Handler) /\ calm \in BOOLEAN
      /\ events \in Seq(Events) /\ events # <<>> /\ LinkDown
      /\ UNCHANGED <<vpnVars, closing>> /\ TRUE \in BOOLEAN /\ FALSE \in BOOLEAN
  BY TypeParts, HandlerIs, Zenon DEF RebuildInv, RestOK, EventCut
<1>1. e.cid \in Cids
  <2>1. e \in Events
    BY <1>0, Shapes, Zenon
  <2> HIDE DEF e
  <2> QED BY <2>1 DEF Events
<1>2. \/ Becomes(TakeOver(Promote(Handler, e.cid), e.cid, FALSE))
      \/ old # None /\ Becomes(TakeOver(Handler, old, TRUE))
  BY Zenon DEF EventCut
<1>3. old \in OptCid
  BY <1>0, <1>1, Constants, Zenon DEF HandlerOK, RestOK, Identity
<1> HIDE DEF e, old
<1>4. calm' \in BOOLEAN /\ UNCHANGED <<lifeVars, closing>>
  BY <1>0, Zenon DEF vpnVars
<1>5. CASE Becomes(TakeOver(Promote(Handler, e.cid), e.cid, FALSE))
  <2> DEFINE h == Promote(Handler, e.cid)
  <2>1. Sane(h) /\ Kept(Handler, h)
    BY <1>0, <1>1, PromoteIs, Zenon
  <2> HIDE DEF h
  <2>2. Sane(TakeOver(h, e.cid, FALSE)) /\ Kept(h, TakeOver(h, e.cid, FALSE))
    BY <1>0, <1>1, <2>1, TakeOverIs, Zenon
  <2>3. Kept(Handler, TakeOver(h, e.cid, FALSE)) /\ Becomes(TakeOver(h, e.cid, FALSE))
    BY <1>5, <2>1, <2>2, KeptTwice, Zenon DEF h
  <2> QED BY <1>0, <1>4, <2>2, <2>3, CutStep, Zenon
<1>6. CASE old # None /\ Becomes(TakeOver(Handler, old, TRUE))
  <2>1. old \in Cids
    BY <1>3, <1>6, Zenon DEF OptCid
  <2>2. Sane(TakeOver(Handler, old, TRUE)) /\ Kept(Handler, TakeOver(Handler, old, TRUE))
    BY <1>0, <2>1, TakeOverIs, Zenon
  <2> QED BY <1>0, <1>4, <1>6, <2>2, CutStep, Zenon
<1> QED BY <1>2, <1>5, <1>6, Zenon

LEMMA DeadlineCutStep ==
    ASSUME RebuildInv, NEW c \in Cids, DeadlineCut(c) PROVE RebuildInv'
<1> DEFINE f == cids[c] \ {"deadline"}
           g == [Handler EXCEPT !.cids[c] = f]
<1>0. /\ HandlerOK /\ EntryInv /\ Sane(Handler) /\ calm \in BOOLEAN /\ Handler.cids = cids
      /\ LinkDown /\ UNCHANGED <<lifeVars, closing>> /\ TRUE \in BOOLEAN
  BY TypeParts, HandlerIs, Zenon DEF RebuildInv, RestOK, DeadlineCut
<1>1. calm' \in BOOLEAN
  BY <1>0, Zenon DEF DeadlineCut
<1>2. \/ Becomes(TakeOver(g, c, TRUE))
      \/ Becomes(TakeOver(Without(<<"deadline", c>>), c, TRUE))
  BY <1>0, Zenon DEF DeadlineCut
<1>3. Sane(g) /\ Kept(Handler, g)
  <2>1. f \in SUBSET Flags /\ Handler.cids[c] = cids[c]
    BY <1>0, Zenon DEF HandlerOK
  <2>2. /\ cids[c] \cap {"tracked", "established"} \subseteq f
        /\ f # {} => cids[c] # {} /\ "tracked" \in f
    <3>1. "tracked" # "deadline" /\ "established" # "deadline"
      OBVIOUS
    <3> QED BY <1>0, <3>1, Zenon DEF EntryInv
  <2> HIDE DEF f
  <2> QED BY <1>0, <2>1, <2>2, EntrySane, Zenon
<1>4. Sane(Without(<<"deadline", c>>)) /\ Kept(Handler, Without(<<"deadline", c>>))
  BY <1>0, WithoutIs, Zenon
<1> HIDE DEF g
<1>5. ASSUME NEW h, Sane(h), Kept(Handler, h), Becomes(TakeOver(h, c, TRUE)) PROVE RebuildInv'
  <2>1. Sane(TakeOver(h, c, TRUE)) /\ Kept(h, TakeOver(h, c, TRUE))
    BY <1>0, <1>5, TakeOverIs, Zenon
  <2>2. Kept(Handler, TakeOver(h, c, TRUE))
    BY <1>5, <2>1, KeptTwice, Zenon
  <2> QED BY <1>0, <1>1, <1>5, <2>1, <2>2, CutStep, Zenon
<1> QED BY <1>2, <1>3, <1>4, <1>5, Zenon

LEMMA LossStep ==
    ASSUME RebuildInv, LinkLost \/ VpnRestart \/ DaemonRestart PROVE RebuildInv'
<1>0. HandlerOK /\ RestOK /\ EntryInv
  BY TypeParts, Zenon DEF RebuildInv
<1>1. /\ losses' \in 0 .. MaxLosses /\ link' = "down" /\ events' = <<>> /\ todo' = 0
      /\ link' \in {"down", "boot", "snapped", "replay", "live"}
      /\ evictions' \in SUBSET Cids /\ snap' \in [Cids -> Rows]
      /\ events' \in Seq(Events) /\ todo' \in 0 .. Len(events')
  BY <1>0, LinkDownIs, Zenon DEF LinkLost, VpnRestart, DaemonRestart
<1>2. CASE LinkLost
  <2>1. UNCHANGED <<vpnVars, closing, handlerVars>>
    BY <1>2, Zenon DEF LinkLost
  <2>2. HandlerOK' /\ EntryInv' /\ UNCHANGED <<vpn, cids, orphans>>
    BY <1>0, <2>1, Zenon DEF handlerVars, vpnVars, lifeVars, HandlerOK, EntryInv
  <2>3. RestOK'
    BY <1>0, <1>1, <2>1, Zenon DEF vpnVars, lifeVars, RestOK
  <2> QED BY <1>1, <2>2, <2>3, DownStep, Zenon DEF RebuildInv, UpInv
<1>3. CASE VpnRestart
  <2>1. proc' \in Procs
    BY <1>0, <1>3, RebuildAssumption DEF RestOK, VpnRestart, Procs, RebuildAssumption
  <2>2. 0 \in 0 .. MaxTime
    BY RebuildAssumption DEF RebuildAssumption
  <2>3. /\ vpn' = [c \in Cids |-> "none"] /\ since' = [c \in Cids |-> 0]
        /\ closing' = {} /\ expired' = {} /\ wasUp' = {} /\ orphans' = {}
        /\ calm' = FALSE /\ UNCHANGED <<now, handlerVars>>
    BY <1>3, Zenon DEF VpnRestart
  <2>4. HandlerOK' /\ EntryInv'
    BY <1>0, <2>3, Zenon DEF handlerVars, HandlerOK, EntryInv
  <2>5. RestOK'
    BY <1>0, <1>1, <2>1, <2>2, <2>3, Zenon DEF RestOK
  <2>6. \A c \in Cids : vpn'[c] # "authed"
    <3>1. "none" # "authed"
      OBVIOUS
    <3> QED BY <2>3, <3>1, Zenon
  <2> QED BY <1>1, <2>4, <2>5, <2>6, DownStep, Zenon
<1>4. CASE DaemonRestart
  <2>1. /\ cids' = [c \in Cids |-> {}] /\ timers' = {}
        /\ born' = [c \in Cids |-> 0] /\ lost' = {}
        /\ attempt' = [i \in Identities |-> None]
        /\ active' = [i \in Identities |-> None]
        /\ orphans' = orphans \cup {c \in Cids : vpn[c] \in {"pending", "authed"}}
        /\ calm' = FALSE /\ UNCHANGED <<proc, vpn, since, now, expired, wasUp, closing>>
    BY <1>4, Zenon DEF DaemonRestart
  <2>2. HandlerOK' /\ EntryInv'
    BY <2>1, Constants, Zenon DEF HandlerOK, EntryInv, OptCid
  <2>3. RestOK'
    BY <1>0, <1>1, <2>1, Zenon DEF RestOK
  <2>4. \A c \in Cids \ orphans' : vpn'[c] # "authed"
    BY <2>1, Zenon
  <2> QED BY <1>1, <2>2, <2>3, <2>4, DownStep, Zenon
<1> QED BY <1>2, <1>3, <1>4, Zenon

LEMMA RowIs ==
    ASSUME NEW c \in Cids, vpn \in [Cids -> Present \cup {"none", "gone"}]
    PROVE  /\ Row(c) \in Rows
           /\ vpn[c] \notin Present => Row(c) = "absent"
           /\ vpn[c] = "up" => Row(c) = "established"
           /\ vpn[c] \in {"authed", "up"} => Row(c) # "absent"
<1>1. vpn[c] \in {"pending", "authed", "up", "none", "gone"}
  BY Zenon DEF Present
<1> QED BY <1>1 DEF Row, Rows, Present

LEMMA DialStep == ASSUME RebuildInv, Dial \/ BootStatus \/ BootDone PROVE RebuildInv'
<1>0. HandlerOK /\ RestOK /\ EntryInv
  BY TypeParts, Zenon DEF RebuildInv
<1>1. /\ UNCHANGED <<vpnVars, closing, events, handlerVars, losses, todo, evictions>>
      /\ link' \in {"boot", "snapped", "live"} /\ snap' \in [Cids -> Rows]
  <2>1. "absent" \in Rows
    BY DEF Rows
  <2>2. \A c \in Cids : Row(c) \in Rows
    BY <1>0, RowIs, Zenon DEF RestOK
  <2> QED BY <1>0, <2>1, <2>2, Zenon DEF Dial, BootStatus, BootDone, RestOK
<1>2. HandlerOK' /\ EntryInv' /\ UNCHANGED <<vpn, cids, orphans, events, todo>>
  BY <1>0, <1>1, Zenon DEF handlerVars, vpnVars, lifeVars, HandlerOK, EntryInv
<1>3. RestOK'
  BY <1>0, <1>1, Zenon DEF vpnVars, lifeVars, RestOK
<1>4. EventInv'
  <2>1. "down" \notin {"boot", "snapped", "live"}
    OBVIOUS
  <2> QED BY <1>1, <1>2, <2>1, Zenon DEF RebuildInv, EventInv
<1>5. CASE Dial
  <2>1. link' = "boot" /\ "boot" \notin Caught \cup {"snapped", "live"}
    BY <1>5 DEF Dial, Caught
  <2>2. StaleInv' /\ UpInv' /\ SnapInv'
    BY <1>2, <2>1, Zenon DEF RebuildInv, StaleInv, UpInv, SnapInv
  <2> QED BY <1>2, <1>3, <1>4, <2>1, <2>2, TypeParts, Zenon DEF RebuildInv
<1>6. CASE BootStatus
  <2>1. link' = "snapped" /\ "snapped" \notin Caught \cup {"live"}
    BY <1>6 DEF BootStatus, Caught
  <2>2. \A c \in Cids : /\ vpn[c] \notin Present => snap'[c] = "absent"
                        /\ vpn[c] = "up" => snap'[c] = "established"
                        /\ vpn[c] \in {"authed", "up"} => snap'[c] # "absent"
    <3>1. \A c \in Cids : snap'[c] = Row(c)
      BY <1>6, Zenon DEF BootStatus
    <3> QED BY <1>0, <3>1, RowIs, Zenon DEF RestOK
  <2>3. StaleInv' /\ UpInv' /\ SnapInv'
    BY <1>2, <2>1, <2>2, Zenon DEF RebuildInv, StaleInv, UpInv, SnapInv
  <2> QED BY <1>2, <1>3, <1>4, <2>1, <2>3, TypeParts, Zenon DEF RebuildInv
<1>7. CASE BootDone
  <2>1. link = "replay" /\ link' = "live" /\ todo = 0 /\ "live" # "snapped" /\ "replay" \in Caught
    BY <1>7 DEF BootDone, Caught
  <2>2. StaleInv' /\ UpInv' /\ SnapInv'
    BY <1>2, <2>1, Zenon DEF RebuildInv, StaleInv, UpInv, SnapInv
  <2> QED BY <1>2, <1>3, <1>4, <2>1, <2>2, TypeParts, Zenon DEF RebuildInv
<1> QED BY <1>5, <1>6, <1>7, Zenon

LEMMA RebuildStep == ASSUME RebuildInv, RebuildSessionTracking PROVE RebuildInv'
<1> DEFINE h == Drop(Handler, Stale)
           k == Restore(h)
<1>0. /\ HandlerOK /\ RestOK /\ EntryInv /\ proc \in Procs /\ MaxSessionDuration \in BOOLEAN
      /\ Sane(Handler) /\ Handler \in HandlerType /\ Handler.cids = cids
  BY TypeParts, HandlerIs, RebuildAssumption, Zenon DEF RebuildInv, RestOK, RebuildAssumption, Sane
<1>1. \A c \in Cids : /\ snap[c] = "absent" => h.cids[c] = {}
                      /\ snap[c] # "absent" => h.cids[c] = cids[c]
  <2>1. \A c \in Cids : /\ c \in Stale => h.cids[c] = {}
                        /\ c \notin Stale => h.cids[c] = Handler.cids[c]
    BY <1>0, DropIs, Zenon
  <2>2. \A c \in Cids : c \in Stale <=> snap[c] = "absent"
    BY Zenon DEF Stale
  <2> QED BY <1>0, <2>1, <2>2, Zenon
<1>2. Sane(h)
  BY <1>0, <1>1, DropIs, Zenon DEF Sane, EntryInv
<1> HIDE DEF h
<1>3. /\ Sane(k)
      /\ \A c \in Cids : /\ snap[c] = "established" =>
                               {"tracked", "established"} \subseteq k.cids[c]
                         /\ snap[c] # "established" => k.cids[c] = h.cids[c]
  BY <1>0, <1>2, RestoreIs, Zenon
<1>4. /\ link = "snapped" /\ link' = "replay" /\ todo' = Len(events) /\ evictions' = Evictions
      /\ Becomes(k) /\ UNCHANGED <<vpnVars, closing, events, losses>>
      /\ snap' = [c \in Cids |-> "absent"]
  BY Zenon DEF RebuildSessionTracking, Buffered, h
<1> HIDE DEF k
<1>5. HandlerOK' /\ EntryInv' /\ cids' = k.cids
  BY <1>3, <1>4, BecomesIs, Zenon
<1>6. RestOK'
  <2>1. Len(events) \in 0 .. Len(events)
    BY <1>0 DEF RestOK
  <2>2. Evictions \in SUBSET Cids
    BY <1>0, Zenon DEF Evictions, Losers, RestOK
  <2>3. "absent" \in Rows
    BY DEF Rows
  <2> QED BY <1>0, <1>4, <2>1, <2>2, <2>3, Zenon DEF vpnVars, lifeVars, RestOK
<1>7. UNCHANGED <<vpn, orphans, events>> /\ "replay" \notin {"down", "snapped", "live"}
  BY <1>4 DEF vpnVars, lifeVars
<1>8. EventInv'
  BY <1>4, <1>7, Zenon DEF RebuildInv, EventInv
<1>9. StaleInv'
  <2>1. \A c \in Cids : cids'[c] # {} => snap[c] # "absent"
    <3>1. "absent" # "established"
      OBVIOUS
    <3> QED BY <1>1, <1>3, <1>5, <3>1, Zenon
  <2> QED BY <1>4, <1>7, <2>1, Zenon DEF RebuildInv, StaleInv
<1>10. UpInv'
  <2>1. \A c \in Cids : /\ snap[c] # "absent" /\ "tracked" \in cids[c] => "tracked" \in cids'[c]
                        /\ snap[c] = "established" => "established" \in cids'[c]
    BY <1>1, <1>3, <1>5, Zenon
  <2>2. ASSUME NEW c \in Cids \ orphans
        PROVE  /\ vpn[c] = "authed" => "tracked" \in cids'[c]
               /\ vpn[c] = "up" => \/ "established" \in cids'[c]
                                   \/ Has(events, "ESTABLISHED", c) /\ "tracked" \in cids'[c]
    BY <1>4, <2>1, Zenon DEF RebuildInv, UpInv, SnapInv
  <2> QED BY <1>4, <1>7, <2>2, Zenon DEF UpInv
<1>11. SnapInv' /\ (link' = "live" => todo' = 0)
  BY <1>4, <1>7, Zenon DEF SnapInv
<1> QED BY <1>5, <1>6, <1>8, <1>9, <1>10, <1>11, TypeParts, Zenon DEF RebuildInv

-----------------------------------------------------------------------------
(* An event is handled. *)

\* The entries of the other clients are kept.
OthersKept(c) ==
    \A d \in Cids \ {c} :
        /\ cids'[d] # {} => cids[d] # {}
        /\ vpn[d] \in Present => cids[d] \cap {"tracked", "established"} \subseteq cids'[d]

LEMMA AdmitStep ==
    ASSUME HandlerOK, RestOK, EntryInv, NEW h, Sane(h), Kept(Handler, h), NEW c \in Cids,
           Becomes(Admit(h, c))
    PROVE  HandlerOK' /\ EntryInv' /\ OthersKept(c) /\ "tracked" \in cids'[c]
<1>1. /\ Sane(Admit(h, c)) /\ "tracked" \in Admit(h, c).cids[c]
      /\ \A d \in Cids \ {c} : Admit(h, c).cids[d] = h.cids[d]
  BY AdmitIs, Zenon DEF RestOK
<1>2. HandlerOK' /\ EntryInv' /\ cids' = Admit(h, c).cids /\ Handler.cids = cids
  BY <1>1, BecomesIs, HandlerIs, Zenon
<1>3. OthersKept(c)
  <2>1. \A d \in Cids \ {c} : cids'[d] = h.cids[d]
    BY <1>1, <1>2, Zenon
  <2>2. \A d \in Cids :
            /\ h.cids[d] # {} => cids[d] # {}
            /\ vpn[d] \in Present => cids[d] \cap {"tracked", "established"} \subseteq h.cids[d]
    BY <1>2, Zenon DEF Kept
  <2> QED BY <2>1, <2>2, Zenon DEF OthersKept
<1> QED BY <1>1, <1>2, <1>3, Zenon

\* A CONNECT leaves what is tracked, or tracks its client.
LEMMA ConnectIs ==
    ASSUME HandlerOK, RestOK, EntryInv, NEW c \in Cids, HandleConnect(c)
    PROVE  /\ HandlerOK' /\ EntryInv' /\ closing' \in SUBSET Cids
           /\ CidsKept \/ (OthersKept(c) /\ "tracked" \in cids'[c])
<1> DEFINE old == attempt[Identity(c)]
           held == IF old = None THEN {} ELSE cids[old]
<1>0. /\ Sane(Handler) /\ Handler \in HandlerType /\ closing \in SUBSET Cids
      /\ {} \in SUBSET Cids /\ {c} \in SUBSET Cids /\ Kept(Handler, Handler)
  BY HandlerIs, Zenon DEF RestOK, Sane, Kept
<1>1. old \in OptCid
  BY Constants, Zenon DEF HandlerOK, RestOK, Identity
<1>2. held # {} => old \in Cids
  BY <1>1, Zenon DEF OptCid
<1>3. \/ UNCHANGED handlerVars /\ (Close({}) \/ Close({c}))
      \/ Becomes(Admit(Handler, c)) /\ Close({})
      \/ held # {} /\ Becomes(Admit(ClearInFlight(Handler, old), c)) /\ Close(Pending({old}))
      \/ /\ held # {} /\ vpn[old] \notin Present
         /\ Becomes(Admit(CleanupPromoted(Handler, old), c)) /\ Close({})
      \/ /\ held # {} /\ Becomes(Establish(Handler, old, TRUE))
         /\ Close({c} \cup Replaced(Handler, old))
  BY Zenon DEF HandleConnect
<1> HIDE DEF old, held
<1>4. CASE UNCHANGED handlerVars /\ (Close({}) \/ Close({c}))
  <2>1. HandlerOK' /\ EntryInv' /\ UNCHANGED cids
    BY <1>4, Zenon DEF handlerVars, HandlerOK, EntryInv
  <2> QED BY <1>0, <1>4, <2>1, SameCids, CloseType, Zenon
<1>5. CASE Becomes(Admit(Handler, c)) /\ Close({})
  BY <1>0, <1>5, AdmitStep, CloseType, Zenon
<1>6. CASE held # {} /\ Becomes(Admit(ClearInFlight(Handler, old), c)) /\ Close(Pending({old}))
  <2>1. Sane(ClearInFlight(Handler, old)) /\ Kept(Handler, ClearInFlight(Handler, old))
    BY <1>0, <1>2, <1>6, ClearIs, Zenon
  <2>2. Pending({old}) \in SUBSET Cids
    BY <1>2, <1>6, Zenon DEF Pending
  <2> QED BY <1>0, <1>6, <2>1, <2>2, AdmitStep, CloseType, Zenon
<1>7. CASE /\ held # {} /\ vpn[old] \notin Present
           /\ Becomes(Admit(CleanupPromoted(Handler, old), c)) /\ Close({})
  <2>1. Sane(CleanupPromoted(Handler, old)) /\ Kept(Handler, CleanupPromoted(Handler, old))
    BY <1>0, <1>2, <1>7, CleanupIs, Zenon
  <2> QED BY <1>0, <1>7, <2>1, AdmitStep, CloseType, Zenon
<1>8. CASE /\ held # {} /\ Becomes(Establish(Handler, old, TRUE))
           /\ Close({c} \cup Replaced(Handler, old))
  <2>1. Sane(Establish(Handler, old, TRUE)) /\ Kept(Handler, Establish(Handler, old, TRUE))
    BY <1>0, <1>2, <1>8, EstablishIs, Zenon
  <2>2. {c} \cup Replaced(Handler, old) \in SUBSET Cids
    BY <1>0, <1>2, <1>8, ReplacedType, Zenon
  <2> QED BY <1>0, <1>8, <2>1, <2>2, BecomesKept, CloseType, Zenon
<1> QED BY <1>3, <1>4, <1>5, <1>6, <1>7, <1>8, Zenon

\* The first event is gone: what the invariant says of its client c holds
\* without it.
LEMMA EventStep ==
    ASSUME RebuildInv, HandlerOK', RestOK', EntryInv', link \in Caught, events # <<>>,
           events' = Tail(events), UNCHANGED <<vpn, link, snap, orphans>>,
           link = "live" => todo' = 0,
           NEW c \in Cids, Head(events).cid = c, OthersKept(c),
           vpn[c] \notin Present /\ cids'[c] # {} => Has(events', "DISCONNECT", c),
           vpn[c] = "authed" /\ c \notin orphans => "tracked" \in cids'[c],
           vpn[c] = "up" /\ c \notin orphans =>
               \/ "established" \in cids'[c]
               \/ Has(events', "ESTABLISHED", c) /\ "tracked" \in cids'[c]
    PROVE  RebuildInv'
<1>0. /\ events \in Seq(Events) /\ "authed" \in Present /\ "up" \in Present
      /\ "down" \notin Caught /\ "snapped" \notin Caught
  <2>1. /\ "authed" \in Present /\ "up" \in Present
        /\ "down" \notin Caught /\ "snapped" \notin Caught
    BY DEF Present, Caught
  <2> QED BY <2>1, TypeParts, Zenon DEF RebuildInv, RestOK
<1>1. \A d \in Cids \ {c} : \A t : Has(events, t, d) => Has(events', t, d)
  <2>1. \A d \in Cids \ {c} : \A t : Head(events) # Ev(t, d)
    BY DEF Ev
  <2> QED BY <1>0, <2>1, TailHas, Zenon
<1>2. EventInv'
  BY <1>0, TailTold, Zenon DEF RebuildInv, EventInv
<1>3. StaleInv'
  <2>1. ASSUME NEW d \in Cids, d # c, vpn[d] \notin Present, cids'[d] # {}
        PROVE  Has(events', "DISCONNECT", d)
    BY <1>1, <2>1, Zenon DEF RebuildInv, StaleInv, OthersKept
  <2> QED BY <1>0, <2>1, Zenon DEF StaleInv
<1>4. UpInv'
  <2>1. ASSUME NEW d \in Cids \ orphans, d # c
        PROVE  /\ vpn[d] = "authed" => "tracked" \in cids'[d]
               /\ vpn[d] = "up" => \/ "established" \in cids'[d]
                                   \/ Has(events', "ESTABLISHED", d) /\ "tracked" \in cids'[d]
    <3>1. vpn[d] \in Present => /\ "tracked" \in cids[d] => "tracked" \in cids'[d]
                                /\ "established" \in cids[d] => "established" \in cids'[d]
      BY <2>1, Zenon DEF OthersKept
    <3>2. Has(events, "ESTABLISHED", d) => Has(events', "ESTABLISHED", d)
      BY <1>1, <2>1, Zenon
    <3> QED BY <1>0, <2>1, <3>1, <3>2, Zenon DEF RebuildInv, UpInv
  <2>2. \A d \in Cids \ orphans :
           /\ vpn[d] = "authed" => "tracked" \in cids'[d]
           /\ vpn[d] = "up" => \/ "established" \in cids'[d]
                               \/ Has(events', "ESTABLISHED", d) /\ "tracked" \in cids'[d]
    BY <2>1, Zenon
  <2> QED BY <1>0, <2>2, Zenon DEF UpInv
<1>5. SnapInv' /\ (link' = "live" => todo' = 0)
  BY <1>0, Zenon DEF SnapInv
<1> QED BY <1>2, <1>3, <1>4, <1>5, TypeParts, Zenon DEF RebuildInv

LEMMA TakeStep == ASSUME RebuildInv, TakeEvent PROVE RebuildInv'
<1> DEFINE e == Head(events)
           c == e.cid
<1>0. /\ HandlerOK /\ RestOK /\ EntryInv /\ Sane(Handler) /\ Handler.cids = cids
      /\ Handler \in HandlerType /\ closing \in SUBSET Cids
      /\ events # <<>> /\ events' = Tail(events) /\ events \in Seq(Events)
      /\ HandleEvent(e) /\ UNCHANGED <<vpnVars, link, losses, snap, evictions>>
  BY TypeParts, HandlerIs, Zenon DEF RebuildInv, RestOK, TakeEvent, Sane
<1>1. /\ link \in Caught /\ UNCHANGED <<vpn, link, snap, orphans>>
  BY <1>0, Zenon DEF TakeEvent, Caught, vpnVars, lifeVars
<1>2. /\ e \in Events /\ e = events[1] /\ 1 \in 1 .. Len(events)
      /\ Len(events) \in Nat /\ Len(events') = Len(events) - 1 /\ events' \in Seq(Events)
  <2>1. /\ e \in Events /\ e = events[1] /\ Len(events) > 0
        /\ Len(events) \in Nat /\ Len(events') = Len(events) - 1 /\ events' \in Seq(Events)
    BY <1>0, Shapes, Zenon
  <2> HIDE DEF e
  <2> QED BY <2>1
<1>3. /\ c \in Cids /\ e = Ev(e.type, c)
      /\ e.type \in {"CONNECT", "ESTABLISHED", "DISCONNECT"}
      /\ \A t : Ev(t, c) = e => t = e.type
  <2> HIDE DEF e
  <2> QED BY <1>2 DEF Events, Ev
<1>4. todo' \in 0 .. Len(events') /\ (link = "live" => todo' = 0)
  <2>1. todo \in 0 .. Len(events) /\ (link = "live" => todo = 0)
    BY <1>0, Zenon DEF RestOK, RebuildInv
  <2>2. \/ link = "replay" /\ todo > 0 /\ todo' = todo - 1
        \/ link = "live" /\ todo' = todo
    BY Zenon DEF TakeEvent
  <2> QED BY <1>2, <2>1, <2>2
<1>5. ASSUME closing' \in SUBSET Cids PROVE RestOK'
  BY <1>0, <1>2, <1>4, <1>5, Zenon DEF RestOK, vpnVars, lifeVars
\* What is to come for c.
<1>6. ASSUME NEW t, Has(events, t, c), t # e.type PROVE Has(events', t, c)
  BY <1>0, <1>3, <1>6, TailHas, Zenon
<1>7. /\ vpn[c] \notin Present /\ e.type # "DISCONNECT" => Has(events', "DISCONNECT", c)
      /\ vpn[c] = "up" /\ e.type = "CONNECT" => Has(events', "ESTABLISHED", c)
      /\ e.type = "DISCONNECT" => vpn[c] \notin Present
  <2>1. Told(events, vpn[c], c) /\ events[1] = Ev(e.type, c) /\ events[1].cid = c
    BY <1>2, <1>3, Zenon DEF RebuildInv, EventInv
  <2>2. /\ vpn[c] \notin Present => From(events, 1, "DISCONNECT", c)
        /\ vpn[c] = "up" /\ e.type = "CONNECT" => From(events, 1, "ESTABLISHED", c)
        /\ e.type = "DISCONNECT" => vpn[c] \notin Present
    BY <1>2, <2>1, Zenon DEF Told, Has
  <2>3. "CONNECT" # "ESTABLISHED"
    OBVIOUS
  <2> QED BY <1>0, <1>6, <2>2, <2>3, TailHas, Zenon
<1>8. /\ vpn[c] = "authed" /\ c \notin orphans => "tracked" \in cids[c]
      /\ vpn[c] = "up" /\ c \notin orphans =>
            "established" \in cids[c] \/ (Has(events, "ESTABLISHED", c) /\ "tracked" \in cids[c])
      /\ "authed" \in Present /\ "up" \in Present
  <2>1. "authed" \in Present /\ "up" \in Present
    BY DEF Present
  <2> QED BY <1>1, <1>3, <2>1, Zenon DEF RebuildInv, UpInv
<1>9. ASSUME CidsKept
      PROVE  /\ OthersKept(c)
             /\ vpn[c] = "authed" /\ c \notin orphans => "tracked" \in cids'[c]
             /\ vpn[c] = "up" /\ c \notin orphans =>
                   "established" \in cids'[c] \/ "tracked" \in cids'[c]
             /\ vpn[c] = "up" => /\ "tracked" \in cids[c] => "tracked" \in cids'[c]
                                 /\ "established" \in cids[c] => "established" \in cids'[c]
  <2>1. vpn[c] \in Present => /\ "tracked" \in cids[c] => "tracked" \in cids'[c]
                              /\ "established" \in cids[c] => "established" \in cids'[c]
    BY <1>3, <1>9, Zenon DEF CidsKept
  <2>2. OthersKept(c)
    BY <1>9, Zenon DEF CidsKept, OthersKept
  <2> QED BY <1>8, <2>1, <2>2, Zenon
<1>10. CASE e.type = "CONNECT" /\ HandleConnect(c)
  <2>1. /\ HandlerOK' /\ EntryInv' /\ closing' \in SUBSET Cids
        /\ CidsKept \/ (OthersKept(c) /\ "tracked" \in cids'[c])
    BY <1>0, <1>3, <1>10, ConnectIs, Zenon
  <2>2. /\ vpn[c] \notin Present => Has(events', "DISCONNECT", c)
        /\ vpn[c] = "up" => Has(events', "ESTABLISHED", c)
    <3>1. "CONNECT" # "DISCONNECT"
      OBVIOUS
    <3> QED BY <1>7, <1>10, <3>1, Zenon
  <2>3. /\ OthersKept(c)
        /\ vpn[c] = "authed" /\ c \notin orphans => "tracked" \in cids'[c]
        /\ vpn[c] = "up" /\ c \notin orphans =>
              "established" \in cids'[c] \/ "tracked" \in cids'[c]
    BY <1>9, <2>1, Zenon
  <2> HIDE DEF c
  <2> QED BY <1>0, <1>1, <1>3, <1>4, <1>5, <2>1, <2>2, <2>3, EventStep, Zenon DEF c
<1>11. CASE /\ e.type = "ESTABLISHED"
            /\ Becomes(Establish(Promote(Handler, c), c, FALSE))
            /\ Close(Replaced(Promote(Handler, c), c))
  <2> DEFINE h == Promote(Handler, c)
             k == Establish(h, c, FALSE)
  <2>1. Sane(h) /\ Kept(Handler, h)
    BY <1>0, <1>3, PromoteIs, Zenon
  <2> HIDE DEF h
  <2>2. Sane(k) /\ Kept(h, k) /\ (h.cids[c] # {} => "established" \in k.cids[c])
    BY <1>3, <2>1, EstablishIs, Zenon
  <2>3. Becomes(k)
    BY <1>11, Zenon DEF h
  <2> HIDE DEF k
  <2>4. HandlerOK' /\ EntryInv' /\ CidsKept /\ cids' = k.cids
    BY <1>0, <2>1, <2>2, <2>3, KeptThrough, BecomesIs, Zenon
  <2>5. closing' \in SUBSET Cids
    <3>1. Replaced(h, c) \in SUBSET Cids /\ Close(Replaced(h, c))
      BY <1>3, <1>11, <2>1, ReplacedType, Zenon DEF Sane, h
    <3> QED BY <1>0, <3>1, CloseType, Zenon
  <2>6. vpn[c] \notin Present => Has(events', "DISCONNECT", c)
    <3>1. "ESTABLISHED" # "DISCONNECT"
      OBVIOUS
    <3> QED BY <1>7, <1>11, <3>1, Zenon
  <2>7. vpn[c] = "up" /\ "tracked" \in cids[c] => "established" \in cids'[c]
    BY <1>0, <1>3, <1>8, <2>1, <2>2, <2>4, Zenon DEF Kept
  <2>8. /\ OthersKept(c)
        /\ vpn[c] = "authed" /\ c \notin orphans => "tracked" \in cids'[c]
        /\ vpn[c] = "up" /\ c \notin orphans => "established" \in cids'[c]
    BY <1>8, <1>9, <2>4, <2>7, Zenon
  <2> QED BY <1>0, <1>1, <1>3, <1>4, <1>5, <2>4, <2>5, <2>6, <2>8, EventStep, Zenon
<1>12. CASE e.type = "DISCONNECT" /\ Becomes(Drop(Handler, {c})) /\ Close({})
  <2>1. vpn[c] \notin Present /\ vpn[c] \notin {"authed", "up"}
    BY <1>7, <1>8, <1>12, Zenon
  <2>2. Sane(Drop(Handler, {c})) /\ Kept(Handler, Drop(Handler, {c}))
    BY <1>0, <2>1, DropKept, Zenon
  <2>3. HandlerOK' /\ EntryInv' /\ CidsKept /\ cids' = Drop(Handler, {c}).cids
    BY <1>0, <1>12, <2>2, BecomesKept, BecomesIs, Zenon
  <2>4. cids'[c] = {}
    BY <1>0, <1>3, <2>3, DropIs, Zenon
  <2>5. closing' \in SUBSET Cids
    BY <1>0, <1>12, CloseType, Zenon
  <2> QED BY <1>0, <1>1, <1>3, <1>4, <1>5, <1>9, <2>1, <2>3, <2>4, <2>5, EventStep, Zenon
<1> QED BY <1>0, <1>10, <1>11, <1>12, Zenon DEF HandleEvent

-----------------------------------------------------------------------------
(* The theorems. *)

LEMMA RebuildInvInit == ASSUME Init PROVE RebuildInv
<1>1. HandlerOK /\ EntryInv
  BY Constants, Zenon DEF Init, HandlerOK, EntryInv, OptCid
<1>2. RestOK
  <2>1. 0 \in 0 .. MaxTime /\ 0 \in 0 .. MaxLosses /\ 0 \in 0 .. Len(<<>>) /\ <<>> \in Seq(Events)
    BY RebuildAssumption DEF RebuildAssumption
  <2>2. "absent" \in Rows /\ "none" \in Present \cup {"none", "gone"}
    BY DEF Rows
  <2> QED BY <2>1, <2>2, Constants, Zenon DEF Init, RestOK
<1>3. EventInv
  BY NoEvents, Zenon DEF Init, EventInv
<1>4. \A c \in Cids : cids[c] = {} /\ vpn[c] \notin {"authed", "up"}
  <2>1. "none" \notin {"authed", "up"}
    OBVIOUS
  <2> QED BY <2>1, Zenon DEF Init
<1>5. link = "live" /\ "live" # "snapped" /\ todo = 0
  BY DEF Init
<1>6. StaleInv /\ UpInv /\ SnapInv
  BY <1>4, <1>5, Zenon DEF StaleInv, UpInv, SnapInv
<1> QED BY <1>1, <1>2, <1>3, <1>5, <1>6, TypeParts, Zenon DEF RebuildInv

LEMMA RebuildInvStep == ASSUME RebuildInv, [Next]_vars PROVE RebuildInv'
<1>1. CASE UNCHANGED vars
  <2>1. HandlerOK /\ RestOK /\ EntryInv
    BY TypeParts, Zenon DEF RebuildInv
  <2>2. UNCHANGED <<handlerVars, vpnVars, bootVars, closing, events>>
    BY <1>1, Zenon DEF vars
  <2>3. HandlerOK' /\ EntryInv' /\ UNCHANGED cids
    BY <2>1, <2>2, Zenon DEF handlerVars, HandlerOK, EntryInv
  <2>4. RestOK' /\ UNCHANGED <<vpn, events, link, snap, todo, orphans>>
    BY <2>1, <2>2, Zenon DEF vpnVars, lifeVars, bootVars, RestOK
  <2> QED BY <2>3, <2>4, SameCids, QuietStep, Zenon
<1>2. CASE Tick \/ \E c \in Cids : Expire(c)
  BY <1>2, ClockStep, Zenon
<1>3. CASE LinkLost \/ DaemonRestart \/ VpnRestart \/ EventCut
  BY <1>3, LossStep, EventCutStep, Zenon
<1>4. CASE Boot
  BY <1>4, DialStep, RebuildStep, TakeStep, EvictionStep, Zenon DEF Boot
<1>5. ASSUME NEW c \in Cids,
             \/ VpnConnect(c) \/ VpnEstablish(c) \/ VpnLeave(c)
             \/ Authorize(c) \/ LostAuthorize(c)
             \/ AuthTimeout(c) \/ PromotedDeadline(c) \/ ExpiryFires(c)
             \/ LostTimeout(c) \/ LostDeadline(c) \/ LostExpiry(c) \/ DeadlineCut(c)
      PROVE  RebuildInv'
  BY <1>5, VpnStep, AuthorizeStep, TimersStep, DeadlineCutStep, Zenon
<1> QED BY <1>1, <1>2, <1>3, <1>4, <1>5, Zenon DEF Next

LEMMA RebuildInvAlways == Spec => []RebuildInv
<1>1. Init => RebuildInv
  BY RebuildInvInit
<1>2. RebuildInv /\ [Next]_vars => RebuildInv'
  BY RebuildInvStep
<1> QED BY <1>1, <1>2, PTL DEF Spec

\* handleConnection keeps its state well formed through any number of lost
\* connections and restarts: in particular it never expects to replay more
\* events than are buffered (todo).
THEOREM RebuildTypes == Spec => []TypeOK
<1>1. RebuildInv => TypeOK
  BY DEF RebuildInv
<1> QED BY <1>1, RebuildInvAlways, PTL

\* Whatever DISCONNECT is lost with a connection, and whenever the status of the
\* bootstrap is taken, a daemon that has caught up
\* (RebuildSessionTrackingFromSnapshot and the replay) tracks no client that
\* OpenVPN does not have.
THEOREM StaleAlwaysReclaimed == Spec => []StaleReclaimed
<1>1. ASSUME RebuildInv PROVE StaleReclaimed
  <2> SUFFICES ASSUME Quiet, NEW c \in Cids, cids[c] # {}, vpn[c] \notin Present
               PROVE  FALSE
    BY Zenon DEF StaleReclaimed
  <2>1. link \in Caught /\ events = <<>>
    BY Zenon DEF Quiet, Caught
  <2>2. Has(events, "DISCONNECT", c)
    BY <1>1, <2>1, Zenon DEF RebuildInv, StaleInv
  <2>3. \A i \in 1 .. Len(events) : FALSE
    BY <2>1
  <2> QED BY <2>2, <2>3, Zenon DEF Has
<1> QED BY <1>1, RebuildInvAlways, PTL

\* ... and tracks as established every client that is, whether its ESTABLISHED
\* was lost, replayed after a status that showed it, or handled as it came; but
\* for the clients that had no entry when they were authorized.
THEOREM UpAlwaysTracked == Spec => []UpIsTracked
<1>1. ASSUME RebuildInv PROVE UpIsTracked
  <2> SUFFICES ASSUME Quiet, NEW c \in Cids \ orphans, vpn[c] = "up",
                      "established" \notin cids[c]
               PROVE  FALSE
    BY Zenon DEF UpIsTracked
  <2>1. link \in Caught /\ events = <<>>
    BY Zenon DEF Quiet, Caught
  <2>2. Has(events, "ESTABLISHED", c)
    BY <1>1, <2>1, Zenon DEF RebuildInv, UpInv
  <2>3. \A i \in 1 .. Len(events) : FALSE
    BY <2>1
  <2> QED BY <2>2, <2>3, Zenon DEF Has
<1> QED BY <1>1, RebuildInvAlways, PTL

-----------------------------------------------------------------------------
(* The handler's state, in the order of the clients. *)

\* While there has been no restart and no fault: the daemon and OpenVPN have run
\* on, every response has arrived and the event loop has kept up with the
\* callbacks.

\* The identity of a client of the first process.
Id(c) == IdentityOf[0][c]

\* Clients that have got anywhere, and those with a newer one established.
Past(h) == wasUp \cup {c \in Cids : h.cids[c] # {}}
Newer(c) == \E d \in wasUp : Id(d) = Id(c) /\ d > c

\* An entry authenticates, is promoted or is established, the latter only if
\* its client has been.  A client that authenticates or is promoted is the
\* attempt of its identity.
Entry(h, c) ==
    /\ "failed" \notin h.cids[c]
    /\ "cancel" \in h.cids[c] => c \notin wasUp /\ "promoted" \notin h.cids[c]
    /\ "established" \in h.cids[c] => c \in wasUp /\ "promoted" \notin h.cids[c]
    /\ c \in wasUp /\ h.cids[c] # {} => "promoted" \in h.cids[c] \/ "established" \in h.cids[c]
    /\ "cancel" \in h.cids[c] \/ "promoted" \in h.cids[c] => h.attempt[Id(c)] = c

\* The attempt is the newest client of its identity, the active one has been
\* established.
Index(h, i) ==
    /\ h.attempt[i] # None => /\ Id(h.attempt[i]) = i
                              /\ \A d \in Past(h) : Id(d) = i => d <= h.attempt[i]
    /\ h.active[i] # None => h.active[i] \in wasUp /\ Id(h.active[i]) = i

Ordered(h) ==
    /\ h.lost = {} /\ h.timers \subseteq wasUp
    /\ \A c \in Cids : Entry(h, c)
    /\ \A c \in Cids : h.born[c] = 0
    /\ \A i \in Identities : Index(h, i)

\* A client that is established already when its ESTABLISHED comes is the
\* active one, and none of its identity is about to follow.
Late(h) ==
    \A c \in Cids : Has(events, "ESTABLISHED", c) /\ "established" \in h.cids[c] =>
        /\ h.active[Id(c)] = c
        /\ \A d \in Cids : Id(d) = Id(c) => "promoted" \notin h.cids[d]

\* k is h without some entries, and without the end of some authentications.
Shrinks(h, k) ==
    /\ k.lost = h.lost /\ k.timers \subseteq h.timers
    /\ \A c \in Cids :
        /\ k.cids[c] \subseteq h.cids[c]
        /\ k.cids[c] # {} => h.cids[c] \cap {"promoted", "established"} \subseteq k.cids[c]
        /\ "cancel" \in k.cids[c] \/ "promoted" \in k.cids[c] =>
              (h.attempt[Id(c)] = c => k.attempt[Id(c)] = c)
        /\ k.cids[c] # {} => (h.active[Id(c)] = c => k.active[Id(c)] = c)
        /\ k.born[c] = 0 \/ k.born[c] = h.born[c]
    /\ \A i \in Identities : /\ (k.attempt[i] = None \/ k.attempt[i] = h.attempt[i])
                             /\ (k.active[i] = None \/ k.active[i] = h.active[i])

LEMMA IdIs == \A c \in Cids : Id(c) \in Identities
  BY Constants, Zenon DEF Id

LEMMA DropShrinks ==
    ASSUME NEW h \in HandlerType, NEW T
    PROVE  Shrinks(h, Drop(h, T)) /\ Drop(h, T).born \in [Cids -> Procs]
<1> DEFINE S == {c \in T : h.cids[c] # {}}
           f == [c \in Cids |-> IF c \in S THEN {} ELSE h.cids[c]]
           a == Forget(h, h.attempt, S)
           b == Forget(h, h.active, S)
           p == [c \in Cids |-> IF c \in S THEN 0 ELSE h.born[c]]
           t == h.timers \ S
           k == Drop(h, T)
<1>1. /\ h.cids \in [Cids -> SUBSET Flags] /\ h.attempt \in [Identities -> OptCid]
      /\ h.active \in [Identities -> OptCid] /\ h.born \in [Cids -> Procs]
  BY Fields, Zenon
<1>2. \A c \in Cids : (f[c] = h.cids[c] /\ c \notin S) \/ f[c] = {}
  BY Zenon
<1>3. \A i \in Identities : /\ a[i] = None \/ a[i] = h.attempt[i]
                            /\ h.attempt[i] \notin S => a[i] = h.attempt[i]
                            /\ b[i] = None \/ b[i] = h.active[i]
                            /\ h.active[i] \notin S => b[i] = h.active[i]
  <2> HIDE DEF S
  <2> QED BY Zenon DEF Forget
<1>4. k = [h EXCEPT !.cids = f, !.attempt = a, !.active = b, !.born = p, !.timers = t]
  BY Zenon DEF Drop
<1>5. /\ p \in [Cids -> Procs] /\ t \subseteq h.timers
      /\ \A c \in Cids : p[c] = 0 \/ p[c] = h.born[c]
  BY <1>1, Constants, Zenon
<1> HIDE DEF S, f, a, b, p, t, k
<1>6. /\ k.cids = f /\ k.attempt = a /\ k.active = b /\ k.timers = t /\ k.lost = h.lost
      /\ k.born = p
  BY <1>4, Zenon DEF HandlerType
<1>7. \A c \in Cids :
        /\ f[c] \subseteq h.cids[c]
        /\ f[c] # {} => h.cids[c] \cap {"promoted", "established"} \subseteq f[c]
        /\ f[c] # {} => c \notin S
  BY <1>2, Zenon
<1>8. \A c \in Cids : c \notin S => /\ h.attempt[Id(c)] = c => a[Id(c)] = c
                                    /\ h.active[Id(c)] = c => b[Id(c)] = c
  BY <1>3, IdIs, Zenon
<1>9. Shrinks(h, k)
  BY <1>3, <1>5, <1>6, <1>7, <1>8, Zenon DEF Shrinks
<1> QED BY <1>5, <1>6, <1>9, Zenon DEF k

LEMMA CleanupShrinks ==
    ASSUME NEW h \in HandlerType, NEW c \in Cids
    PROVE  Shrinks(h, CleanupPromoted(h, c))
<1> DEFINE k == CleanupPromoted(h, c)
           a == Forget(h, h.attempt, {c})
           f == [h.cids EXCEPT ![c] = {}]
           p == [h.born EXCEPT ![c] = 0]
<1>1. /\ h.cids \in [Cids -> SUBSET Flags] /\ h.attempt \in [Identities -> OptCid]
      /\ h.born \in [Cids -> Procs]
  BY Fields, Zenon
<1>2. CASE k = h
  BY <1>2, Zenon DEF Shrinks
<1>3. CASE k = [h EXCEPT !.cids = f, !.attempt = a, !.born = p]
  <2>1. \A d \in Cids : /\ (f[d] = h.cids[d] /\ d # c) \/ f[d] = {}
                        /\ p[d] = 0 \/ p[d] = h.born[d]
    BY <1>1, Zenon
  <2>2. \A i \in Identities : /\ a[i] = None \/ a[i] = h.attempt[i]
                              /\ h.attempt[i] # c => a[i] = h.attempt[i]
    <3>1. \A i \in Identities : h.attempt[i] # c => h.attempt[i] \notin {c}
      BY Zenon
    <3> QED BY <3>1, Zenon DEF Forget
  <2> HIDE DEF f, a, p, k
  <2>3. /\ k.cids = f /\ k.attempt = a /\ k.active = h.active /\ k.timers = h.timers
        /\ k.lost = h.lost /\ k.born = p
    BY <1>3, Zenon DEF HandlerType
  <2>4. \A d \in Cids :
          /\ f[d] \subseteq h.cids[d]
          /\ f[d] # {} => h.cids[d] \cap {"promoted", "established"} \subseteq f[d]
          /\ f[d] # {} => d # c
    BY <2>1, Zenon
  <2>5. \A d \in Cids : d # c => (h.attempt[Id(d)] = d => a[Id(d)] = d)
    BY <2>2, IdIs, Zenon
  <2>6. \A d \in Cids : "cancel" \in f[d] \/ "promoted" \in f[d] => d # c
    BY <2>4, Zenon
  <2>7. \A d \in Cids : "cancel" \in f[d] \/ "promoted" \in f[d] =>
          (h.attempt[Id(d)] = d => a[Id(d)] = d)
    BY <2>5, <2>6, Zenon
  <2>8. Shrinks(h, k)
    BY <2>1, <2>2, <2>3, <2>4, <2>7, Zenon DEF Shrinks
  <2> QED BY <2>8, Zenon DEF k
<1> QED BY <1>2, <1>3, Zenon DEF CleanupPromoted

LEMMA ClearShrinks ==
    ASSUME NEW h \in HandlerType, NEW c \in Cids
    PROVE  /\ Shrinks(h, ClearInFlight(h, c))
           /\ ClearInFlight(h, c).cids[c] = h.cids[c] \ {"cancel", "failed"}
<1> DEFINE k == ClearInFlight(h, c)
           e == h.cids[c] \ {"cancel", "failed"}
           f == [h.cids EXCEPT ![c] = e]
           a == IF h.cids[c] = {} \/ "promoted" \in h.cids[c] THEN h.attempt
                ELSE Forget(h, h.attempt, {c})
<1>1. /\ h.cids \in [Cids -> SUBSET Flags] /\ h.attempt \in [Identities -> OptCid]
  BY Fields, Zenon
<1>2. /\ f[c] = e /\ \A d \in Cids : d # c => f[d] = h.cids[d]
  BY <1>1, Zenon
<1>3. \A i \in Identities : /\ a[i] = None \/ a[i] = h.attempt[i]
                            /\ h.attempt[i] # c \/ "promoted" \in h.cids[c] => a[i] = h.attempt[i]
  <2>1. \A i \in Identities : h.attempt[i] # c => h.attempt[i] \notin {c}
    BY Zenon
  <2> QED BY <2>1, Zenon DEF Forget
<1>4. k = [h EXCEPT !.cids = f, !.attempt = a]
  BY Zenon DEF ClearInFlight
<1>5. /\ e \subseteq h.cids[c] /\ "cancel" \notin e
      /\ h.cids[c] \cap {"promoted", "established"} \subseteq e
  <2>1. "promoted" \notin {"cancel", "failed"} /\ "established" \notin {"cancel", "failed"}
    OBVIOUS
  <2> QED BY <2>1, Zenon
<1> HIDE DEF f, a, k, e
<1>6. /\ k.cids = f /\ k.attempt = a /\ k.active = h.active /\ k.timers = h.timers
      /\ k.lost = h.lost /\ k.born = h.born
  BY <1>4, Zenon DEF HandlerType
<1>7. \A d \in Cids :
        /\ f[d] \subseteq h.cids[d]
        /\ f[d] # {} => h.cids[d] \cap {"promoted", "established"} \subseteq f[d]
  BY <1>2, <1>5, Zenon
<1>8. \A d \in Cids : "cancel" \in f[d] \/ "promoted" \in f[d] =>
        (h.attempt[Id(d)] = d => a[Id(d)] = d)
  <2>1. ASSUME NEW d \in Cids, d = c, "cancel" \in f[d] \/ "promoted" \in f[d]
        PROVE  "promoted" \in h.cids[c]
    BY <1>2, <1>5, <2>1, Zenon
  <2> QED BY <1>3, <2>1, IdIs, Zenon
<1>9. Shrinks(h, k)
  BY <1>3, <1>6, <1>7, <1>8, Zenon DEF Shrinks
<1> QED BY <1>2, <1>6, <1>9, Zenon DEF k, e

\* The goroutine of a promotion has ended.
LEMMA DeadlineShrinks ==
    ASSUME NEW h \in HandlerType, NEW c \in Cids, NEW e,
           e \subseteq h.cids[c], h.cids[c] \cap {"promoted", "established"} \subseteq e
    PROVE  /\ Shrinks(h, [h EXCEPT !.cids[c] = e])
           /\ [h EXCEPT !.cids[c] = e].cids[c] = e
           /\ [h EXCEPT !.cids[c] = e].active = h.active
<1> DEFINE k == [h EXCEPT !.cids[c] = e]
           f == [h.cids EXCEPT ![c] = e]
<1>1. h.cids \in [Cids -> SUBSET Flags]
  BY Fields, Zenon
<1>2. /\ f[c] = e /\ \A d \in Cids : d # c => f[d] = h.cids[d]
  BY <1>1, Zenon
<1>4. k = [h EXCEPT !.cids = f]
  BY Zenon
<1> HIDE DEF f, k
<1>5. /\ k.cids = f /\ k.attempt = h.attempt /\ k.active = h.active /\ k.timers = h.timers
      /\ k.lost = h.lost /\ k.born = h.born
  BY <1>4, Zenon DEF HandlerType
<1>6. \A d \in Cids :
        /\ f[d] \subseteq h.cids[d]
        /\ f[d] # {} => h.cids[d] \cap {"promoted", "established"} \subseteq f[d]
  BY <1>2, Zenon
<1>7. Shrinks(h, k)
  BY <1>5, <1>6, Zenon DEF Shrinks
<1> QED BY <1>2, <1>5, <1>7, Zenon DEF k

LEMMA ShrinksOrdered ==
    ASSUME NEW h, Ordered(h), NEW k, Shrinks(h, k)
    PROVE  Ordered(k)
<1>1. k.lost = {} /\ k.timers \subseteq wasUp /\ \A c \in Cids : k.born[c] = 0
  BY Zenon DEF Ordered, Shrinks
<1>2. ASSUME NEW c \in Cids PROVE Entry(k, c)
  <2>1. /\ k.cids[c] \subseteq h.cids[c]
        /\ k.cids[c] # {} => h.cids[c] \cap {"promoted", "established"} \subseteq k.cids[c]
        /\ "cancel" \in k.cids[c] \/ "promoted" \in k.cids[c] =>
              (h.attempt[Id(c)] = c => k.attempt[Id(c)] = c)
    BY Zenon DEF Shrinks
  <2>2. Entry(h, c)
    BY Zenon DEF Ordered
  <2> QED BY <2>1, <2>2, Zenon DEF Entry
<1>3. ASSUME NEW i \in Identities PROVE Index(k, i)
  <2>1. Past(k) \subseteq Past(h)
    BY Zenon DEF Shrinks, Past
  <2>2. (k.attempt[i] = None \/ k.attempt[i] = h.attempt[i]) /\ (k.active[i] = None \/ k.active[i] = h.active[i])
    BY Zenon DEF Shrinks
  <2>3. Index(h, i)
    BY Zenon DEF Ordered
  <2> QED BY <2>1, <2>2, <2>3, Zenon DEF Index
<1> QED BY <1>1, <1>2, <1>3, Zenon DEF Ordered

LEMMA ShrinksLate ==
    ASSUME NEW h, Late(h), NEW k, Shrinks(h, k)
    PROVE  Late(k)
<1>1. \A c \in Cids : /\ k.cids[c] \subseteq h.cids[c]
                      /\ k.cids[c] # {} => (h.active[Id(c)] = c => k.active[Id(c)] = c)
  BY Zenon DEF Shrinks
<1> QED BY <1>1, Zenon DEF Late

LEMMA CidsAre == /\ Cids \subseteq Nat /\ None \notin Cids
                 /\ \A c, d \in Cids : /\ ~(c < c) /\ c <= c
                                       /\ c < d => c <= d /\ d > c
                                       /\ c <= d /\ c # d => c < d
                                       /\ c < d \/ d < c \/ c = d
                                       /\ c < d => ~(d < c) /\ ~(d <= c)
  BY RebuildAssumption DEF RebuildAssumption, Cids

\* The only process is the first.
LEMMA FirstProcess ==
    /\ \A h : Ordered(h) => \A c \in Cids : Owner(h, c) = Id(c)
    /\ proc = 0 => \A c \in Cids : Identity(c) = Id(c)
  BY Zenon DEF Ordered, Owner, Identity, Id

\* A client newer than all that have got anywhere is admitted, while none of
\* its identity authenticates.
LEMMA AdmitOrdered ==
    ASSUME proc = 0, wasUp \subseteq Cids, NEW h \in HandlerType, Ordered(h), Late(h),
           NEW c \in Cids, \A d \in Past(h) : d < c,
           \A d \in Cids : Id(d) = Id(c) =>
               "cancel" \notin h.cids[d] /\ "promoted" \notin h.cids[d]
    PROVE  /\ Ordered(Admit(h, c)) /\ Late(Admit(h, c))
           /\ Past(Admit(h, c)) \subseteq Past(h) \cup {c}
           /\ \A d \in Cids \ {c} : Admit(h, c).cids[d] = h.cids[d]
<1> DEFINE k == Admit(h, c)
           e == {"tracked", "cancel"}
           f == [h.cids EXCEPT ![c] = e]
           a == [h.attempt EXCEPT ![Identity(c)] = c]
           t == h.timers \ {c}
           p == [h.born EXCEPT ![c] = proc]
           D == {<<"deadline", d>> : d \in {c} \cap {x \in Cids : "deadline" \in h.cids[x]}}
           X == {<<"expiry", d>> : d \in {c} \cap h.timers}
           l == h.lost \cup InFlight(h, c) \cup D \cup X
<1>1. /\ h.cids \in [Cids -> SUBSET Flags] /\ h.attempt \in [Identities -> OptCid]
      /\ h.active \in [Identities -> OptCid] /\ h.timers \subseteq Cids
      /\ h.born \in [Cids -> Procs]
  BY Fields, Zenon
<1>2. c \notin Past(h) /\ Past(h) \subseteq Cids
  BY CidsAre, Zenon DEF Past
<1>3. h.cids[c] = {} /\ c \notin wasUp /\ c \notin h.timers /\ h.lost = {}
  BY <1>2, Zenon DEF Past, Ordered
<1>4. l = {}
  <2>1. InFlight(h, c) = {}
    BY <1>3, Zenon DEF InFlight
  <2>2. {c} \cap {x \in Cids : "deadline" \in h.cids[x]} = {} /\ {c} \cap h.timers = {}
    BY <1>3, Zenon
  <2>3. D = {} /\ X = {}
    BY <2>2, Zenon
  <2> QED BY <1>3, <2>1, <2>3, Zenon
<1>5. Identity(c) = Id(c) /\ Id(c) \in Identities
  BY FirstProcess, IdIs, Zenon
<1>6. /\ f[c] = e /\ \A d \in Cids : d # c => f[d] = h.cids[d]
      /\ a[Id(c)] = c /\ \A i \in Identities : i # Id(c) => a[i] = h.attempt[i]
      /\ t \subseteq wasUp /\ \A d \in Cids : p[d] = 0
  BY <1>1, <1>5, Zenon DEF Ordered
<1>7. k = [h EXCEPT !.cids = f, !.born = p, !.attempt = a, !.timers = t, !.lost = l]
  BY Zenon DEF Admit
<1>8. "cancel" \in e /\ "failed" \notin e /\ "promoted" \notin e /\ "established" \notin e
      /\ e # {}
  OBVIOUS
<1> HIDE DEF k, e, f, a, t, p, l
<1>9. /\ k.cids = f /\ k.attempt = a /\ k.active = h.active /\ k.timers = t /\ k.lost = l
      /\ k.born = p
  BY <1>7, Zenon DEF HandlerType
<1>10. Past(k) \subseteq Past(h) \cup {c}
  <2>1. \A d \in Cids : k.cids[d] # {} => d = c \/ h.cids[d] # {}
    BY <1>6, <1>9, Zenon
  <2> QED BY <2>1, Zenon DEF Past
<1>11. ASSUME NEW d \in Cids PROVE Entry(k, d)
  <2>1. Entry(h, d)
    BY Zenon DEF Ordered
  <2>2. CASE d = c
    <3>1. k.cids[d] = e /\ k.attempt[Id(d)] = d
      BY <1>6, <1>9, <2>2, Zenon
    <3> QED BY <1>3, <1>8, <2>2, <3>1, Zenon DEF Entry
  <2>3. CASE d # c
    <3>1. k.cids[d] = h.cids[d]
      BY <1>6, <1>9, <2>3, Zenon
    <3>2. CASE Id(d) = Id(c)
      BY <2>1, <3>1, <3>2, Zenon DEF Entry
    <3>3. CASE Id(d) # Id(c)
      <4>1. k.attempt[Id(d)] = h.attempt[Id(d)]
        BY <1>6, <1>9, <3>3, IdIs, Zenon
      <4> QED BY <2>1, <3>1, <4>1, Zenon DEF Entry
    <3> QED BY <3>2, <3>3, Zenon
  <2> QED BY <2>2, <2>3, Zenon
<1>12. ASSUME NEW i \in Identities PROVE Index(k, i)
  <2>1. Index(h, i)
    BY Zenon DEF Ordered
  <2>2. k.active[i] # None => k.active[i] \in wasUp /\ Id(k.active[i]) = i
    BY <1>9, <2>1, Zenon DEF Index
  <2>3. CASE i = Id(c)
    <3>1. \A d \in Past(h) \cup {c} : d <= c
      BY <1>2, CidsAre, Zenon
    <3>2. k.attempt[i] = c
      BY <1>6, <1>9, <2>3, Zenon
    <3> QED BY <1>10, <2>2, <2>3, <3>1, <3>2, Zenon DEF Index
  <2>4. CASE i # Id(c)
    <3>1. k.attempt[i] = h.attempt[i]
      BY <1>6, <1>9, <2>4, Zenon
    <3>2. \A d \in Past(k) : Id(d) = i => d \in Past(h)
      BY <1>10, <2>4, Zenon
    <3> QED BY <2>1, <2>2, <3>1, <3>2, Zenon DEF Index
  <2> QED BY <2>3, <2>4, Zenon
<1>13. Ordered(k)
  BY <1>4, <1>6, <1>9, <1>11, <1>12, Zenon DEF Ordered
<1>14. Late(k)
  <2>1. \A d \in Cids : /\ "established" \in k.cids[d] => "established" \in h.cids[d]
                        /\ "promoted" \in k.cids[d] => "promoted" \in h.cids[d]
    BY <1>6, <1>8, <1>9, Zenon
  <2> QED BY <1>9, <2>1, Zenon DEF Late
<1> QED BY <1>6, <1>9, <1>10, <1>13, <1>14, Zenon DEF k

\* establishCID up to the kill, for a client that has been established and is promoted, or is
\* the active one already: what it replaces is older.
LEMMA TakeOverOrdered ==
    ASSUME wasUp \subseteq Cids, NEW h, Sane(h), Ordered(h), Late(h),
           NEW c \in Cids, c \in wasUp, NEW auth \in BOOLEAN,
           \/ h.cids[c] = {}
           \/ "promoted" \in h.cids[c]
           \/ "established" \in h.cids[c] /\ h.active[Id(c)] = c
    PROVE  /\ Ordered(TakeOver(h, c, auth)) /\ Late(TakeOver(h, c, auth))
           /\ Past(TakeOver(h, c, auth)) \subseteq Past(h)
           /\ \A d \in Replaced(h, c) : d \in wasUp /\ Newer(d)
           /\ \A d \in Cids \ {c} :
                TakeOver(h, c, auth).cids[d] # {} /\ "promoted" \in h.cids[d] =>
                    "promoted" \in TakeOver(h, c, auth).cids[d]
<1> DEFINE k == TakeOver(h, c, auth)
           old == Replaced(h, c)
           timed == /\ MaxSessionDuration
                    /\ "promoted" \in h.cids[c] \/ auth
                    /\ "established" \notin h.cids[c]
           marked(d) == (h.cids[d] \ {"expiry"}) \cup {"evictionRequested"}
           mine == (h.cids[c] \ {"promoted", "deadline"}) \cup {"established"}
                   \cup (IF timed THEN {"expiry"} ELSE {})
           f == [d \in Cids |->
                    IF d = c THEN mine
                    ELSE IF d \in old /\ h.cids[d] # {} THEN marked(d)
                    ELSE h.cids[d]]
           a == Forget(h, h.attempt, {c})
           v == [h.active EXCEPT ![Owner(h, c)] = c]
           t == (h.timers \ old) \cup (IF timed THEN {c} ELSE {})
           next == [h EXCEPT !.cids = f, !.attempt = a, !.active = v, !.timers = t]
           mode == {"cancel", "failed", "promoted", "established"}
<1>0. /\ h.cids \in [Cids -> SUBSET Flags] /\ h.attempt \in [Identities -> OptCid]
      /\ h.active \in [Identities -> OptCid] /\ h.born \in [Cids -> Procs]
      /\ h.timers \in SUBSET Cids /\ h.lost \in SUBSET Goroutines /\ h \in HandlerType
  BY Fields, Zenon DEF Sane
<1>1. k = IF h.cids[c] = {} THEN h ELSE next
  BY DEF TakeOver
<1>2. CASE h.cids[c] = {}
  BY <1>1, <1>2, Zenon DEF Replaced
<1>3. CASE h.cids[c] # {}
  <2>1. Owner(h, c) = Id(c) /\ Id(c) \in Identities
    BY FirstProcess, IdIs, Zenon
  <2>2. /\ {"established", "expiry", "evictionRequested"} \subseteq Flags
        /\ "established" \notin {"promoted", "deadline"} /\ "expiry" \notin mode
        /\ "evictionRequested" \notin mode
        /\ "established" \notin {"cancel", "failed", "promoted"}
    BY DEF Flags
  <2>3. /\ mine \in SUBSET Flags /\ "established" \in mine /\ "promoted" \notin mine
        /\ \A x \in mode : x \in mine => x \in h.cids[c] \/ x = "established"
    BY <1>0, <2>2, Zenon
  <2>4. \A d \in Cids : /\ marked(d) \in SUBSET Flags
                        /\ \A x \in mode : x \in marked(d) <=> x \in h.cids[d]
    BY <1>0, <2>2, Zenon
  <2> HIDE DEF mine, marked
  <2>5. \A d \in Cids : \/ d = c /\ f[d] = mine
                        \/ d # c /\ h.cids[d] # {} /\ f[d] = marked(d)
                        \/ d # c /\ f[d] = h.cids[d]
    BY Zenon
  <2>6. f \in [Cids -> SUBSET Flags]
    <3>1. f = [d \in Cids |-> f[d]]
      BY Zenon
    <3>2. \A d \in Cids : f[d] \in SUBSET Flags
      BY <1>0, <2>3, <2>4, <2>5, Zenon
    <3> HIDE DEF f
    <3> QED BY <3>1, <3>2, Zenon
  <2> HIDE DEF f
  <2>7. \A d \in Cids : /\ d = c => f[d] = mine
                        /\ d # c => \A x \in mode : x \in f[d] <=> x \in h.cids[d]
                        /\ f[d] # {} => h.cids[d] # {}
    <3>1. ASSUME NEW d \in Cids, d = c PROVE f[d] = mine /\ h.cids[d] # {}
      BY <1>3, <2>5, <3>1, Zenon
    <3>2. ASSUME NEW d \in Cids, d # c
          PROVE  /\ \A x \in mode : x \in f[d] <=> x \in h.cids[d]
                 /\ f[d] # {} => h.cids[d] # {}
      BY <2>4, <2>5, <3>2, Zenon
    <3> QED BY <3>1, <3>2, Zenon
  <2>8. /\ a \in [Identities -> OptCid] /\ v \in [Identities -> OptCid] /\ t \in SUBSET Cids
        /\ v[Id(c)] = c /\ \A i \in Identities : i # Id(c) => v[i] = h.active[i]
        /\ t \subseteq wasUp
    BY <1>0, <2>1, ForgetType, Zenon DEF OptCid, Ordered
  <2>9. \A i \in Identities : /\ a[i] = None \/ a[i] = h.attempt[i]
                              /\ h.attempt[i] # c => a[i] = h.attempt[i]
    <3>1. \A i \in Identities : h.attempt[i] # c => h.attempt[i] \notin {c}
      BY Zenon
    <3> QED BY <3>1, Zenon DEF Forget
  <2> HIDE DEF a, v, t
  <2>10. /\ next \in HandlerType /\ next.cids = f /\ next.attempt = a /\ next.active = v
         /\ next.timers = t /\ next.lost = h.lost /\ next.born = h.born
    BY <1>0, <2>6, <2>8, Zenon DEF HandlerType
  <2> HIDE DEF next, mode
  <2>11. "cancel" \in mode /\ "failed" \in mode /\ "promoted" \in mode /\ "established" \in mode
    BY Zenon DEF mode
  <2>12. \A d \in Cids : Entry(h, d)
    BY Zenon DEF Ordered
  <2>13. ASSUME NEW d \in Cids PROVE Entry(next, d)
    <3>1. CASE d = c
      <4>1. /\ "failed" \notin f[d] /\ "cancel" \notin f[d] /\ "promoted" \notin f[d]
            /\ "established" \in f[d]
        <5>1. "failed" \notin h.cids[c] /\ "cancel" \notin h.cids[c]
          BY <2>12, Zenon DEF Entry
        <5> QED BY <2>2, <2>3, <2>7, <2>11, <3>1, <5>1, Zenon
      <4> QED BY <2>10, <3>1, <4>1, Zenon DEF Entry
    <3>2. CASE d # c
      <4>1. \A x \in mode : x \in f[d] <=> x \in h.cids[d]
        BY <2>7, <3>2, Zenon
      <4>2. h.attempt[Id(d)] = d => a[Id(d)] = d
        BY <2>9, <3>2, IdIs, Zenon
      <4>3. f[d] # {} => h.cids[d] # {}
        BY <2>7, Zenon
      <4> QED BY <2>10, <2>11, <2>12, <4>1, <4>2, <4>3, Zenon DEF Entry
    <3> QED BY <3>1, <3>2, Zenon
  <2>14. Past(next) \subseteq Past(h)
    BY <2>7, <2>10, Zenon DEF Past
  <2>15. ASSUME NEW i \in Identities PROVE Index(next, i)
    <3>1. Index(h, i)
      BY Zenon DEF Ordered
    <3>2. a[i] = None \/ a[i] = h.attempt[i]
      BY <2>9, Zenon
    <3>3. CASE i = Id(c)
      BY <2>8, <2>10, <2>14, <3>1, <3>2, <3>3, Zenon DEF Index
    <3>4. CASE i # Id(c)
      BY <2>8, <2>10, <2>14, <3>1, <3>2, <3>4, Zenon DEF Index
    <3> QED BY <3>3, <3>4, Zenon
  <2>16. Ordered(next)
    BY <2>8, <2>10, <2>13, <2>15, Zenon DEF Ordered
  <2>17. \A d \in Cids : /\ "promoted" \in f[d] => d # c /\ "promoted" \in h.cids[d]
                         /\ d # c /\ "established" \in f[d] => "established" \in h.cids[d]
    BY <2>3, <2>7, <2>11, Zenon
  <2>18. Late(next)
    <3> SUFFICES ASSUME NEW x \in Cids, Has(events, "ESTABLISHED", x), "established" \in f[x]
                 PROVE  v[Id(x)] = x /\ \A d \in Cids : Id(d) = Id(x) => "promoted" \notin f[d]
      BY <2>10, Zenon DEF Late
    <3>1. x # c => /\ h.active[Id(x)] = x
                   /\ \A d \in Cids : Id(d) = Id(x) => "promoted" \notin h.cids[d]
      BY <2>17, Zenon DEF Late
    <3>2. CASE Id(x) # Id(c)
      BY <2>8, <2>17, <3>1, <3>2, IdIs, Zenon
    <3>3. CASE Id(x) = Id(c) /\ "promoted" \in h.cids[c]
      <4>1. x = c
        BY <3>1, <3>3, Zenon
      <4>2. h.attempt[Id(c)] = c
        BY <2>12, <3>3, Zenon DEF Entry
      <4>3. \A d \in Cids : Id(d) = Id(c) /\ "promoted" \in h.cids[d] => d = c
        BY <2>12, <4>2, Zenon DEF Entry
      <4> QED BY <2>8, <2>17, <4>1, <4>3, Zenon
    <3>4. CASE Id(x) = Id(c) /\ "established" \in h.cids[c] /\ h.active[Id(c)] = c
      <4>1. x = c
        BY <3>1, <3>4, Zenon
      <4>2. \A d \in Cids : Id(d) = Id(x) => "promoted" \notin h.cids[d]
        BY <3>4, <4>1, Zenon DEF Late
      <4> QED BY <2>8, <2>17, <4>1, <4>2, Zenon
    <3> QED BY <1>3, <3>2, <3>3, <3>4, Zenon
  <2>19. k = next
    BY <1>1, <1>3, Zenon
  <2>20. ASSUME NEW d \in Cids \ {c}, "promoted" \in h.cids[d] PROVE "promoted" \in f[d]
    BY <2>7, <2>11, <2>20, Zenon
  <2>21. ASSUME NEW d \in old PROVE d \in wasUp /\ Newer(d)
    <3>1. d = h.active[Id(c)] /\ d # None /\ d # c
      BY <1>3, <2>1, <2>21, Zenon DEF Replaced
    <3>2. d \in wasUp /\ Id(d) = Id(c)
      BY <2>1, <3>1, Zenon DEF Ordered, Index
    <3>3. "promoted" \in h.cids[c]
      BY <1>3, <3>1, Zenon
    <3>4. h.attempt[Id(c)] = c /\ c # None
      BY <2>12, <3>3, CidsAre, Zenon DEF Entry
    <3>5. d <= c
      BY <2>1, <3>2, <3>4, Zenon DEF Ordered, Index, Past
    <3>6. c > d
      BY <3>1, <3>2, <3>5, CidsAre, Zenon
    <3> QED BY <3>2, <3>6, Zenon DEF Newer
  <2> HIDE DEF k, old
  <2>22. /\ Ordered(k) /\ Late(k) /\ Past(k) \subseteq Past(h)
         /\ \A d \in Cids \ {c} : "promoted" \in h.cids[d] => "promoted" \in k.cids[d]
    BY <2>10, <2>14, <2>16, <2>18, <2>19, <2>20, Zenon
  <2> QED BY <2>21, <2>22, Zenon DEF k, old
<1> QED BY <1>2, <1>3, Zenon

\* establishCID, in the same cases.
LEMMA EstablishOrdered ==
    ASSUME wasUp \subseteq Cids, NEW h, Sane(h), Ordered(h), Late(h),
           NEW c \in Cids, c \in wasUp, NEW auth \in BOOLEAN,
           \/ h.cids[c] = {}
           \/ "promoted" \in h.cids[c]
           \/ "established" \in h.cids[c] /\ h.active[Id(c)] = c
    PROVE  /\ Ordered(Establish(h, c, auth)) /\ Late(Establish(h, c, auth))
           /\ Past(Establish(h, c, auth)) \subseteq Past(h)
           /\ \A d \in Replaced(h, c) : d \in wasUp /\ Newer(d)
           /\ \A d \in Cids \ {c} :
                Establish(h, c, auth).cids[d] # {} /\ "promoted" \in h.cids[d] =>
                    "promoted" \in Establish(h, c, auth).cids[d]
<1> DEFINE n == TakeOver(h, c, auth)
           gone == {d \in Replaced(h, c) : vpn[d] \notin Present}
           k == Drop(n, gone)
<1>1. /\ Ordered(n) /\ Late(n) /\ Past(n) \subseteq Past(h)
      /\ \A d \in Replaced(h, c) : d \in wasUp /\ Newer(d)
      /\ \A d \in Cids \ {c} :
            n.cids[d] # {} /\ "promoted" \in h.cids[d] => "promoted" \in n.cids[d]
  BY TakeOverOrdered, Zenon
<1>2. n \in HandlerType
  BY TakeOverIs, Zenon DEF Sane
<1>3. Establish(h, c, auth) = k
  BY Zenon DEF Establish
<1> HIDE DEF n, gone
<1>4. Shrinks(n, k)
  BY <1>2, DropShrinks, Zenon
<1> HIDE DEF k
<1>5. Ordered(k) /\ Late(k)
  BY <1>1, <1>4, ShrinksOrdered, ShrinksLate, Zenon
<1>6. Past(k) \subseteq Past(h)
  <2>1. Past(k) \subseteq Past(n)
    BY <1>4, Zenon DEF Shrinks, Past
  <2> QED BY <1>1, <2>1, Zenon
<1>7. ASSUME NEW d \in Cids \ {c}, k.cids[d] # {}, "promoted" \in h.cids[d]
      PROVE  "promoted" \in k.cids[d]
  <2>1. k.cids[d] \subseteq n.cids[d] /\ n.cids[d] \cap {"promoted", "established"} \subseteq k.cids[d]
    BY <1>4, <1>7, Zenon DEF Shrinks
  <2>2. "promoted" \in n.cids[d]
    BY <1>1, <1>7, <2>1, Zenon
  <2> QED BY <2>1, <2>2, Zenon
<1> QED BY <1>1, <1>3, <1>5, <1>6, <1>7, Zenon

\* CIDs are handed out in the order of time.
InOrder == \A c, d \in wasUp : c < d => since[c] <= since[d]

LEMMA NewerIs ==
    ASSUME since \in [Cids -> 0 .. MaxTime], wasUp \subseteq Cids, InOrder,
           NEW c \in wasUp, NEW d \in wasUp
    PROVE  NewerStatusSession(d, c) <=> d > c
<1>1. c \in Nat /\ d \in Nat /\ c \in Cids /\ d \in Cids
  BY CidsAre, Zenon
<1>2. since[c] \in Nat /\ since[d] \in Nat
  <2>1. 0 .. MaxTime \subseteq Nat
    BY RebuildAssumption DEF RebuildAssumption
  <2> QED BY <1>1, <2>1, Zenon
<1>3. (c < d => since[c] <= since[d]) /\ (d < c => since[d] <= since[c])
  BY Zenon DEF InOrder
<1> QED BY <1>1, <1>2, <1>3 DEF NewerStatusSession

\* The rebuild: an identity goes to its newest row.
LEMMA RestoreOrdered ==
    ASSUME proc = 0, wasUp \subseteq Cids, MaxSessionDuration \in BOOLEAN,
           since \in [Cids -> 0 .. MaxTime], InOrder, NEW h, Sane(h), Ordered(h),
           \A c \in Cids : /\ snap[c] = "established" => c \in wasUp /\ h.cids[c] # {}
                           /\ Has(events, "ESTABLISHED", c) => "established" \notin h.cids[c]
    PROVE  /\ Ordered(Restore(h)) /\ Late(Restore(h))
           /\ Past(Restore(h)) \subseteq Past(h)
           /\ \A c \in Losers : c \in wasUp /\ Newer(c)
<1> DEFINE k == Restore(h)
           up == {c \in Cids : snap[c] = "established"}
           over == IF MaxSessionDuration THEN up \cap expired ELSE {}
           winner(i) == {c \in up \ Losers : Identity(c) = i}
           flags(c) ==
               (h.cids[c] \ {"promoted"}) \cup {"tracked", "established"}
               \cup (IF c \in Losers \cup over THEN {"evictionRequested"} ELSE {})
               \cup (IF MaxSessionDuration THEN {"expiry"} ELSE {})
           f == [c \in Cids |-> IF c \in up THEN flags(c) ELSE h.cids[c]]
           p == [c \in Cids |-> IF c \in up THEN proc ELSE h.born[c]]
           owned == [h EXCEPT !.cids = f, !.born = p]
           a == Forget(owned, owned.attempt, up)
           v == [i \in Identities |-> IF winner(i) = {} THEN owned.active[i]
                                      ELSE CHOOSE c \in winner(i) : TRUE]
           t == IF MaxSessionDuration THEN (owned.timers \cup up) \ over
                ELSE owned.timers
<1>0. /\ h.cids \in [Cids -> SUBSET Flags] /\ h.attempt \in [Identities -> OptCid]
      /\ h.active \in [Identities -> OptCid] /\ h.timers \in SUBSET Cids /\ h \in HandlerType
      /\ \A c \in Cids : Identity(c) = Id(c)
  BY Fields, FirstProcess, Zenon DEF Sane
<1>1. /\ up \subseteq wasUp /\ \A c \in up : h.cids[c] # {}
      /\ Losers \subseteq up
  BY Zenon DEF Losers
<1>2. \A c \in up : c \in Losers <=> \E d \in up : Id(d) = Id(c) /\ d > c
  <2>1. \A c, d \in up : NewerStatusSession(d, c) <=> d > c
    BY <1>1, NewerIs, Zenon
  <2> QED BY <1>0, <2>1, Zenon DEF Losers
<1>3. \A c \in Losers : c \in wasUp /\ Newer(c)
  BY <1>1, <1>2, Zenon DEF Newer
<1>4. /\ "promoted" \notin {"tracked", "established"} /\ "cancel" \notin {"tracked", "established"}
      /\ "failed" \notin {"tracked", "established"}
      /\ "evictionRequested" \notin {"promoted", "cancel", "failed"}
      /\ "expiry" \notin {"promoted", "cancel", "failed"}
  OBVIOUS
<1>5. \A c \in Cids : /\ "established" \in flags(c) /\ "promoted" \notin flags(c)
                      /\ "cancel" \in flags(c) => "cancel" \in h.cids[c]
                      /\ "failed" \in flags(c) => "failed" \in h.cids[c]
  BY <1>4, Zenon
<1> HIDE DEF flags
<1>6. \A c \in Cids : /\ c \in up => f[c] = flags(c)
                      /\ c \notin up => f[c] = h.cids[c]
  BY Zenon
<1>7. k = [owned EXCEPT !.attempt = a, !.active = v, !.timers = t]
  BY DEF Restore, flags
<1>8. /\ owned.cids = f /\ owned.attempt = h.attempt /\ owned.active = h.active
      /\ owned.timers = h.timers /\ owned.lost = h.lost /\ owned.born = p
  <2> HIDE DEF f, p
  <2> QED BY <1>0, Zenon DEF HandlerType
<1>9. \A i \in Identities : /\ a[i] = None \/ a[i] = h.attempt[i]
                            /\ h.attempt[i] \notin up => a[i] = h.attempt[i]
  <2> HIDE DEF up, owned
  <2> QED BY <1>8, Zenon DEF Forget
<1>10. \A i \in Identities : /\ winner(i) = {} => v[i] = h.active[i]
                             /\ winner(i) # {} => v[i] \in winner(i)
  <2>1. \A i \in Identities : winner(i) # {} => (CHOOSE c \in winner(i) : TRUE) \in winner(i)
    BY Zenon
  <2> HIDE DEF winner, owned
  <2> QED BY <1>8, <2>1, Zenon
<1>11. t \subseteq h.timers \cup up
  <2> HIDE DEF up, owned
  <2> QED BY <1>8, Zenon
<1>12. \A i \in Identities, c \in Cids : c \in winner(i) <=> c \in up /\ c \notin Losers /\ Id(c) = i
  BY <1>0, Zenon
<1>13. \A i \in Identities : winner(i) \subseteq Cids
  BY Zenon
<1>14. k.lost = owned.lost /\ k.cids = owned.cids
       /\ k.attempt = a /\ k.active = v /\ k.timers = t /\ k.born = p
       /\ \A c \in Cids : p[c] = 0
  <2>0. \A c \in Cids : p[c] = 0
    BY Zenon DEF Ordered
  <2>1. owned \in [cids : {f}, attempt : {h.attempt}, active : {h.active}, born : {p},
                   timers : {h.timers}, lost : {h.lost}]
    <3> HIDE DEF f, p
    <3> QED BY <1>0, Zenon DEF HandlerType
  <2> HIDE DEF owned, f, a, v, t, k, p
  <2> QED BY <1>7, <2>0, <2>1, Zenon
<1> HIDE DEF up, over, winner, f, p, owned, a, v, t, k
<1>15. ASSUME NEW d \in Cids PROVE Entry(k, d)
  <2>1. Entry(h, d)
    BY Zenon DEF Ordered
  <2>2. CASE d \in up
    <3>1. /\ "failed" \notin k.cids[d] /\ "cancel" \notin k.cids[d]
          /\ "promoted" \notin k.cids[d] /\ "established" \in k.cids[d]
      <4>1. k.cids[d] = flags(d) /\ d \in wasUp
        BY <1>1, <1>6, <1>8, <1>14, <2>2, Zenon
      <4>2. "failed" \notin h.cids[d] /\ "cancel" \notin h.cids[d]
        BY <2>1, <4>1, Zenon DEF Entry
      <4> QED BY <1>5, <4>1, <4>2, Zenon
    <3> QED BY <1>1, <2>2, <3>1, Zenon DEF Entry
  <2>3. CASE d \notin up
    <3>1. k.cids[d] = h.cids[d]
      BY <1>6, <1>8, <1>14, <2>3, Zenon
    <3>2. h.attempt[Id(d)] = d => k.attempt[Id(d)] = d
      BY <1>9, <1>14, <2>3, IdIs, Zenon
    <3> QED BY <2>1, <3>1, <3>2, Zenon DEF Entry
  <2> QED BY <2>2, <2>3, Zenon
<1>16. Past(k) \subseteq Past(h)
  BY <1>1, <1>6, <1>8, <1>14, Zenon DEF Past
<1>17. ASSUME NEW i \in Identities PROVE Index(k, i)
  <2>1. Index(h, i)
    BY Zenon DEF Ordered
  <2>2. a[i] = None \/ a[i] = h.attempt[i]
    BY <1>9, Zenon
  <2>3. v[i] # None => v[i] \in wasUp /\ Id(v[i]) = i
    <3>1. CASE winner(i) = {}
      BY <1>10, <2>1, <3>1, Zenon DEF Index
    <3>2. CASE winner(i) # {}
      BY <1>1, <1>10, <1>12, <1>13, <3>2, Zenon
    <3> QED BY <3>1, <3>2, Zenon
  <2> QED BY <1>14, <1>16, <2>1, <2>2, <2>3, Zenon DEF Index
<1>18. Ordered(k)
  BY <1>1, <1>8, <1>11, <1>14, <1>15, <1>17, Zenon DEF Ordered
<1>19. Late(k)
  <2> SUFFICES ASSUME NEW x \in Cids, Has(events, "ESTABLISHED", x), "established" \in f[x]
               PROVE  v[Id(x)] = x /\ \A d \in Cids : Id(d) = Id(x) => "promoted" \notin f[d]
    BY <1>8, <1>14, Zenon DEF Late
  <2>1. "established" \notin h.cids[x]
    BY Zenon
  <2>2. x \in up
    BY <1>6, <2>1, Zenon
  <2>3. \A d \in Cids : Entry(h, d)
    BY Zenon DEF Ordered
  <2>4. "promoted" \in h.cids[x] /\ h.attempt[Id(x)] = x /\ x # None
    BY <1>1, <2>1, <2>2, <2>3, CidsAre, Zenon DEF Entry
  <2>5. \A d \in wasUp : Id(d) = Id(x) => d <= x
    <3>1. Index(h, Id(x))
      BY IdIs, Zenon DEF Ordered
    <3>2. \A d \in Past(h) : Id(d) = Id(x) => d <= x
      BY <2>4, <3>1, Zenon DEF Index
    <3> QED BY <3>2, Zenon DEF Past
  <2>6. x \notin Losers
    <3>1. \A d \in up : Id(d) = Id(x) => ~(d > x)
      BY <1>1, <2>5, CidsAre
    <3> QED BY <1>2, <2>2, <3>1, Zenon
  <2>7. \A d \in up : Id(d) = Id(x) /\ d # x => d \in Losers
    <3>1. \A d \in up : Id(d) = Id(x) /\ d # x => x > d
      BY <1>1, <2>5, CidsAre
    <3> QED BY <1>2, <2>2, <3>1, Zenon
  <2>8. v[Id(x)] = x
    <3>1. Id(x) \in Identities /\ x \in winner(Id(x))
      BY <1>12, <2>2, <2>6, IdIs, Zenon
    <3>2. v[Id(x)] \in winner(Id(x)) /\ v[Id(x)] \in Cids
      BY <1>10, <1>13, <3>1, Zenon
    <3> QED BY <1>12, <2>7, <3>1, <3>2, Zenon
  <2>9. ASSUME NEW d \in Cids, Id(d) = Id(x), "promoted" \in f[d] PROVE FALSE
    <3>1. d \notin up /\ "promoted" \in h.cids[d]
      BY <1>5, <1>6, <2>9, Zenon
    <3>2. h.attempt[Id(d)] = d
      BY <2>3, <3>1, Zenon DEF Entry
    <3> QED BY <2>2, <2>4, <2>9, <3>1, <3>2, Zenon
  <2> QED BY <2>8, <2>9, Zenon
<1> QED BY <1>3, <1>16, <1>18, <1>19, Zenon DEF k

-----------------------------------------------------------------------------
(* The inductive invariant. *)

\* Clients come in the order of their CIDs.  One that has been let in is
\* promoted, one that is up is tracked.
Clients ==
    \A c \in Cids :
        /\ vpn[c] = "up" => c \in wasUp /\ cids[c] # {}
        /\ c \in wasUp => vpn[c] \in {"up", "gone"}
        /\ vpn[c] = "none" => cids[c] = {}
        /\ vpn[c] = "authed" => "promoted" \in cids[c]
        /\ since[c] <= now
        /\ \A d \in Cids : c < d /\ vpn[d] # "none" => vpn[c] # "none" /\ since[c] <= since[d]

\* CONNECT events come in that order, too.
Sorted(s) ==
    \A i, j \in 1 .. Len(s) :
        i < j /\ s[i].type = "CONNECT" /\ s[j].type = "CONNECT" => s[i].cid < s[j].cid

\* A client whose CONNECT is to be handled is newer than all with an entry.
Queue(s, h) ==
    /\ Sorted(s)
    /\ \A c \in Cids : /\ Has(s, "CONNECT", c) => \A d \in Past(h) : d < c
                       /\ Has(s, "ESTABLISHED", c) => c \in wasUp

\* Before the rebuild an ESTABLISHED that has been received has had no effect,
\* and the rows of a snapshot are tracked.
Rowed ==
    /\ link \notin Caught =>
          \A c \in Cids : Has(events, "ESTABLISHED", c) => "established" \notin cids[c]
    /\ link = "snapped" =>
          \A c \in Cids : snap[c] = "established" => c \in wasUp /\ cids[c] # {}

\* There is a reason to let c go.
Reason(c) == vpn[c] # "up" \/ c \in expired \/ Newer(c)

Justified ==
    /\ \A c \in closing : vpn[c] \in Present /\ Reason(c)
    /\ \A c \in evictions : c \in wasUp /\ Reason(c)

NewestInv ==
    /\ proc = 0 /\ orphans = {}
    /\ Ordered(Handler) /\ Late(Handler) /\ Queue(events, Handler)
    /\ Clients /\ Rowed /\ Justified

LEMMA HandlerFields ==
    /\ Handler.cids = cids /\ Handler.attempt = attempt /\ Handler.active = active
    /\ Handler.timers = timers /\ Handler.lost = lost /\ Handler.born = born
    /\ Handler'.cids = cids' /\ Handler'.attempt = attempt' /\ Handler'.active = active'
    /\ Handler'.timers = timers' /\ Handler'.lost = lost' /\ Handler'.born = born'
  BY Zenon DEF Handler

LEMMA BecomesOrdered ==
    ASSUME NEW k, Becomes(k), UNCHANGED wasUp, Ordered(k), Late(k),
           \A t : \A c \in Cids : Has(events', t, c) => Has(events, t, c)
    PROVE  Ordered(Handler)' /\ Late(Handler)' /\ Past(Handler)' = Past(k)
<1>1. /\ Handler'.cids = k.cids /\ Handler'.attempt = k.attempt /\ Handler'.active = k.active
      /\ Handler'.timers = k.timers /\ Handler'.lost = k.lost /\ Handler'.born = k.born
  BY HandlerFields, BecomesAre, Zenon
<1>2. Past(Handler)' = Past(k)
  BY <1>1, Zenon DEF Past
<1>3. \A c \in Cids : Entry(Handler, c)'
  <2>1. \A c \in Cids : Entry(k, c)
    BY Zenon DEF Ordered
  <2> QED BY <1>1, <2>1, Zenon DEF Entry
<1>4. \A i \in Identities : Index(Handler, i)'
  <2>1. \A i \in Identities : Index(k, i)
    BY Zenon DEF Ordered
  <2> QED BY <1>1, <1>2, <2>1, Zenon DEF Index
<1>5. Late(Handler)'
  BY <1>1, Zenon DEF Late
<1>6. Ordered(Handler)'
  BY <1>1, <1>3, <1>4, Zenon DEF Ordered
<1> QED BY <1>2, <1>5, <1>6, Zenon

\* A step of the daemon: the handler becomes k, and the clients S with a
\* reason to go are told so.
LEMMA DaemonStep ==
    ASSUME RebuildInv, NewestInv, NEW k, Becomes(k), Ordered(k), Late(k),
           UNCHANGED <<vpnVars, link, snap>>,
           \A c \in Cids : /\ vpn[c] = "none" => k.cids[c] = {}
                           /\ vpn[c] = "up" => k.cids[c] # {}
                           /\ vpn[c] = "authed" => "promoted" \in k.cids[c],
           \A t : \A c \in Cids : Has(events', t, c) => Has(events, t, c),
           Sorted(events'),
           \A c \in Cids : Has(events', "CONNECT", c) => \A d \in Past(k) : d < c,
           link \notin Caught => \A c \in Cids : /\ "established" \in k.cids[c] => "established" \in cids[c]
                                                 /\ cids[c] # {} => k.cids[c] # {},
           evictions' \subseteq evictions,
           NEW S, Close(S), \A c \in S : Reason(c)
    PROVE  NewestInv'
<1>0. /\ UNCHANGED <<proc, vpn, since, now, expired, wasUp, orphans>>
      /\ cids' = k.cids
  BY BecomesAre, Zenon DEF vpnVars, lifeVars
<1>1. Ordered(Handler)' /\ Late(Handler)' /\ Past(Handler)' = Past(k)
  BY <1>0, BecomesOrdered, Zenon
<1>2. Queue(events, Handler)'
  <2>1. \A c \in Cids : Has(events, "ESTABLISHED", c) => c \in wasUp
    BY Zenon DEF NewestInv, Queue
  <2>2. Sorted(events)'
    BY Zenon DEF Sorted
  <2>3. \A c \in Cids : /\ Has(events', "CONNECT", c) => \A d \in Past(k) : d < c
                        /\ Has(events', "ESTABLISHED", c) => c \in wasUp'
    BY <1>0, <2>1, Zenon
  <2> QED BY <1>1, <2>2, <2>3, Zenon DEF Queue
<1>3. Clients'
  <2> SUFFICES ASSUME NEW c \in Cids
               PROVE  /\ vpn[c] = "up" => c \in wasUp /\ cids'[c] # {}
                      /\ c \in wasUp => vpn[c] \in {"up", "gone"}
                      /\ vpn[c] = "none" => cids'[c] = {}
                      /\ vpn[c] = "authed" => "promoted" \in cids'[c]
                      /\ since[c] <= now
                      /\ \A d \in Cids : c < d /\ vpn[d] # "none" =>
                            vpn[c] # "none" /\ since[c] <= since[d]
    BY <1>0, Zenon DEF Clients
  <2>1. Clients
    BY Zenon DEF NewestInv
  <2> QED BY <1>0, <2>1, Zenon DEF Clients
<1>4. Rowed'
  <2>1. Rowed
    BY Zenon DEF NewestInv
  <2>2. ASSUME link \notin Caught, NEW c \in Cids, Has(events', "ESTABLISHED", c)
        PROVE  "established" \notin cids'[c]
    BY <1>0, <2>1, <2>2, Zenon DEF Rowed
  <2>3. ASSUME link = "snapped", NEW c \in Cids, snap[c] = "established"
        PROVE  c \in wasUp /\ cids'[c] # {}
    <3>1. link \notin Caught
      BY <2>3 DEF Caught
    <3> QED BY <1>0, <2>1, <2>3, <3>1, Zenon DEF Rowed
  <2> QED BY <1>0, <2>2, <2>3, Zenon DEF Rowed
<1>5. Justified'
  <2>1. \A c \in Cids : Reason(c) <=> Reason(c)'
    BY <1>0, Zenon DEF Reason, Newer
  <2>2. Justified /\ closing \subseteq Cids /\ evictions \subseteq Cids
    BY TypeParts, Zenon DEF NewestInv, RebuildInv, RestOK
  <2>3. \A c \in closing' : c \in closing \/ (c \in S /\ vpn[c] \in Present)
    BY Zenon DEF Close
  <2>4. \A c : Reason(c) => Reason(c)'
    BY <1>0, Zenon DEF Reason, Newer
  <2>5. \A c \in closing' : vpn'[c] \in Present /\ Reason(c)'
    BY <1>0, <2>2, <2>3, <2>4, Zenon DEF Justified
  <2>6. \A c \in evictions' : c \in wasUp' /\ Reason(c)'
    BY <1>0, <2>2, <2>4, Zenon DEF Justified
  <2> QED BY <2>5, <2>6, Zenon DEF Justified
<1> QED BY <1>0, <1>1, <1>2, <1>3, <1>4, <1>5, Zenon DEF NewestInv

\* What follows for every client from an operation that keeps what Kept says.
LEMMA KeptClients ==
    ASSUME RebuildInv, NewestInv, NEW k, Kept(Handler, k),
           \A c \in Cids : vpn[c] = "authed" /\ k.cids[c] # {} /\ "promoted" \in cids[c] =>
               "promoted" \in k.cids[c]
    PROVE  /\ \A c \in Cids : /\ vpn[c] = "none" => k.cids[c] = {}
                              /\ vpn[c] = "up" => k.cids[c] # {}
                              /\ vpn[c] = "authed" => "promoted" \in k.cids[c]
           /\ Past(k) \subseteq Past(Handler)
<1>0. "authed" \in Present /\ "up" \in Present
  BY DEF Present
<1>1. \A c \in Cids : /\ k.cids[c] # {} => cids[c] # {}
                      /\ vpn[c] \in Present /\ "tracked" \in cids[c] => "tracked" \in k.cids[c]
  BY HandlerFields, Zenon DEF Kept
<1>2. \A c \in Cids : cids[c] # {} => "tracked" \in cids[c]
  BY Zenon DEF RebuildInv, EntryInv
<1>3. \A c \in Cids : /\ vpn[c] = "none" => cids[c] = {}
                      /\ vpn[c] = "up" => cids[c] # {}
                      /\ vpn[c] = "authed" => "promoted" \in cids[c]
  BY Zenon DEF NewestInv, Clients
<1>4. ASSUME NEW c \in Cids, vpn[c] = "up" \/ vpn[c] = "authed" PROVE k.cids[c] # {}
  BY <1>0, <1>1, <1>2, <1>3, <1>4, Zenon
<1>5. Past(k) \subseteq Past(Handler)
  BY <1>1, HandlerFields, Zenon DEF Past
<1>6. \A c \in Cids : vpn[c] = "none" => k.cids[c] = {}
  BY <1>1, <1>3, Zenon
<1> QED BY <1>3, <1>4, <1>5, <1>6, Zenon

LEMMA ShrinksClients ==
    ASSUME RebuildInv, NewestInv, NEW k, Kept(Handler, k), Shrinks(Handler, k)
    PROVE  \A c \in Cids : vpn[c] = "authed" /\ k.cids[c] # {} /\ "promoted" \in cids[c] =>
               "promoted" \in k.cids[c]
  BY HandlerFields, Zenon DEF Shrinks

\* While nothing is received.
LEMMA QuietNewest ==
    ASSUME RebuildInv, NewestInv, NEW k, Becomes(k), Ordered(k), Late(k), Kept(Handler, k),
           UNCHANGED <<vpnVars, events, link, snap>>,
           \A c \in Cids : vpn[c] = "authed" /\ k.cids[c] # {} /\ "promoted" \in cids[c] =>
               "promoted" \in k.cids[c],
           link \notin Caught => \A c \in Cids : /\ "established" \in k.cids[c] => "established" \in cids[c]
                                                 /\ cids[c] # {} => k.cids[c] # {},
           evictions' \subseteq evictions,
           NEW S, Close(S), \A c \in S : Reason(c)
    PROVE  NewestInv'
<1>1. /\ \A c \in Cids : /\ vpn[c] = "none" => k.cids[c] = {}
                         /\ vpn[c] = "up" => k.cids[c] # {}
                         /\ vpn[c] = "authed" => "promoted" \in k.cids[c]
      /\ Past(k) \subseteq Past(Handler)
  BY KeptClients, Zenon
<1>2. Sorted(events) /\ \A c \in Cids : Has(events, "CONNECT", c) => \A d \in Past(k) : d < c
  BY <1>1, Zenon DEF NewestInv, Queue
<1>3. UNCHANGED <<vpnVars, link, snap>> /\ events' = events
  BY Zenon
<1> QED BY <1>1, <1>2, <1>3, DaemonStep, Zenon

LEMMA NewestParts ==
    ASSUME RebuildInv, NewestInv
    PROVE  /\ HandlerOK /\ EntryInv /\ RestOK /\ Sane(Handler) /\ Handler \in HandlerType
           /\ Ordered(Handler) /\ Late(Handler) /\ wasUp \subseteq Cids /\ proc = 0
           /\ Clients /\ \A c \in Cids : Entry(Handler, c)
  BY TypeParts, HandlerIs, Zenon DEF RebuildInv, NewestInv, RestOK, Sane, Ordered

\* An operation that takes something away.
LEMMA ShrinksNewest ==
    ASSUME RebuildInv, NewestInv, NEW k, Becomes(k), Shrinks(Handler, k), Kept(Handler, k),
           UNCHANGED <<vpnVars, events, link, snap>>,
           link \notin Caught => \A c \in Cids : cids[c] # {} => k.cids[c] # {},
           evictions' \subseteq evictions,
           NEW S, Close(S), \A c \in S : Reason(c)
    PROVE  NewestInv'
<1>1. Ordered(k) /\ Late(k)
  BY NewestParts, ShrinksOrdered, ShrinksLate, Zenon
<1>2. \A c \in Cids : vpn[c] = "authed" /\ k.cids[c] # {} /\ "promoted" \in cids[c] =>
          "promoted" \in k.cids[c]
  BY ShrinksClients, Zenon
<1>3. \A c \in Cids : "established" \in k.cids[c] => "established" \in cids[c]
  BY HandlerFields, Zenon DEF Shrinks
<1> QED BY <1>1, <1>2, <1>3, QuietNewest, Zenon

LEMMA ReasonIs ==
    /\ \A c \in {} : Reason(c)
    /\ \A c : vpn[c] # "up" => \A d \in {c} : Reason(d)
    /\ \A c : c \in expired => \A d \in {c} : Reason(d)
    /\ \A c : \A d \in Pending({c}) : Reason(d)
<1>1. "pending" # "up"
  OBVIOUS
<1>2. \A c : \A d \in Pending({c}) : vpn[d] = "pending"
  BY Zenon DEF Pending
<1> QED BY <1>1, <1>2, Zenon DEF Reason

LEMMA DeadlineNewest ==
    ASSUME calm, calm', RebuildInv, NewestInv, NEW c \in Cids, PromotedDeadline(c)
    PROVE  NewestInv'
<1> DEFINE e == cids[c] \ {"deadline"}
           h == [Handler EXCEPT !.cids[c] = e]
<1>0. /\ HandlerOK /\ EntryInv /\ Sane(Handler) /\ Handler \in HandlerType
      /\ Ordered(Handler) /\ Late(Handler) /\ wasUp \subseteq Cids /\ Handler.cids = cids
      /\ TRUE \in BOOLEAN
  BY NewestParts, HandlerFields, Zenon
<1>1. "promoted" \in cids[c] /\ UNCHANGED <<vpnVars, events, link, snap, evictions>>
  <2>1. calm \in BOOLEAN /\ calm' = (calm /\ "promoted" \in cids[c])
        /\ UNCHANGED <<lifeVars, events, bootVars>>
    BY TypeParts, Zenon DEF PromotedDeadline, RebuildInv, RestOK
  <2>2. "promoted" \in cids[c] /\ calm' = calm
    BY <2>1, Zenon
  <2> QED BY <2>1, <2>2, Zenon DEF bootVars, vpnVars
<1>2. \/ Quiet /\ Reconcile(h, c)
      \/ link = "down" /\ Becomes(h) /\ Close({})
  BY <1>0, Zenon DEF PromotedDeadline
<1>3. /\ e \in SUBSET Flags /\ e \subseteq cids[c]
      /\ cids[c] \cap {"promoted", "established"} \subseteq e
      /\ cids[c] \cap {"tracked", "established"} \subseteq e
      /\ e # {} => cids[c] # {} /\ "tracked" \in e
      /\ "promoted" \in e
  <2>1. "tracked" # "deadline" /\ "established" # "deadline" /\ "promoted" # "deadline"
    OBVIOUS
  <2> QED BY <1>0, <1>1, <2>1, Zenon DEF EntryInv, HandlerOK
<1> HIDE DEF e
<1>4. Handler.cids[c] = cids[c]
  BY <1>0, Zenon
<1>5. Sane(h) /\ Kept(Handler, h)
  BY <1>0, <1>3, <1>4, EntrySane, Zenon
<1>6. Shrinks(Handler, h) /\ h.cids[c] = e
  BY <1>0, <1>3, <1>4, DeadlineShrinks, Zenon
<1> HIDE DEF h
<1>7. Ordered(h) /\ Late(h) /\ h \in HandlerType
  BY <1>0, <1>5, <1>6, ShrinksOrdered, ShrinksLate, Zenon DEF Sane
<1>8. \A d \in Cids : cids[d] # {} => h.cids[d] # {}
  <2>1. \A d \in Cids : d # c => h.cids[d] = cids[d]
    <3>1. h = [Handler EXCEPT !.cids[c] = e]
      BY Zenon DEF h
    <3> QED BY <1>0, <3>1 DEF HandlerType
  <2> QED BY <1>3, <1>6, <2>1, Zenon
<1>9. CASE link = "down" /\ Becomes(h) /\ Close({})
  <2>1. evictions' \subseteq evictions /\ UNCHANGED <<vpnVars, events, link, snap>>
    BY <1>1, Zenon
  <2> QED BY <1>5, <1>6, <1>8, <1>9, <2>1, ReasonIs, ShrinksNewest, Zenon
<1>10. CASE Quiet /\ Reconcile(h, c)
  <2>0. link \in Caught /\ evictions' \subseteq evictions /\ UNCHANGED <<vpnVars, events, link, snap>>
    BY <1>1, <1>10 DEF Quiet, Caught
  <2>1. CASE vpn[c] \notin Present /\ Becomes(CleanupPromoted(h, c)) /\ Close({})
    <3> DEFINE k == CleanupPromoted(h, c)
    <3>1. Sane(k) /\ Kept(h, k) /\ Shrinks(h, k)
      BY <1>5, <1>7, <2>1, CleanupIs, CleanupShrinks, Zenon
    <3>2. Kept(Handler, k) /\ Ordered(k) /\ Late(k)
      BY <1>5, <1>7, <3>1, KeptTwice, ShrinksOrdered, ShrinksLate, Zenon
    <3>3. \A d \in Cids : k.cids[d] # {} /\ "promoted" \in cids[d] => "promoted" \in k.cids[d]
      <4>1. ASSUME NEW d \in Cids, k.cids[d] # {}, "promoted" \in cids[d]
            PROVE  "promoted" \in k.cids[d]
        <5>1. /\ k.cids[d] \subseteq h.cids[d]
              /\ h.cids[d] \cap {"promoted", "established"} \subseteq k.cids[d]
              /\ h.cids[d] # {} => cids[d] \cap {"promoted", "established"} \subseteq h.cids[d]
          BY <1>0, <1>6, <3>1, <4>1, Zenon DEF Shrinks
        <5> HIDE DEF k
        <5> QED BY <4>1, <5>1, Zenon
      <4> QED BY <4>1, Zenon
    <3> HIDE DEF k
    <3>4. Becomes(k) /\ Close({})
      BY <2>1, Zenon DEF k
    <3> QED BY <2>0, <3>2, <3>3, <3>4, ReasonIs, QuietNewest, Zenon
  <2>2. CASE vpn[c] = "up" /\ Becomes(Establish(h, c, TRUE)) /\ Close(Replaced(h, c))
    <3> DEFINE k == Establish(h, c, TRUE)
    <3>1. c \in wasUp /\ vpn[c] # "authed"
      BY <2>2, NewestParts DEF Clients
    <3>2. Sane(k) /\ Kept(h, k)
      BY <1>0, <1>5, EstablishIs, Zenon
    <3>3. /\ Ordered(k) /\ Late(k)
          /\ \A d \in Replaced(h, c) : d \in wasUp /\ Newer(d)
          /\ \A d \in Cids \ {c} : k.cids[d] # {} /\ "promoted" \in h.cids[d] =>
                "promoted" \in k.cids[d]
      BY <1>0, <1>3, <1>5, <1>6, <1>7, <3>1, EstablishOrdered, Zenon
    <3>4. Kept(Handler, k)
      BY <1>5, <3>2, KeptTwice, Zenon
    <3> HIDE DEF k
    <3>5. ASSUME NEW d \in Cids, vpn[d] = "authed", k.cids[d] # {}, "promoted" \in cids[d]
          PROVE  "promoted" \in k.cids[d]
      <4>1. "promoted" \in h.cids[d]
        <5>1. h.cids[d] # {} => cids[d] \cap {"promoted", "established"} \subseteq h.cids[d]
          BY <1>0, <1>6, Zenon DEF Shrinks
        <5> QED BY <1>8, <3>5, <5>1, Zenon
      <4> QED BY <3>1, <3>3, <3>5, <4>1, Zenon
    <3>6. \A d \in Replaced(h, c) : Reason(d)
      BY <3>3, Zenon DEF Reason
    <3>7. Becomes(k) /\ Close(Replaced(h, c))
      BY <2>2, Zenon DEF k
    <3> QED BY <2>0, <3>3, <3>4, <3>5, <3>6, <3>7, QuietNewest, Zenon
  <2>3. CASE /\ vpn[c] \in {"pending", "authed"} /\ Becomes(h)
             /\ Close(IF "promoted" \in h.cids[c] THEN {c} ELSE {})
    <3>1. vpn[c] # "up"
      BY <2>3
    <3>2. Close({c})
      BY <1>3, <1>6, <2>3, Zenon
    <3> QED BY <1>5, <1>6, <2>0, <2>3, <3>1, <3>2, ReasonIs, ShrinksNewest, Zenon
  <2> QED BY <1>10, <2>1, <2>2, <2>3, Zenon DEF Reconcile
<1> QED BY <1>2, <1>9, <1>10, Zenon

LEMMA SameShrinks ==
    ASSUME NEW h, NEW k, k.cids = h.cids, k.attempt = h.attempt, k.active = h.active,
           k.lost = h.lost, k.born = h.born, k.timers \subseteq h.timers
    PROVE  Shrinks(h, k)
  BY Zenon DEF Shrinks

LEMMA TimersNewest ==
    ASSUME calm, calm', RebuildInv, NewestInv, NEW c \in Cids,
           \/ AuthTimeout(c) \/ PromotedDeadline(c) \/ ExpiryFires(c)
           \/ LostAuthorize(c) \/ LostTimeout(c) \/ LostDeadline(c) \/ LostExpiry(c)
    PROVE  NewestInv'
<1>0. /\ HandlerOK /\ EntryInv /\ Sane(Handler) /\ Handler \in HandlerType
      /\ Handler.cids = cids /\ lost = {}
  BY NewestParts, HandlerFields, Zenon DEF Ordered
<1>1. CASE AuthTimeout(c)
  <2> DEFINE k == ClearInFlight(Handler, c)
  <2>1. /\ Sane(k) /\ Kept(Handler, k) /\ Shrinks(Handler, k)
        /\ k.cids[c] = cids[c] \ {"cancel", "failed"}
    BY <1>0, ClearIs, ClearShrinks, Zenon
  <2>2. \A d \in Cids : cids[d] # {} => k.cids[d] # {}
    <3>1. \A d \in Cids : d # c => k.cids[d] = cids[d]
      BY <1>0 DEF ClearInFlight, HandlerType
    <3>2. "tracked" \notin {"cancel", "failed"}
      OBVIOUS
    <3>3. cids[c] # {} => k.cids[c] # {}
      BY <1>0, <2>1, <3>2, Zenon DEF EntryInv
    <3> QED BY <3>1, <3>3, Zenon
  <2>3. Becomes(k)
    BY <1>1, Zenon DEF AuthTimeout
  <2>4. PICK S \in {{}, Pending({c})} : Close(S)
    BY <1>1, Zenon DEF AuthTimeout
  <2>5. evictions' \subseteq evictions /\ UNCHANGED <<vpnVars, events, link, snap>>
    BY <1>1, Zenon DEF AuthTimeout, bootVars
  <2>6. \A d \in S : Reason(d)
    BY ReasonIs, Zenon
  <2> HIDE DEF k
  <2> QED BY <2>1, <2>2, <2>3, <2>4, <2>5, <2>6, ShrinksNewest, Zenon
<1>2. CASE PromotedDeadline(c)
  BY <1>2, DeadlineNewest, Zenon
<1>3. CASE ExpiryFires(c)
  <2> DEFINE k == [Handler EXCEPT !.timers = timers \ {c}]
  <2>1. /\ k.cids = Handler.cids /\ k.attempt = Handler.attempt /\ k.active = Handler.active
        /\ k.lost = Handler.lost /\ k.born = Handler.born /\ k.timers \subseteq Handler.timers
        /\ k \in HandlerType /\ Becomes(k)
    BY <1>0, <1>3, BecomesAre, Zenon DEF ExpiryFires, Handler, HandlerType
  <2> HIDE DEF k
  <2>2. Shrinks(Handler, k) /\ Kept(Handler, k)
    BY <1>0, <2>1, SameShrinks, SameKept, Zenon
  <2>3. PICK S \in {{}, {c}} : Close(S)
    BY <1>3, Zenon DEF ExpiryFires
  <2>4. \A d \in S : Reason(d)
    BY <1>3, ReasonIs, Zenon DEF ExpiryFires
  <2>5. evictions' \subseteq evictions /\ UNCHANGED <<vpnVars, events, link, snap>>
    BY <1>3, Zenon DEF ExpiryFires, bootVars
  <2> QED BY <1>0, <2>1, <2>2, <2>3, <2>4, <2>5, ShrinksNewest, Zenon
<1>4. CASE LostAuthorize(c) \/ LostTimeout(c) \/ LostDeadline(c) \/ LostExpiry(c)
  BY <1>0, <1>4, Zenon DEF LostAuthorize, LostTimeout, LostDeadline, LostExpiry
<1> QED BY <1>1, <1>2, <1>3, <1>4, Zenon

LEMMA SameHandler ==
    ASSUME UNCHANGED handlerVars
    PROVE  Becomes(Handler) /\ Kept(Handler, Handler) /\ Shrinks(Handler, Handler)
  BY SameShrinks, BecomesAre, Zenon DEF handlerVars, Handler, Kept

LEMMA EvictionNewest ==
    ASSUME RebuildInv, NewestInv, NEW c \in Cids, SendEviction(c) PROVE NewestInv'
<1>0. /\ Sane(Handler) /\ Handler \in HandlerType /\ Handler.cids = cids
  BY NewestParts, HandlerFields, Zenon
<1>1. evictions' \subseteq evictions /\ UNCHANGED <<vpnVars, events, link, snap>>
  BY Zenon DEF SendEviction
<1>2. \A d \in {c} : Reason(d)
  BY Zenon DEF SendEviction, NewestInv, Justified
<1>3. link \in Caught
  BY DEF SendEviction, Caught
<1>4. CASE UNCHANGED handlerVars /\ \E S \in {{}, {c}} : Close(S)
  <2>1. PICK S \in {{}, {c}} : Close(S)
    BY <1>4, Zenon
  <2>2. \A d \in S : Reason(d)
    BY <1>2, <2>1, Zenon
  <2>3. Becomes(Handler) /\ Kept(Handler, Handler) /\ Shrinks(Handler, Handler)
    BY <1>4, SameHandler, Zenon
  <2> QED BY <1>1, <1>3, <2>1, <2>2, <2>3, ShrinksNewest, Zenon
<1>5. CASE vpn[c] \notin Present /\ Becomes(Drop(Handler, {c})) /\ Close({})
  <2>1. Kept(Handler, Drop(Handler, {c})) /\ Shrinks(Handler, Drop(Handler, {c}))
    BY <1>0, <1>5, DropKept, DropShrinks, Zenon
  <2> QED BY <1>1, <1>3, <1>5, <2>1, ReasonIs, ShrinksNewest, Zenon
<1>6. \/ UNCHANGED handlerVars /\ \E S \in {{}, {c}} : Close(S)
      \/ vpn[c] \notin Present /\ Becomes(Drop(Handler, {c})) /\ Close({})
  BY Zenon DEF SendEviction
<1> QED BY <1>4, <1>5, <1>6, Zenon

\* Ordered, Late and Queue when the handler stays as it is and no client is
\* established.
LEMMA IdleOrdered ==
    ASSUME NewestInv, UNCHANGED <<handlerVars, wasUp, events>>
    PROVE  Ordered(Handler)' /\ Late(Handler)' /\ Queue(events, Handler)' /\ UNCHANGED cids
<1>1. Ordered(Handler) /\ Late(Handler) /\ Queue(events, Handler)
  BY Zenon DEF NewestInv
<1>2. Becomes(Handler) /\ UNCHANGED <<wasUp, events, cids>>
  BY SameHandler, Zenon DEF handlerVars
<1>3. Ordered(Handler)' /\ Late(Handler)' /\ Past(Handler)' = Past(Handler)
  BY <1>1, <1>2, BecomesOrdered, Zenon
<1>4. Queue(events, Handler)'
  BY <1>1, <1>2, <1>3, Zenon DEF Queue, Sorted
<1> QED BY <1>2, <1>3, <1>4, Zenon

LEMMA ClockNewest ==
    ASSUME RebuildInv, NewestInv, Tick \/ \E c \in Cids : Expire(c) PROVE NewestInv'
<1>1. /\ UNCHANGED <<handlerVars, proc, vpn, since, closing, wasUp, orphans, events, bootVars>>
      /\ expired \subseteq expired' /\ now' \in {now, now + 1}
  BY Zenon DEF Tick, Expire
<1>2. Ordered(Handler)' /\ Late(Handler)' /\ Queue(events, Handler)' /\ UNCHANGED cids
  BY <1>1, IdleOrdered, Zenon
<1>3. UNCHANGED <<proc, vpn, since, closing, wasUp, orphans, events, link, snap, evictions>>
  BY <1>1, Zenon DEF bootVars
<1>4. Clients'
  <2>1. \A c \in Cids : since[c] <= now'
    <3>1. since \in [Cids -> 0 .. MaxTime] /\ now \in 0 .. MaxTime /\ MaxTime \in Nat
      BY TypeParts, RebuildAssumption, Zenon DEF RebuildInv, RestOK, RebuildAssumption
    <3>2. \A c \in Cids : since[c] <= now /\ since[c] \in 0 .. MaxTime
      BY <3>1, Zenon DEF NewestInv, Clients
    <3>3. now' = now \/ now' = now + 1
      BY <1>1, Zenon
    <3> QED BY <3>1, <3>2, <3>3
  <2> QED BY <1>2, <1>3, <2>1, Zenon DEF NewestInv, Clients
<1>5. Rowed'
  BY <1>2, <1>3, Zenon DEF NewestInv, Rowed
<1>6. Justified'
  <2>1. \A c : Reason(c) => Reason(c)'
    BY <1>1, <1>3, Zenon DEF Reason, Newer
  <2> QED BY <1>3, <2>1, Zenon DEF NewestInv, Justified
<1> QED BY <1>2, <1>3, <1>4, <1>5, <1>6, Zenon DEF NewestInv

\* The connection is lost or comes back; nothing happens to the clients.
LEMMA LinkNewest ==
    ASSUME calm', RebuildInv, NewestInv,
           LinkLost \/ VpnRestart \/ DaemonRestart \/ Dial \/ BootStatus \/ BootDone
    PROVE  NewestInv'
<1>0. HandlerOK /\ RestOK /\ Clients /\ Rowed /\ Justified
  BY NewestParts, Zenon DEF NewestInv
<1>1. ~VpnRestart /\ ~DaemonRestart
  BY Zenon DEF VpnRestart, DaemonRestart
<1>2. UNCHANGED <<vpnVars, closing, handlerVars>> /\ evictions' \subseteq evictions
      /\ (events' = <<>> \/ events' = events)
  BY <1>1, Zenon DEF LinkLost, LinkDown, Dial, BootStatus, BootDone
<1>3. UNCHANGED <<proc, vpn, since, now, expired, wasUp, orphans, closing, cids>>
  BY <1>2, Zenon DEF vpnVars, lifeVars, handlerVars
<1>4. Ordered(Handler)' /\ Late(Handler)' /\ Queue(events, Handler)'
  <2>1. \A t : \A c \in Cids : ~Has(<<>>, t, c)
    <3>1. \A i \in 1 .. Len(<<>>) : FALSE
      OBVIOUS
    <3> QED BY <3>1, Zenon DEF Has
  <2>2. Sorted(<<>>)
    BY DEF Sorted
  <2>3. \A t : \A c \in Cids : Has(events', t, c) => Has(events, t, c)
    BY <1>2, <2>1, Zenon
  <2>4. Ordered(Handler) /\ Late(Handler) /\ Queue(events, Handler) /\ Becomes(Handler)
    BY <1>2, SameHandler, Zenon DEF NewestInv
  <2>5. Ordered(Handler)' /\ Late(Handler)' /\ Past(Handler)' = Past(Handler)
    BY <1>3, <2>3, <2>4, BecomesOrdered, Zenon
  <2>6. Sorted(events)'
    BY <1>2, <2>2, <2>4, Zenon DEF Queue, Sorted
  <2>7. Queue(events, Handler)'
    BY <1>3, <2>3, <2>4, <2>5, <2>6, Zenon DEF Queue
  <2> QED BY <2>5, <2>7, Zenon
<1>5. Clients'
  BY <1>0, <1>3, Zenon DEF Clients
<1>6. Justified'
  <2>1. \A c : Reason(c) => Reason(c)'
    BY <1>3, Zenon DEF Reason, Newer
  <2> QED BY <1>0, <1>2, <1>3, <2>1, Zenon DEF Justified
<1>7. Rowed'
  <2>1. CASE LinkLost
    <3>1. link' = "down" /\ events' = <<>> /\ "down" # "snapped"
      BY <2>1 DEF LinkLost, LinkDown
    <3>2. \A i \in 1 .. Len(<<>>) : FALSE
      OBVIOUS
    <3> QED BY <3>1, <3>2, Zenon DEF Rowed, Has
  <2>2. CASE Dial
    <3>1. link = "down" /\ link' = "boot" /\ events' = events /\ "boot" # "snapped"
          /\ "down" \notin Caught
      BY <2>2 DEF Dial, Caught
    <3> QED BY <1>0, <1>3, <3>1, Zenon DEF Rowed
  <2>3. CASE BootStatus
    <3>1. link = "boot" /\ events' = events /\ "boot" \notin Caught
      BY <2>3 DEF BootStatus, Caught
    <3>2. ASSUME NEW c \in Cids, snap'[c] = "established" PROVE vpn[c] = "up"
      <4>1. Row(c) = "established"
        BY <2>3, <3>2, Zenon DEF BootStatus
      <4>2. vpn[c] \in {"pending", "authed", "up", "none", "gone"}
        BY <1>0, Zenon DEF RestOK, Present
      <4> QED BY <4>1, <4>2 DEF Row
    <3> QED BY <1>0, <1>3, <3>1, <3>2, Zenon DEF Rowed, Clients
  <2>4. CASE BootDone
    <3>1. link' \in Caught /\ link' # "snapped"
      BY <2>4 DEF BootDone, Caught
    <3> QED BY <3>1, Zenon DEF Rowed
  <2> QED BY <1>1, <2>1, <2>2, <2>3, <2>4, Zenon
<1> QED BY <1>3, <1>4, <1>5, <1>6, <1>7, Zenon DEF NewestInv

\* The connection goes between an establishment and the kill that follows it.
LEMMA CutNewest ==
    ASSUME RebuildInv, NewestInv, LinkDown, UNCHANGED <<lifeVars, closing>>,
           NEW h, Sane(h), Ordered(h), Late(h), Kept(Handler, h),
           \A d \in Cids : h.cids[d] # {} /\ "promoted" \in cids[d] => "promoted" \in h.cids[d],
           NEW c \in Cids, vpn[c] = "up" \/ vpn[c] = "gone", c \in wasUp, NEW auth \in BOOLEAN,
           \/ h.cids[c] = {}
           \/ "promoted" \in h.cids[c]
           \/ "established" \in h.cids[c] /\ h.active[Id(c)] = c,
           Becomes(TakeOver(h, c, auth))
    PROVE  NewestInv'
<1> DEFINE k == TakeOver(h, c, auth)
<1>0. /\ RestOK /\ Clients /\ Justified /\ wasUp \subseteq Cids /\ proc = 0 /\ orphans = {}
  BY NewestParts, Zenon DEF NewestInv
<1>1. /\ Ordered(k) /\ Late(k) /\ Sane(k) /\ Kept(h, k)
      /\ \A d \in Cids \ {c} : k.cids[d] # {} /\ "promoted" \in h.cids[d] => "promoted" \in k.cids[d]
  BY <1>0, TakeOverOrdered, TakeOverIs, Zenon
<1>2. Kept(Handler, k) /\ Becomes(k)
  BY <1>1, KeptTwice, Zenon
<1> HIDE DEF k
<1>3. /\ UNCHANGED <<proc, vpn, since, now, expired, wasUp, orphans, closing>>
      /\ cids' = k.cids /\ evictions' = {} /\ events' = <<>> /\ link' = "down"
  BY <1>2, BecomesAre, Zenon DEF lifeVars, LinkDown
<1>4. (\A t : \A d \in Cids : ~Has(events', t, d)) /\ Sorted(events')
  <2>1. \A i \in 1 .. Len(<<>>) : FALSE
    OBVIOUS
  <2> QED BY <1>3, <2>1, Zenon DEF Has, Sorted
<1>5. Ordered(Handler)' /\ Late(Handler)'
  BY <1>1, <1>2, <1>3, <1>4, BecomesOrdered, Zenon
<1>6. Queue(events, Handler)'
  BY <1>4, Zenon DEF Queue, Sorted
<1>7. \A d \in Cids : /\ vpn[d] = "none" => k.cids[d] = {}
                      /\ vpn[d] = "up" => k.cids[d] # {}
                      /\ vpn[d] = "authed" => "promoted" \in k.cids[d]
  <2>1. ASSUME NEW d \in Cids, vpn[d] = "authed", k.cids[d] # {}, "promoted" \in cids[d]
        PROVE  "promoted" \in k.cids[d]
    <3>1. d # c
      BY <2>1
    <3>2. h.cids[d] # {}
      BY <1>1, <2>1, Zenon DEF Kept
    <3> QED BY <1>1, <2>1, <3>1, <3>2, Zenon
  <2> QED BY <1>2, <2>1, KeptClients, Zenon
<1>8. Clients'
  BY <1>0, <1>3, <1>7, Zenon DEF Clients
<1>9. Rowed'
  <2>1. link' # "snapped"
    BY <1>3
  <2> QED BY <1>4, <2>1, Zenon DEF Rowed
<1>10. Justified'
  <2>1. \A d : Reason(d) => Reason(d)'
    BY <1>3, Zenon DEF Reason, Newer
  <2> QED BY <1>0, <1>3, <2>1, Zenon DEF Justified
<1> QED BY <1>0, <1>3, <1>5, <1>6, <1>8, <1>9, <1>10, Zenon DEF NewestInv

LEMMA EventCutNewest == ASSUME RebuildInv, NewestInv, EventCut PROVE NewestInv'
<1> DEFINE e == Head(events)
           old == attempt[Identity(e.cid)]
<1>0. /\ HandlerOK /\ RestOK /\ Clients /\ Sane(Handler) /\ Ordered(Handler) /\ Late(Handler)
      /\ wasUp \subseteq Cids /\ Handler.cids = cids /\ TRUE \in BOOLEAN /\ FALSE \in BOOLEAN
      /\ Queue(events, Handler) /\ events \in Seq(Events) /\ Kept(Handler, Handler)
      /\ \A d \in Cids : Entry(Handler, d)
  BY NewestParts, HandlerFields, Zenon DEF NewestInv, RestOK, Kept
<1>1. /\ events # <<>> /\ LinkDown /\ UNCHANGED <<lifeVars, closing>>
      /\ \/ /\ e.type = "ESTABLISHED"
            /\ Becomes(TakeOver(Promote(Handler, e.cid), e.cid, FALSE))
         \/ /\ old # None /\ "promoted" \in cids[old] /\ vpn[old] = "up"
            /\ Becomes(TakeOver(Handler, old, TRUE))
  BY Zenon DEF EventCut, vpnVars
<1>2. e \in Events /\ 1 \in 1 .. Len(events) /\ events[1] = e
  BY <1>0, <1>1, Shapes
<1>3. e.cid \in Cids /\ e = Ev(e.type, e.cid)
  BY <1>2 DEF Events, Ev
<1>4. old \in OptCid
  BY <1>0, <1>3, Constants, Zenon DEF HandlerOK, RestOK, Identity
<1> HIDE DEF e, old
<1>5. CASE e.type = "ESTABLISHED" /\ Becomes(TakeOver(Promote(Handler, e.cid), e.cid, FALSE))
  <2>1. Has(events, "ESTABLISHED", e.cid)
    BY <1>2, <1>3, <1>5, Zenon DEF Has
  <2>2. e.cid \in wasUp
    BY <1>0, <1>3, <2>1, Zenon DEF Queue
  <2>3. "cancel" \notin Handler.cids[e.cid]
    BY <1>0, <1>3, <2>2, Zenon DEF Entry
  <2>4. Promote(Handler, e.cid) = Handler
    BY <2>3, Zenon DEF Promote
  <2>5. \/ Handler.cids[e.cid] = {} \/ "promoted" \in Handler.cids[e.cid]
        \/ "established" \in Handler.cids[e.cid] /\ Handler.active[Id(e.cid)] = e.cid
    BY <1>0, <1>3, <2>1, <2>2, Zenon DEF Entry, Late
  <2>6. vpn[e.cid] = "up" \/ vpn[e.cid] = "gone"
    BY <1>0, <1>3, <2>2, Zenon DEF Clients
  <2> QED BY <1>0, <1>1, <1>3, <1>5, <2>2, <2>4, <2>5, <2>6, CutNewest, Zenon
<1>6. CASE /\ old # None /\ "promoted" \in cids[old] /\ vpn[old] = "up"
           /\ Becomes(TakeOver(Handler, old, TRUE))
  <2>1. old \in Cids
    BY <1>4, <1>6, Zenon DEF OptCid
  <2>2. old \in wasUp /\ "promoted" \in Handler.cids[old]
    BY <1>0, <1>6, <2>1, Zenon DEF Clients
  <2> QED BY <1>0, <1>1, <1>6, <2>1, <2>2, CutNewest, Zenon
<1> QED BY <1>1, <1>5, <1>6, Zenon DEF e, old

LEMMA DeadlineCutNewest ==
    ASSUME calm, calm', RebuildInv, NewestInv, NEW c \in Cids, DeadlineCut(c) PROVE NewestInv'
<1> DEFINE f == cids[c] \ {"deadline"}
           h == [Handler EXCEPT !.cids[c] = f]
<1>0. /\ HandlerOK /\ EntryInv /\ Clients /\ Sane(Handler) /\ Handler \in HandlerType
      /\ Ordered(Handler) /\ Late(Handler) /\ Handler.cids = cids /\ lost = {}
      /\ TRUE \in BOOLEAN
  BY NewestParts, HandlerFields, Zenon DEF Ordered
<1>1. /\ vpn[c] = "up" /\ LinkDown /\ UNCHANGED <<lifeVars, closing>>
      /\ calm' = (calm /\ "promoted" \in cids[c]) /\ Becomes(TakeOver(h, c, TRUE))
  BY <1>0, Zenon DEF DeadlineCut
<1>2. /\ f \in SUBSET Flags /\ f \subseteq cids[c] /\ "promoted" \in f
      /\ cids[c] \cap {"promoted", "established"} \subseteq f
      /\ cids[c] \cap {"tracked", "established"} \subseteq f
      /\ f # {} => cids[c] # {} /\ "tracked" \in f
  <2>1. "tracked" # "deadline" /\ "established" # "deadline" /\ "promoted" # "deadline"
    OBVIOUS
  <2>2. "promoted" \in cids[c]
    BY <1>1, Zenon
  <2> QED BY <1>0, <2>1, <2>2, Zenon DEF EntryInv, HandlerOK
<1>3. Handler.cids[c] = cids[c]
  BY <1>0, Zenon
<1> HIDE DEF f
<1>4. Sane(h) /\ Kept(Handler, h) /\ Shrinks(Handler, h) /\ h.cids[c] = f
  BY <1>0, <1>2, <1>3, EntrySane, DeadlineShrinks, Zenon
<1> HIDE DEF h
<1>5. Ordered(h) /\ Late(h)
  BY <1>0, <1>4, ShrinksOrdered, ShrinksLate, Zenon
<1>6. \A d \in Cids : h.cids[d] # {} /\ "promoted" \in cids[d] => "promoted" \in h.cids[d]
  BY <1>0, <1>4, Zenon DEF Shrinks
<1>7. c \in wasUp /\ "promoted" \in h.cids[c]
  BY <1>0, <1>1, <1>2, <1>4, Zenon DEF Clients
<1> QED BY <1>0, <1>1, <1>4, <1>5, <1>6, <1>7, CutNewest, Zenon

LEMMA SortedAppend ==
    ASSUME NEW s \in Seq(Events), Sorted(s), NEW e \in Events,
           e.type = "CONNECT" => \A c \in Cids : Has(s, "CONNECT", c) => c < e.cid
    PROVE  Sorted(Append(s, e))
<1>1. /\ Len(s) \in Nat /\ Len(Append(s, e)) = Len(s) + 1
      /\ \A i \in 1 .. Len(s) : Append(s, e)[i] = s[i] /\ s[i] \in Events
      /\ Append(s, e)[Len(s) + 1] = e
  BY Shapes, Zenon
<1>2. \A i \in 1 .. Len(s) : s[i].type = "CONNECT" =>
        s[i].cid \in Cids /\ s[i] = Ev("CONNECT", s[i].cid)
  BY <1>1 DEF Events, Ev
<1>3. \A i \in 1 .. Len(s) : s[i].type = "CONNECT" /\ e.type = "CONNECT" => s[i].cid < e.cid
  BY <1>2, Zenon DEF Has
<1>4. \A i, j \in 1 .. Len(s) + 1 : i < j =>
        i \in 1 .. Len(s) /\ (j \in 1 .. Len(s) \/ j = Len(s) + 1)
  BY <1>1
<1> QED BY <1>1, <1>3, <1>4, Zenon DEF Sorted

LEMMA SortedTail ==
    ASSUME NEW s \in Seq(Events), Sorted(s), s # <<>>
    PROVE  /\ Sorted(Tail(s))
           /\ \A c, d \in Cids : Head(s) = Ev("CONNECT", c) /\ Has(Tail(s), "CONNECT", d) => c < d
<1>1. /\ Len(s) \in Nat /\ Len(s) > 0 /\ Len(Tail(s)) = Len(s) - 1
      /\ \A i \in 1 .. Len(s) - 1 : Tail(s)[i] = s[i + 1]
      /\ Head(s) = s[1]
  BY Shapes, Zenon
<1>2. \A i \in 1 .. Len(Tail(s)) : i + 1 \in 1 .. Len(s) /\ 1 < i + 1 /\ s[i + 1] = Tail(s)[i]
  BY <1>1
<1>3. \A i, j \in 1 .. Len(Tail(s)) : i < j => i + 1 < j + 1
  BY <1>1
<1>4. 1 \in 1 .. Len(s)
  BY <1>1
<1>5. \A c : Ev("CONNECT", c).type = "CONNECT" /\ Ev("CONNECT", c).cid = c
  BY DEF Ev
<1>6. Sorted(Tail(s))
  BY <1>2, <1>3, Zenon DEF Sorted
<1>7. ASSUME NEW c \in Cids, NEW d \in Cids, Head(s) = Ev("CONNECT", c),
             Has(Tail(s), "CONNECT", d)
      PROVE  c < d
  <2>1. PICK i \in 1 .. Len(Tail(s)) : Tail(s)[i] = Ev("CONNECT", d)
    BY <1>7, Zenon DEF Has
  <2>2. s[1] = Ev("CONNECT", c) /\ s[i + 1] = Ev("CONNECT", d)
    BY <1>1, <1>2, <1>7, <2>1, Zenon
  <2>3. s[1].cid < s[i + 1].cid
    <3>1. s[1].type = "CONNECT" /\ s[i + 1].type = "CONNECT"
      BY <1>5, <2>2, Zenon
    <3>2. i + 1 \in 1 .. Len(s) /\ 1 < i + 1
      BY <1>2, Zenon
    <3> QED BY <1>4, <3>1, <3>2, Zenon DEF Sorted
  <2> QED BY <1>5, <2>2, <2>3, Zenon
<1> QED BY <1>6, <1>7, Zenon

LEMMA NotifyHas ==
    ASSUME RebuildInv, NEW c \in Cids, NEW t \in {"CONNECT", "ESTABLISHED", "DISCONNECT"},
           Notify(t, c)
    PROVE  \A u : \A d \in Cids : Has(events', u, d) => Has(events, u, d) \/ (u = t /\ d = c)
<1>1. /\ link = "down" => events' = <<>>
      /\ link # "down" => events' = Append(events, Ev(t, c))
      /\ events \in Seq(Events)
  BY NotifyIs, TypeParts, Zenon DEF RebuildInv, RestOK
<1>2. Ev(t, c) \in Events
  BY DEF Ev, Events
<1>3. \A i \in 1 .. Len(<<>>) : FALSE
  OBVIOUS
<1>4. \A u, d : Ev(t, c) = Ev(u, d) => u = t /\ d = c
  BY DEF Ev
<1>5. CASE link = "down"
  BY <1>1, <1>3, <1>5, Zenon DEF Has
<1>6. CASE link # "down"
  <2>1. \A u : \A d \in Cids : Has(Append(events, Ev(t, c)), u, d) =>
          Has(events, u, d) \/ Ev(t, c) = Ev(u, d)
    BY <1>1, <1>2, AppendHas, Zenon
  <2> QED BY <1>1, <1>4, <1>6, <2>1, Zenon
<1> QED BY <1>5, <1>6, Zenon

LEMMA NotifySorted ==
    ASSUME RebuildInv, Sorted(events), NEW c \in Cids,
           NEW t \in {"CONNECT", "ESTABLISHED", "DISCONNECT"}, Notify(t, c),
           t = "CONNECT" => \A d \in Cids : Has(events, "CONNECT", d) => d < c
    PROVE  Sorted(events')
<1>1. /\ link = "down" => events' = <<>>
      /\ link # "down" => events' = Append(events, Ev(t, c))
      /\ events \in Seq(Events)
  BY NotifyIs, TypeParts, Zenon DEF RebuildInv, RestOK
<1>2. Ev(t, c) \in Events /\ Ev(t, c).type = t /\ Ev(t, c).cid = c
  BY DEF Ev, Events
<1>3. Sorted(<<>>)
  BY DEF Sorted
<1>4. Sorted(Append(events, Ev(t, c)))
  BY <1>1, <1>2, SortedAppend, Zenon
<1> QED BY <1>1, <1>3, <1>4, Zenon

\* A client connects, or leaves.
LEMMA VisitNewest ==
    ASSUME RebuildInv, NewestInv, NEW c \in Cids, VpnConnect(c) \/ VpnLeave(c)
    PROVE  NewestInv'
<1>0. /\ HandlerOK /\ RestOK /\ Clients /\ Rowed /\ Justified /\ Queue(events, Handler)
      /\ Ordered(Handler) /\ Late(Handler)
  BY NewestParts, Zenon DEF NewestInv
<1>1. /\ UNCHANGED <<proc, now, wasUp, orphans, handlerVars, bootVars>>
      /\ expired' \in {expired, expired \ {c}} /\ closing' \in {closing, closing \ {c}}
      /\ \A d \in Cids : d # c => vpn'[d] = vpn[d] /\ since'[d] = since[d]
  <2>1. orphans = {}
    BY Zenon DEF NewestInv
  <2>2. orphans' = orphans
    BY <2>1, Zenon DEF VpnConnect, VpnLeave
  <2> QED BY <1>0, <2>2, Zenon DEF VpnConnect, VpnLeave, RestOK
<1>2. UNCHANGED <<proc, now, wasUp, orphans, cids, link, snap, evictions>> /\ Becomes(Handler)
  BY <1>1, SameHandler, Zenon DEF handlerVars, bootVars
<1>3. vpn'[c] # "up" /\ vpn'[c] # "none" /\ vpn'[c] # "authed"
  <2>1. vpn'[c] = "pending" \/ vpn'[c] = "gone"
    BY <1>0, Zenon DEF VpnConnect, VpnLeave, RestOK
  <2> QED BY <2>1
<1>4. VpnConnect(c) => \A d \in Cids : vpn[d] # "none" => d < c
  <2>1. ASSUME VpnConnect(c), NEW d \in Cids, vpn[d] # "none" PROVE d < c
    <3>1. vpn[c] = "none"
      BY <2>1, Zenon DEF VpnConnect
    <3>2. ~(c < d) /\ c # d
      BY <1>0, <2>1, <3>1, Zenon DEF Clients
    <3> QED BY <3>2, CidsAre, Zenon
  <2> QED BY <2>1, Zenon
<1>5. \A t : \A d \in Cids : t # "CONNECT" /\ t # "DISCONNECT" =>
          (Has(events', t, d) => Has(events, t, d))
  BY NotifyHas, Zenon DEF VpnConnect, VpnLeave
<1>6. Ordered(Handler)' /\ Late(Handler)' /\ Past(Handler)' = Past(Handler)
  <2>1. Past(Handler)' = Past(Handler)
    BY <1>2, HandlerFields, Zenon DEF Past
  <2>2. /\ Handler'.cids = Handler.cids /\ Handler'.attempt = Handler.attempt
        /\ Handler'.active = Handler.active /\ Handler'.timers = Handler.timers
        /\ Handler'.lost = Handler.lost /\ Handler'.born = Handler.born
    BY <1>1, HandlerFields, Zenon DEF handlerVars
  <2>3. \A d \in Cids : Has(events', "ESTABLISHED", d) => Has(events, "ESTABLISHED", d)
    <3>1. "ESTABLISHED" # "CONNECT" /\ "ESTABLISHED" # "DISCONNECT"
      OBVIOUS
    <3> QED BY <1>5, <3>1, Zenon
  <2>4. Late(Handler)'
    BY <1>0, <2>2, <2>3, Zenon DEF Late
  <2>5. \A d \in Cids : Entry(Handler, d)'
    BY <1>0, <1>2, <2>2, Zenon DEF Ordered, Entry
  <2>6. \A i \in Identities : Index(Handler, i)'
    BY <1>0, <1>2, <2>1, <2>2, Zenon DEF Ordered, Index
  <2>7. Ordered(Handler)'
    BY <1>0, <1>2, <2>2, <2>5, <2>6, Zenon DEF Ordered
  <2> QED BY <2>1, <2>4, <2>7, Zenon
<1>7. Queue(events, Handler)'
  <2>0. "ESTABLISHED" # "CONNECT" /\ "ESTABLISHED" # "DISCONNECT" /\ "CONNECT" # "DISCONNECT"
    OBVIOUS
  <2>1. ASSUME NEW d \in Cids, Has(events, "CONNECT", d) PROVE vpn[d] # "none"
    <3>1. Told(events, vpn[d], d)
      BY Zenon DEF RebuildInv, EventInv
    <3>2. Ev("CONNECT", d).cid = d
      BY DEF Ev
    <3> QED BY <2>1, <3>1, <3>2, Zenon DEF Told, Has
  <2>2. \A d \in Past(Handler) : d \in Cids /\ vpn[d] # "none"
    <3>1. "none" \notin {"up", "gone"}
      OBVIOUS
    <3> QED BY <1>0, <3>1, NewestParts, HandlerFields, Zenon DEF Past, Clients
  <2>3. ASSUME NEW d \in Cids, Has(events', "CONNECT", d) PROVE \A x \in Past(Handler) : x < d
    <3>1. CASE Has(events, "CONNECT", d)
      BY <1>0, <3>1, Zenon DEF Queue
    <3>2. CASE VpnConnect(c) /\ d = c
      BY <1>4, <2>2, <3>2, Zenon
    <3> QED BY <2>0, <2>3, <3>1, <3>2, NotifyHas, Zenon DEF VpnConnect, VpnLeave
  <2>4. Sorted(events')
    <3>1. CASE VpnConnect(c)
      BY <1>0, <1>4, <2>1, <3>1, NotifySorted, Zenon DEF VpnConnect, Queue
    <3>2. CASE VpnLeave(c)
      BY <1>0, <2>0, <3>2, NotifySorted, Zenon DEF VpnLeave, Queue
    <3> QED BY <3>1, <3>2, Zenon
  <2>5. \A d \in Cids : Has(events', "ESTABLISHED", d) => d \in wasUp'
    BY <1>0, <1>2, <1>5, <2>0, Zenon DEF Queue
  <2> QED BY <1>6, <2>3, <2>4, <2>5, Zenon DEF Queue, Sorted
<1>8. Clients'
  <2>1. ASSUME NEW x \in Cids
        PROVE  /\ vpn'[x] = "up" => x \in wasUp /\ cids[x] # {}
               /\ x \in wasUp => vpn'[x] \in {"up", "gone"}
               /\ vpn'[x] = "none" => cids[x] = {}
               /\ vpn'[x] = "authed" => "promoted" \in cids[x]
    <3>1. CASE x # c
      BY <1>0, <1>1, <3>1, Zenon DEF Clients
    <3>2. CASE x = c /\ VpnLeave(c)
      <4>1. vpn'[c] = "gone"
        BY <1>0, <3>2, Zenon DEF VpnLeave, RestOK
      <4> QED BY <1>3, <3>2, <4>1, Zenon
    <3>3. CASE x = c /\ VpnConnect(c)
      <4>1. c \notin wasUp
        <5>1. vpn[c] = "none" /\ "none" \notin {"up", "gone"}
          BY <3>3 DEF VpnConnect
        <5> QED BY <1>0, <5>1, Zenon DEF Clients
      <4>2. vpn'[c] = "pending" /\ "pending" \notin {"up", "none", "authed"}
        BY <1>0, <3>3 DEF VpnConnect, RestOK
      <4> QED BY <3>3, <4>1, <4>2, Zenon
    <3> QED BY <3>1, <3>2, <3>3, Zenon
  <2>2. \A x \in Cids : since'[x] <= now
    <3>1. CASE VpnConnect(c)
      <4>1. since'[c] = now /\ now <= now
        BY <1>0, <3>1, RebuildAssumption DEF VpnConnect, RestOK, RebuildAssumption
      <4> QED BY <1>0, <1>1, <4>1, Zenon DEF Clients
    <3>2. CASE VpnLeave(c)
      BY <1>0, <3>2, Zenon DEF VpnLeave, Clients
    <3> QED BY <3>1, <3>2, Zenon
  <2>3. ASSUME NEW x \in Cids, NEW d \in Cids, x < d, vpn'[d] # "none"
        PROVE  vpn'[x] # "none" /\ since'[x] <= since'[d]
    <3>0. x # d
      BY <2>3, CidsAre, Zenon
    <3>1. CASE VpnLeave(c)
      <4>1. vpn[d] # "none" /\ since' = since
        BY <1>1, <2>3, <3>1 DEF VpnLeave, Present
      <4>2. vpn[x] # "none" /\ since[x] <= since[d]
        BY <1>0, <2>3, <4>1, Zenon DEF Clients
      <4> QED BY <1>1, <1>3, <4>1, <4>2, Zenon
    <3>2. CASE VpnConnect(c) /\ d = c
      <4>1. vpn[x] # "none"
        <5>1. x \in 1 .. c - 1
          BY <2>3, <3>2, CidsAre DEF Cids
        <5> QED BY <3>2, <5>1, Zenon DEF VpnConnect
      <4>2. since'[c] = now
        BY <1>0, <3>2, Zenon DEF VpnConnect, RestOK
      <4> QED BY <1>0, <1>1, <3>0, <3>2, <4>1, <4>2, Zenon DEF Clients
    <3>3. CASE VpnConnect(c) /\ d # c
      <4>1. vpn[d] # "none" /\ since'[d] = since[d]
        BY <1>1, <2>3, <3>3, Zenon
      <4>2. x # c /\ vpn[x] # "none" /\ since[x] <= since[d]
        BY <1>0, <2>3, <3>3, <4>1, Zenon DEF Clients, VpnConnect
      <4> QED BY <1>1, <4>1, <4>2, Zenon
    <3> QED BY <3>1, <3>2, <3>3, Zenon
  <2> QED BY <1>2, <2>1, <2>2, <2>3, Zenon DEF Clients
<1>9. Rowed'
  <2>1. "ESTABLISHED" # "CONNECT" /\ "ESTABLISHED" # "DISCONNECT"
    OBVIOUS
  <2> QED BY <1>0, <1>2, <1>5, <2>1, Zenon DEF Rowed
<1>10. Justified'
  <2>1. \A d : Newer(d) => Newer(d)'
    BY <1>2, Zenon DEF Newer
  <2>2. \A d \in Cids : Reason(d) => Reason(d)'
    <3>1. \A d \in Cids : d # c => (Reason(d) => Reason(d)')
      BY <1>1, <2>1, Zenon DEF Reason
    <3>2. Reason(c)'
      BY <1>3, Zenon DEF Reason
    <3> QED BY <3>1, <3>2, Zenon
  <2>3. closing \subseteq Cids /\ evictions \subseteq Cids
    BY <1>0, Zenon DEF RestOK
  <2>4. ASSUME NEW d \in closing' PROVE vpn'[d] \in Present
    <3>1. d \in closing /\ vpn[d] \in Present
      BY <1>0, <1>1, <2>4, Zenon DEF Justified
    <3>2. d # c
      <4>1. CASE VpnConnect(c)
        BY <3>1, <4>1 DEF VpnConnect, Present
      <4>2. CASE VpnLeave(c)
        BY <2>4, <4>2, Zenon DEF VpnLeave
      <4> QED BY <4>1, <4>2, Zenon
    <3> QED BY <1>1, <2>3, <3>1, <3>2, Zenon
  <2>5. closing' \subseteq closing
    BY <1>1, Zenon
  <2> QED BY <1>0, <1>2, <2>2, <2>3, <2>4, <2>5, Zenon DEF Justified
<1> QED BY <1>2, <1>6, <1>7, <1>8, <1>9, <1>10, Zenon DEF NewestInv

LEMMA EstablishNewest ==
    ASSUME RebuildInv, NewestInv, NEW c \in Cids, VpnEstablish(c) PROVE NewestInv'
<1>0. /\ HandlerOK /\ RestOK /\ Clients /\ Rowed /\ Justified /\ Queue(events, Handler)
      /\ Ordered(Handler) /\ Late(Handler) /\ \A d \in Cids : Entry(Handler, d)
  BY NewestParts, Zenon DEF NewestInv
<1>1. /\ vpn[c] = "authed" /\ c \notin closing /\ Notify("ESTABLISHED", c)
      /\ UNCHANGED <<proc, since, closing, now, expired, orphans, handlerVars, bootVars>>
      /\ vpn'[c] = "up" /\ \A d \in Cids : d # c => vpn'[d] = vpn[d]
      /\ wasUp' = wasUp \cup {c}
  BY <1>0, Zenon DEF VpnEstablish, RestOK
<1>2. UNCHANGED <<cids, attempt, active, born, timers, lost, link, snap, evictions>>
  BY <1>1, Zenon DEF handlerVars, bootVars
<1>3. /\ "promoted" \in cids[c] /\ cids[c] # {} /\ c \notin wasUp
      /\ "cancel" \notin cids[c] /\ "established" \notin cids[c]
  <2>1. "authed" \notin {"up", "gone"}
    OBVIOUS
  <2>2. "promoted" \in cids[c] /\ c \notin wasUp
    BY <1>0, <1>1, <2>1, Zenon DEF Clients
  <2> QED BY <1>0, <2>2, HandlerFields, Zenon DEF Entry
<1>4. /\ Handler'.cids = Handler.cids /\ Handler'.attempt = Handler.attempt
      /\ Handler'.active = Handler.active /\ Handler'.timers = Handler.timers
      /\ Handler'.lost = Handler.lost /\ Handler'.born = Handler.born /\ Handler.cids = cids
  BY <1>2, HandlerFields, Zenon
<1>5. Past(Handler)' = Past(Handler)
  BY <1>1, <1>2, <1>3, HandlerFields, Zenon DEF Past
<1>6. ASSUME NEW d \in Cids PROVE Entry(Handler, d)'
  <2>1. CASE d = c
    BY <1>0, <1>1, <1>3, <1>4, <2>1, Zenon DEF Entry
  <2>2. CASE d # c
    <3>1. d \in wasUp' <=> d \in wasUp
      BY <1>1, <2>2, Zenon
    <3>2. Entry(Handler, d)
      BY <1>0, Zenon
    <3> QED BY <1>4, <3>1, <3>2, Zenon DEF Entry
  <2> QED BY <2>1, <2>2, Zenon
<1>7. \A i \in Identities : Index(Handler, i)'
  <2>1. wasUp \subseteq wasUp'
    BY <1>1, Zenon
  <2>2. \A i \in Identities : Index(Handler, i)
    BY <1>0, Zenon DEF Ordered
  <2> QED BY <1>4, <1>5, <2>1, <2>2, Zenon DEF Index
<1>8. Ordered(Handler)'
  BY <1>0, <1>1, <1>4, <1>6, <1>7, Zenon DEF Ordered
<1>9. \A u : \A d \in Cids : Has(events', u, d) => Has(events, u, d) \/ (u = "ESTABLISHED" /\ d = c)
  BY <1>1, NotifyHas, Zenon
<1>10. Late(Handler)'
  <2>1. \A d \in Cids : Has(events', "ESTABLISHED", d) /\ "established" \in cids[d] =>
          Has(events, "ESTABLISHED", d)
    BY <1>3, <1>9, Zenon
  <2> QED BY <1>0, <1>4, <2>1, Zenon DEF Late
<1>11. Queue(events, Handler)'
  <2>0. "ESTABLISHED" # "CONNECT"
    OBVIOUS
  <2>1. Sorted(events')
    BY <1>0, <1>1, <2>0, NotifySorted, Zenon DEF Queue
  <2>2. \A d \in Cids : /\ Has(events', "CONNECT", d) => \A x \in Past(Handler) : x < d
                        /\ Has(events', "ESTABLISHED", d) => d \in wasUp'
    BY <1>0, <1>1, <1>9, <2>0, Zenon DEF Queue
  <2> QED BY <1>5, <2>1, <2>2, Zenon DEF Queue, Sorted
<1>12. Clients'
  <2>0. "up" # "none" /\ "up" # "authed" /\ "authed" # "none"
    OBVIOUS
  <2>1. ASSUME NEW x \in Cids
        PROVE  /\ vpn'[x] = "up" => x \in wasUp' /\ cids[x] # {}
               /\ x \in wasUp' => vpn'[x] \in {"up", "gone"}
               /\ vpn'[x] = "none" => cids[x] = {}
               /\ vpn'[x] = "authed" => "promoted" \in cids[x]
    <3>1. CASE x = c
      BY <1>1, <1>3, <2>0, <3>1, Zenon
    <3>2. CASE x # c
      BY <1>0, <1>1, <3>2, Zenon DEF Clients
    <3> QED BY <3>1, <3>2, Zenon
  <2>2. \A x \in Cids : vpn'[x] # "none" <=> vpn[x] # "none"
    BY <1>1, <2>0, Zenon
  <2>3. \A x \in Cids : /\ since'[x] <= now'
                        /\ \A d \in Cids : x < d /\ vpn'[d] # "none" =>
                              vpn'[x] # "none" /\ since'[x] <= since'[d]
    BY <1>0, <1>1, <2>2, Zenon DEF Clients
  <2> QED BY <1>2, <2>1, <2>3, Zenon DEF Clients
<1>13. Rowed'
  BY <1>0, <1>1, <1>2, <1>3, <1>9, Zenon DEF Rowed
<1>14. Justified'
  <2>1. \A d : Newer(d) => Newer(d)'
    BY <1>1, Zenon DEF Newer
  <2>2. \A d \in Cids : d # c => (Reason(d) => Reason(d)')
    BY <1>1, <2>1, Zenon DEF Reason
  <2>3. closing \subseteq Cids /\ evictions \subseteq Cids
    BY <1>0, Zenon DEF RestOK
  <2>4. c \notin closing /\ c \notin evictions
    BY <1>0, <1>1, <1>3, Zenon DEF Justified
  <2>5. \A d \in closing : d \in Cids /\ d # c /\ vpn[d] \in Present /\ Reason(d)
    BY <1>0, <2>3, <2>4, Zenon DEF Justified
  <2>6. \A d \in evictions : d \in Cids /\ d # c /\ d \in wasUp /\ Reason(d)
    BY <1>0, <2>3, <2>4, Zenon DEF Justified
  <2>7. UNCHANGED <<closing, evictions>> /\ wasUp \subseteq wasUp'
    BY <1>1, <1>2, Zenon
  <2> QED BY <1>1, <2>2, <2>5, <2>6, <2>7, Zenon DEF Justified
<1>15. proc' = 0 /\ orphans' = {}
  BY <1>1, Zenon DEF NewestInv
<1> QED BY <1>8, <1>10, <1>11, <1>12, <1>13, <1>14, <1>15, Zenon DEF NewestInv

\* MarkAuthenticated, of a client that is not established.
LEMMA PromoteOrdered ==
    ASSUME NEW h \in HandlerType, Ordered(h), Late(h), NEW c \in Cids, "cancel" \in h.cids[c],
           \A d \in Cids : Has(events, "ESTABLISHED", d) => Id(d) # Id(c)
    PROVE  /\ Ordered(Promote(h, c)) /\ Late(Promote(h, c))
           /\ "promoted" \in Promote(h, c).cids[c]
           /\ \A d \in Cids : /\ d # c => Promote(h, c).cids[d] = h.cids[d]
                              /\ "established" \in Promote(h, c).cids[d] =>
                                    "established" \in h.cids[d]
<1> DEFINE k == Promote(h, c)
           e == (h.cids[c] \ {"cancel", "failed"}) \cup {"promoted", "deadline"}
           f == [h.cids EXCEPT ![c] = e]
<1>1. h.cids \in [Cids -> SUBSET Flags]
  BY Fields, Zenon
<1>2. f[c] = e /\ \A d \in Cids : d # c => f[d] = h.cids[d]
  BY <1>1, Zenon
<1>3. /\ "promoted" \in e /\ "cancel" \notin e /\ "failed" \notin e
      /\ "established" \in e => "established" \in h.cids[c]
  <2>1. "cancel" \notin {"promoted", "deadline"} /\ "failed" \notin {"promoted", "deadline"}
        /\ "established" \notin {"promoted", "deadline"}
    OBVIOUS
  <2> QED BY <2>1, Zenon
<1>4. k = [h EXCEPT !.cids = f]
  BY Zenon DEF Promote
<1>5. \A d \in Cids : Entry(h, d)
  BY Zenon DEF Ordered
<1>6. c \notin wasUp /\ "established" \notin h.cids[c] /\ h.attempt[Id(c)] = c /\ h.cids[c] # {}
  BY <1>5, Zenon DEF Entry
<1> HIDE DEF k, e, f
<1>7. k.cids = f /\ k.attempt = h.attempt /\ k.active = h.active /\ k.timers = h.timers
      /\ k.lost = h.lost /\ k.born = h.born
  BY <1>4, Zenon DEF HandlerType
<1>8. ASSUME NEW d \in Cids PROVE Entry(k, d)
  <2>1. CASE d = c
    BY <1>2, <1>3, <1>6, <1>7, <2>1, Zenon DEF Entry
  <2>2. CASE d # c
    BY <1>2, <1>5, <1>7, <2>2, Zenon DEF Entry
  <2> QED BY <2>1, <2>2, Zenon
<1>9. Past(k) = Past(h)
  <2>1. \A d \in Cids : k.cids[d] # {} <=> h.cids[d] # {}
    BY <1>2, <1>3, <1>6, <1>7, Zenon
  <2> QED BY <2>1, Zenon DEF Past
<1>10. \A i \in Identities : Index(k, i)
  BY <1>7, <1>9, Zenon DEF Ordered, Index
<1>11. Ordered(k)
  BY <1>7, <1>8, <1>10, Zenon DEF Ordered
<1>12. \A d \in Cids : /\ d # c => k.cids[d] = h.cids[d]
                       /\ "established" \in k.cids[d] => "established" \in h.cids[d]
  BY <1>2, <1>3, <1>7, Zenon
<1>13. Late(k)
  BY <1>7, <1>12, Zenon DEF Late
<1> QED BY <1>2, <1>3, <1>7, <1>11, <1>12, <1>13, Zenon DEF k

LEMMA AuthorizeNewest ==
    ASSUME calm, calm', RebuildInv, NewestInv, NEW c \in Cids, Authorize(c) PROVE NewestInv'
<1> DEFINE k == Promote(Handler, c)
<1>0. /\ HandlerOK /\ RestOK /\ Clients /\ Rowed /\ Justified /\ Queue(events, Handler)
      /\ Sane(Handler) /\ Handler \in HandlerType /\ Ordered(Handler) /\ Late(Handler)
      /\ proc = 0 /\ Handler.cids = cids
  BY NewestParts, HandlerFields, Zenon DEF NewestInv
<1>1. /\ link \in Caught /\ UpToDate(c) /\ vpn[c] = "pending" /\ c \notin closing
      /\ "cancel" \in cids[c] /\ Becomes(k)
      /\ UNCHANGED <<proc, since, closing, now, expired, wasUp, orphans, events, bootVars>>
      /\ vpn'[c] = "authed" /\ \A d \in Cids : d # c => vpn'[d] = vpn[d]
  <2>1. Becomes(k) /\ calm' = (calm /\ UpToDate(c))
    BY Zenon DEF Authorize
  <2>2. UpToDate(c)
    BY <2>1, Zenon
  <2> QED BY <1>0, <2>1, <2>2, Zenon DEF Authorize, Forwarding, Caught, RestOK
<1>2. \A d \in Cids : Has(events, "ESTABLISHED", d) => Id(d) # Id(c)
  <2>1. ASSUME NEW d \in Cids, Has(events, "ESTABLISHED", d) PROVE Id(d) # Id(c)
    <3>1. PICK i \in 1 .. Len(events) : events[i] = Ev("ESTABLISHED", d)
      BY <2>1, Zenon DEF Has
    <3>2. i \in DOMAIN events /\ events[i].type = "ESTABLISHED" /\ events[i].cid = d
      BY <1>0, <3>1 DEF RestOK, Ev
    <3>3. Identity(d) # Identity(c)
      BY <1>1, <3>2, Zenon DEF UpToDate
    <3> QED BY <1>0, <3>3, FirstProcess, Zenon
  <2> QED BY <2>1, Zenon
<1>3. /\ Ordered(k) /\ Late(k) /\ "promoted" \in k.cids[c] /\ Kept(Handler, k)
      /\ \A d \in Cids : /\ d # c => k.cids[d] = cids[d]
                         /\ "established" \in k.cids[d] => "established" \in cids[d]
  BY <1>0, <1>1, <1>2, PromoteOrdered, PromoteIs, Zenon
<1> HIDE DEF k
<1>4. Ordered(Handler)' /\ Late(Handler)' /\ Past(Handler)' = Past(k) /\ cids' = k.cids
  BY <1>1, <1>3, BecomesOrdered, BecomesAre, Zenon
<1>5. Past(k) \subseteq Past(Handler)
  BY <1>3, Zenon DEF Kept, Past
<1>6. Queue(events, Handler)'
  BY <1>0, <1>1, <1>4, <1>5, Zenon DEF Queue, Sorted
<1>7. c \notin wasUp
  <2>1. "pending" \notin {"up", "gone"}
    OBVIOUS
  <2> QED BY <1>0, <1>1, <2>1, Zenon DEF Clients
<1>8. Clients'
  <2>0. "authed" # "up" /\ "authed" # "none" /\ "pending" # "none"
    OBVIOUS
  <2>1. ASSUME NEW x \in Cids
        PROVE  /\ vpn'[x] = "up" => x \in wasUp /\ cids'[x] # {}
               /\ x \in wasUp => vpn'[x] \in {"up", "gone"}
               /\ vpn'[x] = "none" => cids'[x] = {}
               /\ vpn'[x] = "authed" => "promoted" \in cids'[x]
    <3>1. CASE x = c
      BY <1>1, <1>3, <1>4, <1>7, <2>0, <3>1, Zenon
    <3>2. CASE x # c
      BY <1>0, <1>1, <1>3, <1>4, <3>2, Zenon DEF Clients
    <3> QED BY <3>1, <3>2, Zenon
  <2>2. \A x \in Cids : vpn'[x] # "none" <=> vpn[x] # "none"
    BY <1>1, <2>0, Zenon
  <2>3. \A x \in Cids : /\ since'[x] <= now'
                        /\ \A d \in Cids : x < d /\ vpn'[d] # "none" =>
                              vpn'[x] # "none" /\ since'[x] <= since'[d]
    BY <1>0, <1>1, <2>2, Zenon DEF Clients
  <2> QED BY <1>1, <2>1, <2>3, Zenon DEF Clients
<1>9. Rowed'
  <2>1. link' \in Caught /\ "snapped" \notin Caught
    BY <1>1 DEF Caught, bootVars
  <2> QED BY <2>1, Zenon DEF Rowed
<1>10. Justified'
  <2>0. "authed" # "up" /\ "authed" \in Present
    BY DEF Present
  <2>1. \A d : Newer(d) => Newer(d)'
    BY <1>1, Zenon DEF Newer
  <2>2. \A d \in Cids : Reason(d) => Reason(d)'
    BY <1>1, <2>0, <2>1, Zenon DEF Reason
  <2>3. closing \subseteq Cids /\ evictions \subseteq Cids
    BY <1>0, Zenon DEF RestOK
  <2>4. \A d \in closing : vpn'[d] \in Present
    BY <1>0, <1>1, <2>0, <2>3, Zenon DEF Justified
  <2>5. UNCHANGED <<closing, evictions, wasUp>>
    BY <1>1, Zenon DEF bootVars
  <2> QED BY <1>0, <2>2, <2>3, <2>4, <2>5, Zenon DEF Justified
<1>11. proc' = 0 /\ orphans' = {}
  BY <1>1, Zenon DEF NewestInv
<1> QED BY <1>4, <1>6, <1>8, <1>9, <1>10, <1>11, Zenon DEF NewestInv

LEMMA RebuildNewest ==
    ASSUME RebuildInv, NewestInv, RebuildSessionTracking PROVE NewestInv'
<1> DEFINE h == Drop(Handler, Stale)
           k == Restore(h)
<1>0. /\ HandlerOK /\ RestOK /\ EntryInv /\ Clients /\ Rowed /\ Justified
      /\ Sane(Handler) /\ Handler \in HandlerType /\ Ordered(Handler)
      /\ proc = 0 /\ proc \in Procs /\ Handler.cids = cids /\ wasUp \subseteq Cids
      /\ Queue(events, Handler)
      /\ MaxSessionDuration \in BOOLEAN /\ since \in [Cids -> 0 .. MaxTime]
  BY NewestParts, HandlerFields, RebuildAssumption, Zenon DEF NewestInv, RestOK, RebuildAssumption
<1>1. /\ link = "snapped" /\ link' = "replay" /\ evictions' = Evictions /\ Becomes(k)
      /\ UNCHANGED <<vpnVars, closing, events>>
  BY Zenon DEF RebuildSessionTracking
<1>2. \A c \in Cids : /\ snap[c] = "absent" => h.cids[c] = {}
                      /\ snap[c] # "absent" => h.cids[c] = cids[c]
  <2>1. \A c \in Cids : /\ c \in Stale => h.cids[c] = {}
                        /\ c \notin Stale => h.cids[c] = Handler.cids[c]
    BY <1>0, DropIs, Zenon
  <2>2. \A c \in Cids : c \in Stale <=> snap[c] = "absent"
    BY Zenon DEF Stale
  <2> QED BY <1>0, <2>1, <2>2, Zenon
<1>3. Sane(h) /\ Shrinks(Handler, h)
  BY <1>0, <1>2, DropIs, DropShrinks, Zenon DEF Sane, EntryInv
<1>4. Ordered(h)
  BY <1>0, <1>3, ShrinksOrdered, Zenon
<1> HIDE DEF h
<1>5. "established" # "absent" /\ "snapped" \notin Caught /\ "replay" \in Caught
      /\ "replay" # "snapped"
  BY DEF Caught
<1>6. \A c \in Cids : /\ snap[c] = "established" => c \in wasUp /\ h.cids[c] # {}
                      /\ Has(events, "ESTABLISHED", c) => "established" \notin h.cids[c]
  <2>1. \A c \in Cids : h.cids[c] \subseteq cids[c]
    BY <1>0, <1>3, Zenon DEF Shrinks
  <2> QED BY <1>0, <1>1, <1>2, <1>5, <2>1, Zenon DEF Rowed
<1>7. InOrder
  <2>1. "none" \notin {"up", "gone"}
    OBVIOUS
  <2> QED BY <1>0, <2>1, Zenon DEF InOrder, Clients
<1>8. /\ Ordered(k) /\ Late(k) /\ Past(k) \subseteq Past(h)
      /\ \A c \in Losers : c \in wasUp /\ Newer(c)
  BY <1>0, <1>3, <1>4, <1>6, <1>7, RestoreOrdered, Zenon
<1>9. \A c \in Cids : /\ snap[c] = "established" => "tracked" \in k.cids[c]
                      /\ snap[c] # "established" => k.cids[c] = h.cids[c]
  BY <1>0, <1>3, RestoreIs, Zenon
<1> HIDE DEF k
<1>10. /\ Ordered(Handler)' /\ Late(Handler)' /\ Past(Handler)' = Past(k) /\ cids' = k.cids
       /\ UNCHANGED <<proc, vpn, since, now, expired, wasUp, orphans, closing, events>>
  BY <1>1, <1>8, BecomesOrdered, BecomesAre, Zenon DEF vpnVars, lifeVars
<1>11. Past(k) \subseteq Past(Handler)
  <2>1. Past(h) \subseteq Past(Handler)
    BY <1>3, Zenon DEF Shrinks, Past
  <2> QED BY <1>8, <2>1, Zenon
<1>12. Queue(events, Handler)'
  BY <1>0, <1>10, <1>11, Zenon DEF Queue, Sorted
<1>13. Clients'
  <2>1. ASSUME NEW x \in Cids
        PROVE  /\ vpn[x] = "up" => x \in wasUp /\ cids'[x] # {}
               /\ x \in wasUp => vpn[x] \in {"up", "gone"}
               /\ vpn[x] = "none" => cids'[x] = {}
               /\ vpn[x] = "authed" => "promoted" \in cids'[x]
    <3>1. vpn[x] \in {"authed", "up"} => snap[x] # "absent"
      BY <1>1, Zenon DEF RebuildInv, SnapInv
    <3>2. snap[x] = "established" => vpn[x] \in {"up", "gone"}
      BY <1>0, <1>6, Zenon DEF Clients
    <3>3. "authed" \notin {"up", "gone"} /\ "none" \notin {"up", "gone"}
      OBVIOUS
    <3>4. vpn[x] = "none" => cids'[x] = {}
      <4>1. vpn[x] = "none" => k.cids[x] = h.cids[x] /\ cids[x] = {}
        BY <1>0, <1>9, <3>2, <3>3, Zenon DEF Clients
      <4> QED BY <1>2, <1>10, <4>1, Zenon
    <3>5. vpn[x] = "authed" => "promoted" \in cids'[x]
      BY <1>0, <1>2, <1>9, <1>10, <3>1, <3>2, <3>3, Zenon DEF Clients
    <3>6. vpn[x] = "up" => cids'[x] # {}
      BY <1>0, <1>2, <1>9, <1>10, <3>1, Zenon DEF Clients
    <3> QED BY <1>0, <3>4, <3>5, <3>6, Zenon DEF Clients
  <2> QED BY <1>0, <1>10, <2>1, Zenon DEF Clients
<1>14. Rowed'
  BY <1>1, <1>5, Zenon DEF Rowed
<1>15. Justified'
  <2>1. \A c : Reason(c) => Reason(c)'
    BY <1>10, Zenon DEF Reason, Newer
  <2>2. \A c \in Evictions : c \in wasUp /\ Reason(c)
    <3>1. \A c \in Evictions : c \in Losers \/ (c \in expired /\ snap[c] = "established")
      BY Zenon DEF Evictions
    <3>2. expired \subseteq Cids
      BY <1>0, Zenon DEF RestOK
    <3> QED BY <1>6, <1>8, <3>1, <3>2, Zenon DEF Reason
  <2> QED BY <1>0, <1>1, <1>10, <2>1, <2>2, Zenon DEF Justified
<1>16. proc' = 0 /\ orphans' = {}
  BY <1>10, Zenon DEF NewestInv
<1> QED BY <1>10, <1>12, <1>13, <1>14, <1>15, <1>16, Zenon DEF NewestInv

\* The oldest event has been taken, and brings no new entry.
LEMMA TakeQuiet ==
    ASSUME RebuildInv, NewestInv, NEW k, Becomes(k), Ordered(k), Late(k), Kept(Handler, k),
           events # <<>>, events' = Tail(events), link \in Caught,
           UNCHANGED <<vpnVars, link, snap, evictions>>,
           \A c \in Cids : vpn[c] = "authed" /\ k.cids[c] # {} /\ "promoted" \in cids[c] =>
               "promoted" \in k.cids[c],
           NEW S, Close(S), \A c \in S : Reason(c)
    PROVE  NewestInv'
<1>1. /\ \A c \in Cids : /\ vpn[c] = "none" => k.cids[c] = {}
                         /\ vpn[c] = "up" => k.cids[c] # {}
                         /\ vpn[c] = "authed" => "promoted" \in k.cids[c]
      /\ Past(k) \subseteq Past(Handler)
  BY KeptClients, Zenon
<1>2. events \in Seq(Events)
  BY NewestParts, Zenon DEF RestOK
<1>3. \A t : \A c \in Cids : Has(events', t, c) => Has(events, t, c)
  BY <1>2, TailHas, Zenon
<1>4. Sorted(events')
  BY <1>2, SortedTail, Zenon DEF NewestInv, Queue
<1>5. \A c \in Cids : Has(events', "CONNECT", c) => \A d \in Past(k) : d < c
  BY <1>1, <1>3, Zenon DEF NewestInv, Queue
<1>6. UNCHANGED <<vpnVars, link, snap>> /\ evictions' \subseteq evictions
  BY Zenon
<1> QED BY <1>1, <1>3, <1>4, <1>5, <1>6, DaemonStep, Zenon

\* A client is admitted, after its predecessor h has been dealt with.
LEMMA AdmitNewest ==
    ASSUME RebuildInv, NewestInv, NEW c \in Cids,
           events # <<>>, Head(events) = Ev("CONNECT", c), events' = Tail(events),
           link \in Caught, UNCHANGED <<vpnVars, link, snap, evictions>>,
           NEW h, Sane(h), Kept(Handler, h), Shrinks(Handler, h), Becomes(Admit(h, c)),
           \A d \in Cids : Id(d) = Id(c) =>
               "cancel" \notin h.cids[d] /\ "promoted" \notin h.cids[d],
           NEW S, Close(S), \A d \in S : Reason(d)
    PROVE  NewestInv'
<1> DEFINE k == Admit(h, c)
<1>0. /\ RestOK /\ Clients /\ Ordered(Handler) /\ Late(Handler) /\ wasUp \subseteq Cids
      /\ proc = 0 /\ events \in Seq(Events) /\ Queue(events, Handler)
  BY NewestParts, Zenon DEF NewestInv, RestOK
<1>1. Has(events, "CONNECT", c)
  <2>1. 1 \in 1 .. Len(events) /\ events[1] = Head(events)
    BY <1>0, Shapes
  <2> QED BY <2>1, Zenon DEF Has
<1>2. Ordered(h) /\ Late(h) /\ h \in HandlerType
  BY <1>0, ShrinksOrdered, ShrinksLate, Zenon DEF Sane
<1>3. /\ \A d \in Cids : /\ vpn[d] = "none" => h.cids[d] = {}
                         /\ vpn[d] = "up" => h.cids[d] # {}
                         /\ vpn[d] = "authed" => "promoted" \in h.cids[d]
      /\ Past(h) \subseteq Past(Handler)
  BY ShrinksClients, KeptClients, Zenon
<1>4. \A d \in Past(h) : d < c
  BY <1>0, <1>1, <1>3, Zenon DEF Queue
<1>5. /\ Ordered(k) /\ Late(k) /\ Past(k) \subseteq Past(h) \cup {c}
      /\ \A d \in Cids \ {c} : k.cids[d] = h.cids[d]
  BY <1>0, <1>2, <1>4, AdmitOrdered, Zenon
<1>6. vpn[c] # "none" /\ vpn[c] # "up" /\ vpn[c] # "authed"
  <2>1. c \notin Past(h)
    BY <1>4, CidsAre, Zenon
  <2>2. c \notin wasUp /\ h.cids[c] = {}
    BY <2>1, Zenon DEF Past
  <2>3. vpn[c] # "none"
    <3>1. Told(events, vpn[c], c)
      BY Zenon DEF RebuildInv, EventInv
    <3>2. Ev("CONNECT", c).cid = c
      BY DEF Ev
    <3> QED BY <1>1, <3>1, <3>2, Zenon DEF Told, Has
  <2> QED BY <1>3, <2>2, <2>3, Zenon
<1> HIDE DEF k
<1>7. \A d \in Cids : /\ vpn[d] = "none" => k.cids[d] = {}
                      /\ vpn[d] = "up" => k.cids[d] # {}
                      /\ vpn[d] = "authed" => "promoted" \in k.cids[d]
  <2>1. \A d \in Cids : d # c => k.cids[d] = h.cids[d]
    BY <1>5, Zenon
  <2> QED BY <1>3, <1>6, <2>1, Zenon
<1>8. \A t : \A d \in Cids : Has(events', t, d) => Has(events, t, d)
  BY <1>0, TailHas, Zenon
<1>9. Sorted(events')
  BY <1>0, SortedTail, Zenon DEF Queue
<1>10. ASSUME NEW d \in Cids, Has(events', "CONNECT", d) PROVE \A x \in Past(k) : x < d
  <2>1. c < d
    BY <1>0, <1>10, SortedTail, Zenon DEF Queue
  <2>2. \A x \in Past(Handler) : x < d
    BY <1>0, <1>8, <1>10, Zenon DEF Queue
  <2> QED BY <1>3, <1>5, <2>1, <2>2, Zenon
<1>11. UNCHANGED <<vpnVars, link, snap>> /\ evictions' \subseteq evictions /\ Becomes(k)
  BY Zenon DEF k
<1> QED BY <1>5, <1>7, <1>8, <1>9, <1>10, <1>11, DaemonStep, Zenon

LEMMA CleanupDrops ==
    ASSUME NEW h \in HandlerType, NEW c \in Cids, "promoted" \in h.cids[c]
    PROVE  CleanupPromoted(h, c).cids[c] = {}
  BY DEF CleanupPromoted, HandlerType

\* Only the attempt authenticates or is promoted.
LEMMA AloneIs ==
    ASSUME NewestInv, NEW c \in Cids, NEW h, Shrinks(Handler, h),
           attempt[Id(c)] \in Cids => /\ "cancel" \notin h.cids[attempt[Id(c)]]
                                      /\ "promoted" \notin h.cids[attempt[Id(c)]]
    PROVE  \A d \in Cids : Id(d) = Id(c) =>
               "cancel" \notin h.cids[d] /\ "promoted" \notin h.cids[d]
<1>1. \A d \in Cids : h.cids[d] \subseteq cids[d]
  BY HandlerFields, Zenon DEF Shrinks
<1>2. \A d \in Cids : Entry(Handler, d)
  BY Zenon DEF NewestInv, Ordered
<1>3. \A d \in Cids : "cancel" \in cids[d] \/ "promoted" \in cids[d] => attempt[Id(d)] = d
  BY <1>2, HandlerFields, Zenon DEF Entry
<1> QED BY <1>1, <1>3, Zenon

LEMMA ConnectNewest ==
    ASSUME RebuildInv, NewestInv, NEW c \in Cids,
           events # <<>>, Head(events) = Ev("CONNECT", c), events' = Tail(events),
           link \in Caught, UNCHANGED <<vpnVars, link, snap, evictions>>, HandleConnect(c)
    PROVE  NewestInv'
<1> DEFINE old == attempt[Id(c)]
           held == IF old = None THEN {} ELSE cids[old]
<1>0. /\ HandlerOK /\ RestOK /\ Clients /\ Sane(Handler) /\ Handler \in HandlerType
      /\ Ordered(Handler) /\ Late(Handler) /\ wasUp \subseteq Cids /\ proc = 0
      /\ Handler.cids = cids /\ Handler.attempt = attempt /\ TRUE \in BOOLEAN
      /\ Queue(events, Handler) /\ events \in Seq(Events)
  BY NewestParts, HandlerFields, Zenon DEF NewestInv, RestOK
<1>1. Identity(c) = Id(c) /\ Id(c) \in Identities /\ old \in OptCid
  BY <1>0, FirstProcess, IdIs, Zenon DEF HandlerOK
<1>2. \A d \in Cids : Entry(Handler, d)
  BY <1>0, Zenon DEF Ordered
<1>3. Kept(Handler, Handler) /\ Shrinks(Handler, Handler)
      /\ (UNCHANGED handlerVars => Becomes(Handler))
  BY SameShrinks, SameHandler, Zenon DEF Kept
<1>4. /\ \A d \in Cids : vpn[d] = "authed" /\ Handler.cids[d] # {} /\ "promoted" \in cids[d] =>
            "promoted" \in Handler.cids[d]
      /\ \A d \in {} : Reason(d)
  BY <1>0, ReasonIs, Zenon
<1>5. \A d \in {c} : Reason(d)
  <2>1. Has(events, "CONNECT", c)
    <3>1. 1 \in 1 .. Len(events) /\ events[1] = Head(events)
      BY <1>0, Shapes
    <3> QED BY <3>1, Zenon DEF Has
  <2>2. c \notin wasUp
    BY <1>0, <2>1, CidsAre, Zenon DEF Queue, Past
  <2>3. vpn[c] # "up"
    BY <1>0, <2>2, Zenon DEF Clients
  <2> QED BY <2>3, ReasonIs, Zenon
<1>6. \A f : f \in held => old \in Cids /\ held = cids[old] /\ old # None
  BY <1>1, CidsAre, Zenon DEF OptCid
<1>7. \/ UNCHANGED handlerVars /\ (Close({}) \/ Close({c}))
      \/ /\ "cancel" \notin held /\ "promoted" \notin held
         /\ Becomes(Admit(Handler, c)) /\ Close({})
      \/ /\ "cancel" \in held /\ Becomes(Admit(ClearInFlight(Handler, old), c))
         /\ Close(Pending({old}))
      \/ /\ "promoted" \in held /\ vpn[old] \notin Present
         /\ Becomes(Admit(CleanupPromoted(Handler, old), c)) /\ Close({})
      \/ /\ "promoted" \in held /\ vpn[old] = "up"
         /\ Becomes(Establish(Handler, old, TRUE))
         /\ Close({c} \cup Replaced(Handler, old))
  <2>1. held \cap {"cancel", "promoted"} = {} => "cancel" \notin held /\ "promoted" \notin held
    BY Zenon
  <2> HIDE DEF held, old
  <2> QED BY <1>1, <2>1, Zenon DEF HandleConnect, held, old
<1> HIDE DEF held
<1>8. CASE UNCHANGED handlerVars /\ (Close({}) \/ Close({c}))
  BY <1>0, <1>3, <1>4, <1>5, <1>8, TakeQuiet, Zenon
<1>9. CASE /\ "cancel" \notin held /\ "promoted" \notin held
           /\ Becomes(Admit(Handler, c)) /\ Close({})
  <2>1. old \in Cids => "cancel" \notin Handler.cids[old] /\ "promoted" \notin Handler.cids[old]
    BY <1>0, <1>9, CidsAre, Zenon DEF held
  <2>2. \A d \in Cids : Id(d) = Id(c) =>
            "cancel" \notin Handler.cids[d] /\ "promoted" \notin Handler.cids[d]
    BY <1>3, <2>1, AloneIs, Zenon
  <2> QED BY <1>0, <1>3, <1>4, <1>9, <2>2, AdmitNewest, Zenon
<1>10. CASE /\ "cancel" \in held /\ Becomes(Admit(ClearInFlight(Handler, old), c))
            /\ Close(Pending({old}))
  <2> DEFINE h == ClearInFlight(Handler, old)
  <2>1. old \in Cids /\ "cancel" \in cids[old]
    BY <1>6, <1>10, Zenon
  <2>2. /\ Sane(h) /\ Kept(Handler, h) /\ Shrinks(Handler, h)
        /\ h.cids[old] = cids[old] \ {"cancel", "failed"}
    BY <1>0, <2>1, ClearIs, ClearShrinks, Zenon
  <2>3. "cancel" \notin h.cids[old] /\ "promoted" \notin h.cids[old]
    BY <1>0, <1>2, <2>1, <2>2, Zenon DEF Entry
  <2> HIDE DEF h
  <2>4. \A d \in Cids : Id(d) = Id(c) =>
            "cancel" \notin h.cids[d] /\ "promoted" \notin h.cids[d]
    BY <2>2, <2>3, AloneIs, Zenon
  <2>5. Becomes(Admit(h, c)) /\ Close(Pending({old})) /\ \A d \in Pending({old}) : Reason(d)
    BY <1>10, ReasonIs, Zenon DEF h
  <2> QED BY <2>2, <2>4, <2>5, AdmitNewest, Zenon
<1>11. CASE /\ "promoted" \in held /\ vpn[old] \notin Present
            /\ Becomes(Admit(CleanupPromoted(Handler, old), c)) /\ Close({})
  <2> DEFINE h == CleanupPromoted(Handler, old)
  <2>1. old \in Cids /\ "promoted" \in cids[old]
    BY <1>6, <1>11, Zenon
  <2>2. Sane(h) /\ Kept(Handler, h) /\ Shrinks(Handler, h) /\ h.cids[old] = {}
    BY <1>0, <1>11, <2>1, CleanupIs, CleanupShrinks, CleanupDrops, Zenon
  <2> HIDE DEF h
  <2>3. \A d \in Cids : Id(d) = Id(c) =>
            "cancel" \notin h.cids[d] /\ "promoted" \notin h.cids[d]
    BY <2>2, AloneIs, Zenon
  <2>4. Becomes(Admit(h, c)) /\ Close({})
    BY <1>11, Zenon DEF h
  <2> QED BY <1>4, <2>2, <2>3, <2>4, AdmitNewest, Zenon
<1>12. CASE /\ "promoted" \in held /\ vpn[old] = "up"
            /\ Becomes(Establish(Handler, old, TRUE))
            /\ Close({c} \cup Replaced(Handler, old))
  <2> DEFINE k == Establish(Handler, old, TRUE)
  <2>1. old \in Cids /\ "promoted" \in Handler.cids[old] /\ old \in wasUp
    BY <1>0, <1>6, <1>12, Zenon DEF Clients
  <2>2. /\ Ordered(k) /\ Late(k) /\ Kept(Handler, k)
        /\ \A d \in Replaced(Handler, old) : d \in wasUp /\ Newer(d)
        /\ \A d \in Cids \ {old} : k.cids[d] # {} /\ "promoted" \in Handler.cids[d] =>
              "promoted" \in k.cids[d]
    BY <1>0, <2>1, EstablishOrdered, EstablishIs, Zenon
  <2>3. vpn[old] # "authed"
    BY <1>12
  <2> HIDE DEF k, old
  <2>4. \A d \in Cids : vpn[d] = "authed" /\ k.cids[d] # {} /\ "promoted" \in cids[d] =>
          "promoted" \in k.cids[d]
    BY <1>0, <2>2, <2>3, Zenon
  <2>5. \A d \in {c} \cup Replaced(Handler, old) : Reason(d)
    BY <1>5, <2>2, Zenon DEF Reason
  <2>6. Becomes(k) /\ Close({c} \cup Replaced(Handler, old))
    BY <1>12, Zenon DEF k
  <2> QED BY <2>2, <2>4, <2>5, <2>6, TakeQuiet, Zenon
<1> QED BY <1>7, <1>8, <1>9, <1>10, <1>11, <1>12, Zenon

LEMMA EstablishedNewest ==
    ASSUME RebuildInv, NewestInv, NEW c \in Cids,
           events # <<>>, Head(events) = Ev("ESTABLISHED", c), events' = Tail(events),
           link \in Caught, UNCHANGED <<vpnVars, link, snap, evictions>>,
           Becomes(Establish(Promote(Handler, c), c, FALSE)),
           Close(Replaced(Promote(Handler, c), c))
    PROVE  NewestInv'
<1> DEFINE k == Establish(Handler, c, FALSE)
<1>0. /\ RestOK /\ Clients /\ Sane(Handler) /\ Ordered(Handler) /\ Late(Handler)
      /\ wasUp \subseteq Cids /\ Handler.cids = cids /\ FALSE \in BOOLEAN
      /\ Queue(events, Handler) /\ events \in Seq(Events) /\ Entry(Handler, c)
  BY NewestParts, HandlerFields, Zenon DEF NewestInv, RestOK
<1>1. Has(events, "ESTABLISHED", c)
  <2>1. 1 \in 1 .. Len(events) /\ events[1] = Head(events)
    BY <1>0, Shapes
  <2> QED BY <2>1, Zenon DEF Has
<1>2. c \in wasUp
  BY <1>0, <1>1, Zenon DEF Queue
<1>3. "cancel" \notin Handler.cids[c]
  BY <1>0, <1>2, Zenon DEF Entry
<1>4. Promote(Handler, c) = Handler
  BY <1>3, Zenon DEF Promote
<1>5. \/ Handler.cids[c] = {} \/ "promoted" \in Handler.cids[c]
      \/ "established" \in Handler.cids[c] /\ Handler.active[Id(c)] = c
  BY <1>0, <1>1, <1>2, Zenon DEF Entry, Late
<1>6. /\ Ordered(k) /\ Late(k) /\ Kept(Handler, k)
      /\ \A d \in Replaced(Handler, c) : d \in wasUp /\ Newer(d)
      /\ \A d \in Cids \ {c} : k.cids[d] # {} /\ "promoted" \in Handler.cids[d] =>
            "promoted" \in k.cids[d]
  BY <1>0, <1>2, <1>5, EstablishOrdered, EstablishIs, Zenon
<1>7. vpn[c] # "authed"
  <2>1. vpn[c] \in {"up", "gone"}
    BY <1>0, <1>2, Zenon DEF Clients
  <2> QED BY <2>1
<1> HIDE DEF k
<1>8. \A d \in Cids : vpn[d] = "authed" /\ k.cids[d] # {} /\ "promoted" \in cids[d] =>
        "promoted" \in k.cids[d]
  BY <1>0, <1>6, <1>7, Zenon
<1>9. /\ \A d \in Replaced(Handler, c) : Reason(d)
      /\ Becomes(k) /\ Close(Replaced(Handler, c))
  BY <1>4, <1>6, Zenon DEF Reason, k
<1> QED BY <1>6, <1>8, <1>9, TakeQuiet, Zenon

LEMMA DisconnectNewest ==
    ASSUME RebuildInv, NewestInv, NEW c \in Cids,
           events # <<>>, Head(events) = Ev("DISCONNECT", c), events' = Tail(events),
           link \in Caught, UNCHANGED <<vpnVars, link, snap, evictions>>,
           Becomes(Drop(Handler, {c})), Close({})
    PROVE  NewestInv'
<1> DEFINE k == Drop(Handler, {c})
<1>0. /\ RestOK /\ Sane(Handler) /\ Ordered(Handler) /\ Late(Handler)
      /\ Handler \in HandlerType /\ events \in Seq(Events) /\ Handler.cids = cids
  BY NewestParts, HandlerFields, Zenon DEF RestOK
<1>1. Has(events, "DISCONNECT", c)
  <2>1. 1 \in 1 .. Len(events) /\ events[1] = Head(events)
    BY <1>0, Shapes
  <2> QED BY <2>1, Zenon DEF Has
<1>2. \A d \in {c} : vpn[d] \notin Present
  BY <1>1, Zenon DEF RebuildInv, EventInv, Told
<1>3. Kept(Handler, k) /\ Shrinks(Handler, k)
  BY <1>0, <1>2, DropKept, DropShrinks, Zenon
<1> HIDE DEF k
<1>4. Ordered(k) /\ Late(k)
  BY <1>0, <1>3, ShrinksOrdered, ShrinksLate, Zenon
<1>5. \A d \in Cids : vpn[d] = "authed" /\ k.cids[d] # {} /\ "promoted" \in cids[d] =>
        "promoted" \in k.cids[d]
  BY <1>0, <1>3, ShrinksClients, Zenon
<1>6. Becomes(k) /\ \A d \in {} : Reason(d)
  BY Zenon DEF k
<1> QED BY <1>3, <1>4, <1>5, <1>6, TakeQuiet, Zenon

LEMMA TakeNewest ==
    ASSUME RebuildInv, NewestInv, TakeEvent
    PROVE  NewestInv'
<1> DEFINE e == Head(events)
<1>0. /\ events # <<>> /\ events' = Tail(events) /\ HandleEvent(e)
      /\ UNCHANGED <<vpnVars, link, snap, evictions>> /\ link \in Caught
  BY Zenon DEF TakeEvent, Caught
<1>1. e \in Events
  BY <1>0, NewestParts, Shapes, Zenon DEF RestOK
<1>2. e.cid \in Cids /\ e = Ev(e.type, e.cid)
  BY <1>1 DEF Events, Ev
<1>3. CASE e.type = "CONNECT" /\ HandleConnect(e.cid)
  BY <1>0, <1>2, <1>3, ConnectNewest, Zenon
<1>4. CASE /\ e.type = "ESTABLISHED"
           /\ Becomes(Establish(Promote(Handler, e.cid), e.cid, FALSE))
           /\ Close(Replaced(Promote(Handler, e.cid), e.cid))
  BY <1>0, <1>2, <1>4, EstablishedNewest, Zenon
<1>5. CASE e.type = "DISCONNECT" /\ Becomes(Drop(Handler, {e.cid})) /\ Close({})
  BY <1>0, <1>2, <1>5, DisconnectNewest, Zenon
<1> QED BY <1>0, <1>3, <1>4, <1>5, Zenon DEF HandleEvent

LEMMA NewestInvInit == ASSUME RebuildInv, Init PROVE NewestInv
<1>1. Handler.cids = cids /\ Handler.attempt = attempt /\ Handler.active = active
      /\ Handler.timers = timers /\ Handler.lost = lost /\ Handler.born = born
  BY HandlerFields, Zenon
<1>2. \A t : \A c \in Cids : ~Has(events, t, c)
  <2>1. \A i \in 1 .. Len(<<>>) : FALSE
    OBVIOUS
  <2> QED BY <2>1, Zenon DEF Init, Has
<1>3. Sorted(events)
  <2>1. \A i \in 1 .. Len(<<>>) : FALSE
    OBVIOUS
  <2> QED BY <2>1, Zenon DEF Init, Sorted
<1>4. /\ \A c \in Cids : cids[c] = {} /\ vpn[c] = "none" /\ since[c] = 0 /\ born[c] = 0
      /\ wasUp = {} /\ timers = {} /\ lost = {} /\ now = 0 /\ proc = 0 /\ orphans = {}
      /\ closing = {} /\ evictions = {} /\ link = "live"
      /\ \A i \in Identities : attempt[i] = None /\ active[i] = None
  BY Zenon DEF Init
<1>5. Ordered(Handler)
  BY <1>1, <1>4, Zenon DEF Ordered, Entry, Index
<1>6. Late(Handler) /\ Queue(events, Handler)
  BY <1>2, <1>3, Zenon DEF Late, Queue
<1>7. Clients
  <2>1. "none" # "up" /\ "none" # "authed" /\ 0 <= 0
    OBVIOUS
  <2> QED BY <1>4, <2>1, Zenon DEF Clients
<1>8. Rowed /\ Justified
  <2>1. link # "snapped"
    BY <1>4
  <2> QED BY <1>2, <1>4, <2>1, Zenon DEF Rowed, Justified
<1> QED BY <1>4, <1>5, <1>6, <1>7, <1>8, Zenon DEF NewestInv

LEMMA StutterNewest == ASSUME RebuildInv, NewestInv, UNCHANGED vars PROVE NewestInv'
<1>1. UNCHANGED <<handlerVars, vpnVars, bootVars, closing, events>>
  BY Zenon DEF vars
<1>2. UNCHANGED <<proc, vpn, since, now, expired, wasUp, orphans, link, snap, evictions>>
  BY <1>1, Zenon DEF vpnVars, lifeVars, bootVars
<1>3. Ordered(Handler)' /\ Late(Handler)' /\ Queue(events, Handler)' /\ UNCHANGED cids
  BY <1>1, <1>2, IdleOrdered, Zenon
<1>4. Clients' /\ Rowed' /\ Justified'
  BY <1>1, <1>2, <1>3, Zenon DEF NewestInv, Clients, Rowed, Justified, Reason, Newer, Has
<1> QED BY <1>2, <1>3, <1>4, Zenon DEF NewestInv

LEMMA NewestInvStep ==
    ASSUME calm, calm', RebuildInv, NewestInv, [Next]_vars PROVE NewestInv'
<1>1. CASE UNCHANGED vars
  BY <1>1, StutterNewest, Zenon
<1>2. CASE Tick \/ \E c \in Cids : Expire(c)
  BY <1>2, ClockNewest, Zenon
<1>3. CASE LinkLost \/ DaemonRestart \/ VpnRestart \/ EventCut
  BY <1>3, LinkNewest, EventCutNewest, Zenon
<1>4. CASE Boot
  BY <1>4, LinkNewest, RebuildNewest, TakeNewest, EvictionNewest, Zenon DEF Boot
<1>5. ASSUME NEW c \in Cids,
             \/ VpnConnect(c) \/ VpnEstablish(c) \/ VpnLeave(c) \/ Authorize(c)
             \/ AuthTimeout(c) \/ PromotedDeadline(c) \/ ExpiryFires(c) \/ DeadlineCut(c)
             \/ LostAuthorize(c) \/ LostTimeout(c) \/ LostDeadline(c) \/ LostExpiry(c)
      PROVE  NewestInv'
  BY <1>5, VisitNewest, EstablishNewest, AuthorizeNewest, TimersNewest, DeadlineCutNewest, Zenon
<1> QED BY <1>1, <1>2, <1>3, <1>4, <1>5, Zenon DEF Next

\* Once there has been a fault or a restart, there has been one.
LEMMA CalmBefore == ASSUME calm \in BOOLEAN, [Next]_vars, calm' PROVE calm
<1>1. CASE UNCHANGED vpnVars
  BY <1>1, Zenon DEF vpnVars
<1>2. CASE Tick \/ (\E c \in Cids : Expire(c)) \/ DaemonRestart \/ VpnRestart
  BY <1>2, Zenon DEF Tick, Expire, DaemonRestart, VpnRestart
<1>3. ASSUME NEW c \in Cids, VpnConnect(c) \/ VpnEstablish(c) \/ VpnLeave(c) \/ Authorize(c)
      PROVE  calm
  BY <1>3, Zenon DEF VpnConnect, VpnEstablish, VpnLeave, Authorize
<1>4. ASSUME NEW c \in Cids, PromotedDeadline(c) \/ DeadlineCut(c) \/ LostAuthorize(c)
      PROVE  calm
  BY <1>4, Zenon DEF PromotedDeadline, DeadlineCut, LostAuthorize
<1>5. CASE LinkLost \/ EventCut \/ Boot
  BY <1>1, <1>5, Zenon DEF LinkLost, EventCut, Boot, Dial, BootStatus, RebuildSessionTracking,
                           TakeEvent, SendEviction, BootDone
<1>6. ASSUME NEW c \in Cids,
             AuthTimeout(c) \/ ExpiryFires(c) \/ LostTimeout(c) \/ LostDeadline(c) \/ LostExpiry(c)
      PROVE  calm
  BY <1>1, <1>6, Zenon DEF AuthTimeout, ExpiryFires, LostTimeout, LostDeadline, LostExpiry
<1>7. UNCHANGED vars => UNCHANGED vpnVars
  BY Zenon DEF vars
<1> QED BY <1>1, <1>2, <1>3, <1>4, <1>5, <1>6, <1>7, Zenon DEF Next

LEMMA NewestInvAlways == Spec => [](calm => NewestInv)
<1>1. RebuildInv /\ Init => NewestInv
  BY NewestInvInit
<1>2. RebuildInv /\ (calm => NewestInv) /\ [Next]_vars => (calm => NewestInv)'
  <2> SUFFICES ASSUME RebuildInv, calm => NewestInv, [Next]_vars, calm' PROVE NewestInv'
    OBVIOUS
  <2>1. calm
    BY CalmBefore, TypeParts, Zenon DEF RebuildInv, RestOK
  <2> QED BY <2>1, NewestInvStep, Zenon
<1> QED BY <1>1, <1>2, RebuildInvAlways, PTL DEF Spec

\* establishCID, expireSession, the rebuild and its evictions end the session of
\* a client that is up for two reasons only, its time is over or a newer client
\* of its identity has been established, wherever the connection is lost: so it
\* is until the first restart or fault.
THEOREM NewestAlwaysKept == Spec => []NewestKept
<1>1. ASSUME RebuildInv, calm => NewestInv PROVE NewestKept
  <2> SUFFICES ASSUME NewestInv
               PROVE  \A c \in closing :
                          \/ vpn[c] # "up" \/ c \in expired
                          \/ \E d \in wasUp : Identity(d) = Identity(c) /\ d > c
    BY <1>1, Zenon DEF NewestKept
  <2>1. \A c \in closing : vpn[c] # "up" \/ c \in expired \/ Newer(c)
    BY Zenon DEF NewestInv, Justified, Reason
  <2>2. /\ closing \subseteq Cids /\ wasUp \subseteq Cids
        /\ \A c \in Cids : Identity(c) = Id(c)
    BY <1>1, NewestParts, FirstProcess, Zenon DEF RestOK
  <2> QED BY <2>1, <2>2, Zenon DEF Newer
<1>2. RebuildInv /\ (calm => NewestInv) => NewestKept
  BY <1>1
<1> QED BY <1>2, RebuildInvAlways, NewestInvAlways, PTL

\* MarkAuthenticated, the rebuild and the pruning keep an entry for every client
\* that has been let in, wherever the connection is lost.  A restart of the
\* daemon is what breaks it: the rebuild restores established rows only.
THEOREM AuthorizedAlwaysTracked == Spec => [](calm => AuthorizedTracked)
<1>1. ASSUME RebuildInv, NewestInv PROVE AuthorizedTracked
  <2>1. Clients
    BY <1>1, Zenon DEF NewestInv
  <2>2. ASSUME NEW c \in Cids, vpn[c] \in {"authed", "up"} PROVE cids[c] # {}
    BY <2>1, <2>2, Zenon DEF Clients
  <2> QED BY <2>2, Zenon DEF AuthorizedTracked
<1>2. RebuildInv /\ (calm => NewestInv) => (calm => AuthorizedTracked)
  BY <1>1
<1> QED BY <1>2, RebuildInvAlways, NewestInvAlways, PTL

\* Of clients that have been established one is the newest: they are finitely
\* many, as they come one after the other.
Greatest == \A S \in SUBSET wasUp : S # {} => \E m \in S : \A d \in S : d <= m

\* wasUp grows by one client at a time, or starts again.
LEMMA WasUpIs ==
    ASSUME [Next]_vars
    PROVE  wasUp' = wasUp \/ wasUp' = {} \/ \E c \in Cids : wasUp' = wasUp \cup {c}
<1>1. CASE UNCHANGED lifeVars
  BY <1>1, Zenon DEF lifeVars
<1>2. CASE Tick \/ (\E c \in Cids : Expire(c)) \/ DaemonRestart \/ VpnRestart
  BY <1>2, Zenon DEF Tick, Expire, DaemonRestart, VpnRestart
<1>3. ASSUME NEW c \in Cids,
             VpnConnect(c) \/ VpnEstablish(c) \/ VpnLeave(c) \/ Authorize(c) \/ LostAuthorize(c)
      PROVE  wasUp' = wasUp \/ \E d \in Cids : wasUp' = wasUp \cup {d}
  BY <1>3, Zenon DEF VpnConnect, VpnEstablish, VpnLeave, Authorize, LostAuthorize
<1>4. CASE LinkLost \/ EventCut \/ Boot
  BY <1>1, <1>4, Zenon DEF LinkLost, EventCut, Boot, Dial, BootStatus, RebuildSessionTracking,
                           TakeEvent, SendEviction, BootDone, vpnVars
<1>5. ASSUME NEW c \in Cids,
             \/ AuthTimeout(c) \/ PromotedDeadline(c) \/ DeadlineCut(c) \/ ExpiryFires(c)
             \/ LostTimeout(c) \/ LostDeadline(c) \/ LostExpiry(c)
      PROVE  UNCHANGED lifeVars
  BY <1>5, Zenon DEF AuthTimeout, PromotedDeadline, DeadlineCut, ExpiryFires,
                     LostTimeout, LostDeadline, LostExpiry, vpnVars
<1>6. UNCHANGED vars => UNCHANGED lifeVars
  BY Zenon DEF vars, vpnVars
<1> QED BY <1>1, <1>2, <1>3, <1>4, <1>5, <1>6, Zenon DEF Next

LEMMA GreatestAlways == Spec => []Greatest
<1>1. Init => Greatest
  BY Zenon DEF Init, Greatest
<1>2. ASSUME RebuildInv, Greatest, [Next]_vars PROVE Greatest'
  <2> SUFFICES ASSUME NEW S \in SUBSET wasUp', S # {} PROVE \E m \in S : \A d \in S : d <= m
    BY Zenon DEF Greatest
  <2>1. CASE wasUp' = wasUp \/ wasUp' = {}
    BY <1>2, <2>1, Zenon DEF Greatest
  <2>2. ASSUME NEW c \in Cids, wasUp' = wasUp \cup {c}
        PROVE  \E m \in S : \A d \in S : d <= m
    <3>1. wasUp \subseteq Cids
      BY <1>2, TypeParts, Zenon DEF RebuildInv, RestOK
    <3>2. S \subseteq Cids /\ S \ {c} \in SUBSET wasUp
      BY <2>2, <3>1, Zenon
    <3>3. CASE S \ {c} = {}
      <4>1. c \in S /\ \A d \in S : d = c
        BY <3>3, Zenon
      <4>2. c <= c
        BY CidsAre, Zenon
      <4> QED BY <4>1, <4>2, Zenon
    <3>4. CASE S \ {c} # {}
      <4>1. PICK m \in S \ {c} : \A d \in S \ {c} : d <= m
        BY <1>2, <3>2, <3>4, Zenon DEF Greatest
      <4>2. m \in Nat /\ c \in Nat /\ \A d \in S : d \in Nat
        BY <3>2, CidsAre, Zenon
      <4>3. CASE c \in S /\ m <= c
        BY <4>1, <4>2, <4>3
      <4>4. CASE ~(c \in S /\ m <= c)
        BY <4>1, <4>2, <4>4
      <4> QED BY <4>3, <4>4, Zenon
    <3> QED BY <3>3, <3>4, Zenon
  <2> QED BY <1>2, <2>1, <2>2, WasUpIs, Zenon
<1>3. RebuildInv /\ Greatest /\ [Next]_vars => Greatest'
  BY <1>2
<1> QED BY <1>1, <1>3, RebuildInvAlways, PTL DEF Spec

\* Who is told to go is decided by the daemon alone.
LEMMA ClosingAlone ==
    ASSUME [Next]_vars PROVE UNCHANGED lifeVars \/ closing' \subseteq closing
<1>1. CASE UNCHANGED vars
  BY <1>1, Zenon DEF vars, vpnVars
<1>2. CASE Tick \/ \E c \in Cids : Expire(c)
  BY <1>2, Zenon DEF Tick, Expire
<1>3. CASE LinkLost \/ DaemonRestart \/ VpnRestart \/ EventCut
  BY <1>3, Zenon DEF LinkLost, DaemonRestart, VpnRestart, EventCut
<1>4. CASE Boot
  BY <1>4, Zenon DEF Boot, Dial, BootStatus, RebuildSessionTracking, TakeEvent, SendEviction, BootDone,
                     vpnVars
<1>5. ASSUME NEW c \in Cids, VpnConnect(c) \/ VpnEstablish(c) \/ VpnLeave(c) \/ Authorize(c)
      PROVE  closing' \subseteq closing
  BY <1>5, Zenon DEF VpnConnect, VpnEstablish, VpnLeave, Authorize
<1>6. ASSUME NEW c \in Cids,
             \/ AuthTimeout(c) \/ PromotedDeadline(c) \/ ExpiryFires(c) \/ DeadlineCut(c)
             \/ LostAuthorize(c) \/ LostTimeout(c) \/ LostDeadline(c) \/ LostExpiry(c)
      PROVE  UNCHANGED lifeVars \/ closing' \subseteq closing
  BY <1>6, Zenon DEF AuthTimeout, PromotedDeadline, ExpiryFires, LostAuthorize,
                     LostTimeout, LostDeadline, LostExpiry, DeadlineCut, vpnVars
<1> QED BY <1>1, <1>2, <1>3, <1>4, <1>5, <1>6, Zenon DEF Next

\* A replacement is never told to go along with what it replaces: whenever
\* establishCID, the rebuild or a CONNECT ends a session before its time is
\* over, another client of its identity has been established that is kept.  It
\* is the newest one.  So it is until the first restart or fault.
THEOREM ReplacementAlwaysKept == Spec => [][calm' => LeavesReplacement]_vars
<1>1. ASSUME RebuildInv, NewestInv, RebuildInv', NewestInv', Greatest, [Next]_vars
      PROVE  LeavesReplacement
  <2> SUFFICES ASSUME NEW c \in closing' \ (closing \cup expired), vpn[c] = "up"
               PROVE  \E d \in wasUp \ (closing' \ expired) :
                          d # c /\ Identity(d) = Identity(c)
    BY Zenon DEF LeavesReplacement
  <2>1. UNCHANGED lifeVars
    BY <1>1, ClosingAlone, Zenon
  <2>2. UNCHANGED <<vpn, wasUp, expired>>
    BY <2>1, Zenon DEF lifeVars
  <2>3. /\ wasUp \subseteq Cids /\ \A d \in Cids : Identity(d) = Id(d)
        /\ \A d \in wasUp : vpn[d] \in {"up", "gone"}
    BY <1>1, NewestParts, FirstProcess, Zenon DEF Clients
  <2>4. /\ closing' \subseteq Cids
        /\ \A d \in closing' : /\ vpn[d] \in Present
                               /\ vpn[d] # "up" \/ d \in expired \/ Newer(d)
    BY <1>1, <2>2, Zenon DEF RebuildInv, TypeOK, NewestInv, Justified, Reason, Newer
  <2> DEFINE S == {d \in wasUp : Id(d) = Id(c)}
  <2>5. PICK d \in S : d > c
    BY <2>4, Zenon DEF Newer
  <2>6. PICK m \in S : \A x \in S : x <= m
    <3>1. S \in SUBSET wasUp /\ S # {}
      BY <2>5, Zenon
    <3> HIDE DEF S
    <3> QED BY <1>1, <3>1, Zenon DEF Greatest
  <2>7. m \in Cids /\ c \in Cids /\ d \in Cids /\ m \in wasUp /\ Id(m) = Id(c)
    BY <2>3, <2>4, <2>5, <2>6, Zenon
  <2>8. m # c
    BY <2>5, <2>6, <2>7, CidsAre
  <2>9. m \notin closing' \ expired
    <3>1. SUFFICES ASSUME m \in closing', m \notin expired PROVE FALSE
      BY Zenon
    <3>2. vpn[m] = "up"
      <4>1. vpn[m] \in Present /\ vpn[m] \in {"up", "gone"}
        BY <2>3, <2>4, <2>7, <3>1, Zenon
      <4> QED BY <4>1 DEF Present
    <3>3. PICK x \in wasUp : Id(x) = Id(m) /\ x > m
      BY <2>4, <3>1, <3>2, Zenon DEF Newer
    <3>4. x \in S /\ x \in Cids
      BY <2>3, <2>7, <3>3, Zenon
    <3>5. x <= m
      BY <2>6, <3>4, Zenon
    <3> QED BY <2>7, <3>3, <3>4, <3>5, CidsAre
  <2> QED BY <2>3, <2>7, <2>8, <2>9, Zenon
<1>2. RebuildInv /\ (calm => NewestInv) /\ RebuildInv' /\ (calm => NewestInv)'
      /\ Greatest /\ [Next]_vars
         => [calm' => LeavesReplacement]_vars
  <2> SUFFICES ASSUME RebuildInv, calm => NewestInv, RebuildInv', (calm => NewestInv)',
                      Greatest, [Next]_vars, calm'
               PROVE  LeavesReplacement
    OBVIOUS
  <2>1. calm
    BY CalmBefore, TypeParts, Zenon DEF RebuildInv, RestOK
  <2> QED BY <1>1, <2>1, Zenon
<1> QED BY <1>2, RebuildInvAlways, NewestInvAlways, GreatestAlways, PTL DEF Spec
=============================================================================
