---------------------------- MODULE ReauthProofs ----------------------------
(***************************************************************************)
(* REAUTH for any number of overlapping checks, any timeout, lifetime and  *)
(* configuration: RevocationTakesEffect, BackstopHolds and ValidEntryKept. *)
(*                                                                         *)
(* All three rest on what a result is worth.  It is stamped before the     *)
(* first call to Cognito, so whatever it says of the account was true at   *)
(* or after its stamp (Sound), also once it has become the cache entry;    *)
(* and a running check is never older than the timeout (FreshInv).         *)
(***************************************************************************)
EXTENDS Reauth, TLAPS

\* The history is of the account as it is.
HistoryInv ==
    /\ lastOk <= now /\ (account = "enabled" => lastOk = now)
    /\ lastIn <= now /\ (inGroup => lastIn = now)

\* What res says of the user was so at its stamp or later.
Sound(res) ==
    /\ res.checkedAt <= now
    /\ res.enabled => res.checkedAt <= lastOk
    /\ CheckGroup /\ res.inGroup => res.checkedAt <= lastIn

SoundInv ==
    /\ \A g \in Gs : Sound(result[g])
    /\ \A g \in Gs : gpc[g] \in {"idle", "getUser"} =>
                        ~result[g].enabled /\ ~result[g].inGroup
    /\ \A g \in Gs : gpc[g] = "listGroups" => ~result[g].inGroup
    /\ cache # None => Sound(cache)

\* A running check has time left, and began within the session.
Running(g) == gpc[g] \notin {"idle", "done"}
FreshInv ==
    \A g \in Gs : Running(g) => now <= result[g].checkedAt + ReauthTimeout
SessionInv ==
    \A g \in Gs : Running(g) /\ MaxSessionDuration > 0 =>
        /\ exp[g] # None
        /\ result[g].checkedAt - exp[g] <= MaxSessionDuration

ReauthInv == TypeOK /\ HistoryInv /\ SoundInv /\ FreshInv /\ SessionInv

-----------------------------------------------------------------------------
(* Types. *)

Pcs == {"idle", "put", "finish", "cache", "evict", "done", "getUser", "listGroups"}

LEMMA PcsAll ==
    {"idle", "put", "finish", "cache", "evict", "done"} \cup Calling = Pcs
BY DEF Calling, Pcs

LEMMA TimesNat == Times \subseteq Nat /\ MaxTime \in Nat /\ 0 \in Times
<1>1. MaxTime \in Nat
  BY ReauthAssumption DEF ReauthAssumption
<1> QED BY <1>1 DEF Times

LEMMA ResultFields ==
    ASSUME NEW res \in Results
    PROVE  /\ res.exists \in BOOLEAN /\ res.enabled \in BOOLEAN
           /\ res.inGroup \in BOOLEAN /\ res.checkedAt \in Times
           /\ res.checkedAt \in Nat /\ res # None
<1>1. /\ res.exists \in BOOLEAN /\ res.enabled \in BOOLEAN
      /\ res.inGroup \in BOOLEAN /\ res.checkedAt \in Times
  BY Zenon DEF Results
<1>2. res \in [exists : BOOLEAN, enabled : BOOLEAN, inGroup : BOOLEAN,
               checkedAt : Nat]
  BY TimesNat, Zenon DEF Results
<1> QED BY <1>1, <1>2, TimesNat, ReauthAssumption, Zenon DEF ReauthAssumption

LEMMA ConfigFields ==
    ASSUME TypeOK
    PROVE  /\ MaxSessionDuration \in Nat /\ ReauthTimeout \in Nat /\ Ttl \in Nat
           /\ CheckGroup \in BOOLEAN
<1>1. cfg \in [max : Nat, cache : BOOLEAN, skip : BOOLEAN, group : BOOLEAN]
  BY ReauthAssumption, Zenon DEF TypeOK, ReauthAssumption
<1>2. cfg.max \in Nat /\ cfg.group \in BOOLEAN
  BY <1>1, Zenon
<1> QED BY <1>2, ReauthAssumption
        DEF ReauthAssumption, MaxSessionDuration, CheckGroup

\* What a goroutine does to the others: nothing.
Alone(g) ==
    \A h \in Gs \ {g} : /\ gpc'[h] = gpc[h] /\ result'[h] = result[h]
                        /\ exp'[h] = exp[h] /\ answer'[h] = answer[h]

\* ... and to what outlives it.
Inside == UNCHANGED <<cfg, now, account, inGroup, expiry, lastOk, lastIn>>

LEMMA GoType ==
    ASSUME TypeOK, NEW g \in Gs, NEW pc \in Pcs, Go(g, pc)
    PROVE  /\ gpc' \in [Gs -> {"idle", "put", "finish", "cache", "evict", "done"}
                              \cup Calling]
           /\ gpc'[g] = pc /\ \A h \in Gs \ {g} : gpc'[h] = gpc[h]
<1>1. gpc \in [Gs -> Pcs] /\ gpc' = [gpc EXCEPT ![g] = pc]
  BY PcsAll, Zenon DEF TypeOK, Go
<1> QED BY <1>1, PcsAll, Zenon

LEMMA SendType ==
    ASSUME TypeOK, NEW g \in Gs, Send(g, answer'[g]),
           answer'[g] \in {"none", "allow", "cached", "skipped", "deny"}
    PROVE  /\ gpc' \in [Gs -> {"idle", "put", "finish", "cache", "evict", "done"}
                              \cup Calling]
           /\ gpc'[g] = "done" /\ \A h \in Gs \ {g} : gpc'[h] = gpc[h]
           /\ answer' \in [Gs -> {"none", "allow", "cached", "skipped", "deny"}]
           /\ \A h \in Gs \ {g} : answer'[h] = answer[h]
<1>1. "done" \in Pcs /\ Go(g, "done")
  BY DEF Pcs, Send
<1>2. PICK a \in {"none", "allow", "cached", "skipped", "deny"} : a = answer'[g]
  BY Zenon
<1>3. answer' = [answer EXCEPT ![g] = a]
  BY <1>2, Zenon DEF Send
<1> QED BY <1>1, <1>3, GoType, Zenon DEF TypeOK

-----------------------------------------------------------------------------
(* A result stays worth what it was worth. *)

LEMMA SoundKept ==
    ASSUME TypeOK, NEW res \in Results, Sound(res), UNCHANGED cfg,
           now' \in Nat, lastOk' \in Nat, lastIn' \in Nat,
           now <= now', lastOk <= lastOk', lastIn <= lastIn'
    PROVE  Sound(res)'
<1>1. res.checkedAt \in Nat
  BY ResultFields, Zenon
<1>2. now \in Nat /\ lastOk \in Nat /\ lastIn \in Nat
  BY TimesNat DEF TypeOK
<1>3. CheckGroup' = CheckGroup
  BY Zenon DEF CheckGroup
<1>4. /\ res.checkedAt <= now => res.checkedAt <= now'
      /\ res.checkedAt <= lastOk => res.checkedAt <= lastOk'
      /\ res.checkedAt <= lastIn => res.checkedAt <= lastIn'
  BY <1>1, <1>2, SMT
<1> QED BY <1>3, <1>4, Zenon DEF Sound

\* The world moves on: nothing about the goroutines changes.
LEMMA OutsideStep ==
    ASSUME ReauthInv, UNCHANGED <<cfg, cache, gpc, result, exp, answer>>,
           now' \in Times, lastOk' \in Times, lastIn' \in Times,
           account' \in Accounts, inGroup' \in BOOLEAN,
           expiry' \in Times \cup {None},
           now <= now', lastOk <= lastOk', lastIn <= lastIn', HistoryInv',
           \A g \in Gs : Running(g) => now' <= result[g].checkedAt + ReauthTimeout
    PROVE  ReauthInv'
<1>1. TypeOK /\ TypeOK'
  BY Zenon DEF ReauthInv, TypeOK
<1>2. now' \in Nat /\ lastOk' \in Nat /\ lastIn' \in Nat
  BY TimesNat
<1>3. \A res \in Results : Sound(res) => Sound(res)'
  BY <1>1, <1>2, SoundKept, Zenon
<1>4. SoundInv'
  <2>1. \A g \in Gs : result[g] \in Results
    BY <1>1, Zenon DEF TypeOK
  <2>2. cache # None => cache \in Results
    BY <1>1, Zenon DEF TypeOK
  <2>3. \A g \in Gs : Sound(result[g])'
    BY <1>3, <2>1, Zenon DEF ReauthInv, SoundInv, Sound
  <2>4. cache' # None => Sound(cache)'
    BY <1>3, <2>2, Zenon DEF ReauthInv, SoundInv, Sound
  <2> QED BY <2>3, <2>4, Zenon DEF ReauthInv, SoundInv
<1>5. FreshInv' /\ SessionInv'
  BY Zenon DEF ReauthInv, FreshInv, SessionInv, Running, MaxSessionDuration
<1> QED BY <1>1, <1>4, <1>5, Zenon DEF ReauthInv

LEMMA TickStep == ASSUME ReauthInv, Tick PROVE ReauthInv'
<1>1. /\ now \in Nat /\ lastOk \in Nat /\ lastIn \in Nat
      /\ now < MaxTime /\ now' = now + 1 /\ lastOk <= now /\ lastIn <= now
      /\ lastOk' = IF account = "enabled" THEN now + 1 ELSE lastOk
      /\ lastIn' = IF inGroup THEN now + 1 ELSE lastIn
      /\ UNCHANGED <<cfg, account, inGroup, expiry, cache, gpc, result, exp, answer>>
  BY TimesNat DEF ReauthInv, TypeOK, HistoryInv, Tick
<1>2. /\ now' \in Times /\ lastOk' \in Times /\ lastIn' \in Times
      /\ now <= now' /\ lastOk <= lastOk' /\ lastIn <= lastIn'
      /\ lastOk' <= now' /\ lastIn' <= now'
  BY <1>1, TimesNat DEF Times
<1>3. HistoryInv'
  BY <1>1, <1>2, Zenon DEF HistoryInv
<1>4. ASSUME NEW g \in Gs, Running(g)
      PROVE  now' <= result[g].checkedAt + ReauthTimeout
  <2>1. now < result[g].checkedAt + ReauthTimeout
    <3>1. gpc[g] \in Calling
      BY <1>4, Zenon DEF Tick, Running
    <3> QED BY <3>1, Zenon DEF Tick
  <2>2. result[g].checkedAt \in Nat /\ ReauthTimeout \in Nat
    BY ResultFields, ConfigFields, Zenon DEF ReauthInv, TypeOK
  <2> QED BY <1>1, <2>1, <2>2
<1>5. account' \in Accounts /\ inGroup' \in BOOLEAN /\ expiry' \in Times \cup {None}
  BY <1>1, Zenon DEF ReauthInv, TypeOK
<1> QED BY <1>1, <1>2, <1>3, <1>4, <1>5, OutsideStep, Zenon

LEMMA ChangeStep ==
    ASSUME ReauthInv, ChangeAccount \/ ChangeGroup \/ LoseTracking PROVE ReauthInv'
<1>1. /\ now \in Nat /\ lastOk \in Nat /\ lastIn \in Nat
      /\ lastOk <= now /\ lastIn <= now
      /\ now \in Times /\ lastOk \in Times /\ lastIn \in Times
      /\ account \in Accounts /\ inGroup \in BOOLEAN /\ expiry \in Times \cup {None}
  BY TimesNat DEF ReauthInv, TypeOK, HistoryInv
<1>2. UNCHANGED <<cfg, now, cache, gpc, result, exp, answer>>
  BY Zenon DEF ChangeAccount, ChangeGroup, LoseTracking
<1>3. /\ lastOk' \in {lastOk, now} /\ lastIn' \in {lastIn, now}
      /\ account' \in Accounts /\ inGroup' \in BOOLEAN /\ expiry' \in Times \cup {None}
      /\ account' = "enabled" => lastOk' = now
      /\ inGroup' => lastIn' = now
  <2>1. CASE ChangeAccount
    BY <1>1, <2>1 DEF ChangeAccount, ReauthInv, HistoryInv
  <2>2. CASE ChangeGroup
    BY <1>1, <2>2 DEF ChangeGroup, ReauthInv, HistoryInv
  <2>3. CASE LoseTracking
    BY <1>1, <2>3, Zenon DEF LoseTracking, ReauthInv, HistoryInv
  <2> QED BY <2>1, <2>2, <2>3
<1>4. /\ now' \in Times /\ lastOk' \in Times /\ lastIn' \in Times
      /\ now <= now' /\ lastOk <= lastOk' /\ lastIn <= lastIn'
      /\ lastOk' <= now' /\ lastIn' <= now'
  BY <1>1, <1>2, <1>3
<1>5. HistoryInv'
  BY <1>2, <1>3, <1>4, Zenon DEF HistoryInv
<1>6. \A g \in Gs : Running(g) => now' <= result[g].checkedAt + ReauthTimeout
  BY <1>2, Zenon DEF ReauthInv, FreshInv
<1> QED BY <1>2, <1>3, <1>4, <1>5, <1>6, OutsideStep, Zenon

-----------------------------------------------------------------------------
(* The steps of a check. *)

\* What g's step must show of g.
Good(g) ==
    /\ Sound(result[g])
    /\ gpc[g] \in {"idle", "getUser"} => ~result[g].enabled /\ ~result[g].inGroup
    /\ gpc[g] = "listGroups" => ~result[g].inGroup
    /\ Running(g) =>
          /\ now <= result[g].checkedAt + ReauthTimeout
          /\ MaxSessionDuration > 0 =>
                /\ exp[g] # None
                /\ result[g].checkedAt - exp[g] <= MaxSessionDuration

LEMMA GoodAll ==
    ReauthInv <=> /\ TypeOK /\ HistoryInv
                  /\ \A g \in Gs : Good(g)
                  /\ cache # None => Sound(cache)
BY Zenon DEF ReauthInv, SoundInv, FreshInv, SessionInv, Good

LEMMA InsideStep ==
    ASSUME ReauthInv, NEW g \in Gs, Inside, Alone(g), TypeOK', Good(g)',
           cache' # None => cache' = cache \/ cache' = result[g]
    PROVE  ReauthInv'
<1>0. TypeOK /\ (\A h \in Gs : Good(h)) /\ (cache # None => Sound(cache)) /\ HistoryInv
  BY GoodAll, Zenon
<1>1. HistoryInv'
  BY <1>0, Zenon DEF Inside, HistoryInv
<1>2. \A res : Sound(res)' <=> Sound(res)
  BY Zenon DEF Inside, Sound, CheckGroup
<1>3. ASSUME NEW h \in Gs PROVE Good(h)'
  <2>1. CASE h = g
    BY <2>1, Zenon
  <2>2. CASE h # g
    <3>1. gpc'[h] = gpc[h] /\ result'[h] = result[h] /\ exp'[h] = exp[h]
      BY <2>2, Zenon DEF Alone
    <3> QED BY <1>0, <3>1, Zenon DEF Good, Inside, Running, Sound, CheckGroup,
                                    MaxSessionDuration
  <2> QED BY <2>1, <2>2
<1>4. ASSUME cache' # None PROVE Sound(cache)'
  <2>1. CASE cache' = cache
    BY <1>0, <1>4, <2>1, Zenon DEF Inside, Sound, CheckGroup
  <2>2. CASE cache' = result[g]
    <3>1. Sound(result[g])
      BY <1>0, Zenon DEF Good
    <3> QED BY <2>2, <3>1, Zenon DEF Inside, Sound, CheckGroup
  <2> QED BY <1>4, <2>1, <2>2
<1> QED BY <1>1, <1>3, <1>4, Zenon
        DEF ReauthInv, SoundInv, FreshInv, SessionInv, Good

LEMMA StartStep ==
    ASSUME ReauthInv, NEW g \in Gs, ReauthStart(g) PROVE ReauthInv'
<1>0. /\ TypeOK /\ Good(g) /\ gpc[g] = "idle" /\ Inside /\ UNCHANGED cache
      /\ exp' = [exp EXCEPT ![g] = expiry]
  BY GoodAll, Zenon DEF ReauthStart, Inside
<1>1. /\ exp'[g] = expiry /\ \A h \in Gs \ {g} : exp'[h] = exp[h]
      /\ exp' \in [Gs -> Times \cup {None}]
  BY <1>0, Zenon DEF TypeOK
<1>2. ASSUME NEW a \in {"deny", "skipped"}, Send(g, a), UNCHANGED result
      PROVE  ReauthInv'
  <2>1. answer'[g] = a /\ a \in {"none", "allow", "cached", "skipped", "deny"}
    BY <1>0, <1>2, Zenon DEF Send, TypeOK
  <2>4. /\ gpc' \in [Gs -> {"idle", "put", "finish", "cache", "evict", "done"}
                           \cup Calling]
        /\ gpc'[g] = "done" /\ \A h \in Gs \ {g} : gpc'[h] = gpc[h]
        /\ answer' \in [Gs -> {"none", "allow", "cached", "skipped", "deny"}]
        /\ \A h \in Gs \ {g} : answer'[h] = answer[h]
    BY <1>0, <1>2, <2>1, SendType, Zenon
  <2>5. TypeOK'
    BY <1>0, <1>1, <1>2, <2>4, Zenon DEF TypeOK, Inside
  <2>6. Good(g)'
    BY <1>0, <1>2, <2>4, Zenon DEF Good, Running, Inside, Sound, CheckGroup
  <2>7. Alone(g)
    BY <1>1, <1>2, <2>4, Zenon DEF Alone
  <2> QED BY <1>0, <2>5, <2>6, <2>7, InsideStep, Zenon
<1>3. CASE answer' = answer /\ result' = [result EXCEPT ![g].checkedAt = Stamp]
           /\ Go(g, "getUser") /\ ~Backstop
  <2>1. /\ gpc' \in [Gs -> {"idle", "put", "finish", "cache", "evict", "done"}
                           \cup Calling]
        /\ gpc'[g] = "getUser" /\ \A h \in Gs \ {g} : gpc'[h] = gpc[h]
    <3>1. "getUser" \in Pcs
      BY Zenon DEF Pcs
    <3> QED BY <1>0, <1>3, <3>1, GoType, Zenon
  <2>2. /\ result' \in [Gs -> Results] /\ result'[g].checkedAt = now
        /\ result'[g].enabled = result[g].enabled
        /\ result'[g].inGroup = result[g].inGroup
        /\ \A h \in Gs \ {g} : result'[h] = result[h]
    <3>1. result \in [Gs -> Results] /\ now \in Times
          /\ result' = [result EXCEPT ![g].checkedAt = now]
      BY <1>0, <1>3, Zenon DEF TypeOK, Stamp
    <3> QED BY <3>1 DEF Results
  <2>3. TypeOK'
    BY <1>0, <1>1, <1>3, <2>1, <2>2, Zenon DEF TypeOK, Inside
  <2>4. now \in Nat /\ ReauthTimeout \in Nat /\ MaxSessionDuration \in Nat
    BY <1>0, TimesNat, ConfigFields DEF TypeOK
  <2>5. MaxSessionDuration > 0 => expiry # None /\ now - expiry <= MaxSessionDuration
    <3>1. MaxSessionDuration > 0 => expiry # None /\ ~(now - expiry > MaxSessionDuration)
      BY <1>3, Zenon DEF Backstop
    <3>2. expiry # None => expiry \in Nat
      BY <1>0, TimesNat DEF TypeOK
    <3> QED BY <2>4, <3>1, <3>2
  <2>6. now <= now /\ now <= now + ReauthTimeout
    BY <2>4
  <2>7. ~result[g].enabled /\ ~result[g].inGroup
    BY <1>0, Zenon DEF Good
  <2>8. Good(g)'
    <3>1. Sound(result[g])'
      BY <1>0, <2>2, <2>6, <2>7, Zenon DEF Sound, Inside
    <3>2. /\ now' <= result'[g].checkedAt + ReauthTimeout
          /\ MaxSessionDuration' > 0 =>
                /\ exp'[g] # None
                /\ result'[g].checkedAt - exp'[g] <= MaxSessionDuration'
      BY <1>0, <1>1, <2>2, <2>5, <2>6, Zenon DEF Inside, MaxSessionDuration
    <3>3. gpc'[g] # "listGroups"
      BY <2>1
    <3> QED BY <2>2, <2>7, <3>1, <3>2, <3>3, Zenon DEF Good
  <2>9. Alone(g)
    BY <1>1, <1>3, <2>1, <2>2, Zenon DEF Alone
  <2> QED BY <1>0, <2>3, <2>8, <2>9, InsideStep, Zenon
<1> QED BY <1>2, <1>3, Zenon DEF ReauthStart

\* A step that only moves g on, with the same or a better result.
LEMMA CheckStep ==
    ASSUME ReauthInv, NEW g \in Gs, Inside, UNCHANGED <<cache, exp, answer>>,
           Running(g), NEW pc \in Pcs \ {"idle", "getUser", "done"}, Go(g, pc),
           NEW res \in Results, result' = [result EXCEPT ![g] = res], Sound(res),
           res.checkedAt = result[g].checkedAt,
           pc = "listGroups" => ~res.inGroup
    PROVE  ReauthInv'
<1>0. TypeOK /\ Good(g) /\ pc \in Pcs
  BY GoodAll, Zenon
<1>1. /\ gpc' \in [Gs -> {"idle", "put", "finish", "cache", "evict", "done"}
                         \cup Calling]
      /\ gpc'[g] = pc /\ \A h \in Gs \ {g} : gpc'[h] = gpc[h]
  BY <1>0, GoType, Zenon
<1>2. /\ result' \in [Gs -> Results] /\ result'[g] = res
      /\ \A h \in Gs \ {g} : result'[h] = result[h]
  BY <1>0, Zenon DEF TypeOK
<1>3. TypeOK' /\ Alone(g)
  BY <1>0, <1>1, <1>2, Zenon DEF TypeOK, Inside, Alone
<1>4. Good(g)'
  <2>1. Sound(result[g])'
    BY <1>2, Zenon DEF Sound, Inside, CheckGroup
  <2>2. /\ now' <= result'[g].checkedAt + ReauthTimeout
        /\ MaxSessionDuration' > 0 =>
              /\ exp'[g] # None
              /\ result'[g].checkedAt - exp'[g] <= MaxSessionDuration'
    BY <1>0, <1>2, Zenon DEF Good, Inside, MaxSessionDuration
  <2> QED BY <1>1, <1>2, <2>1, <2>2, Zenon DEF Good
<1> QED BY <1>3, <1>4, InsideStep, Zenon

LEMMA CallStep ==
    ASSUME ReauthInv, NEW g \in Gs, GetUser(g) \/ ListGroups(g) \/ CheckFails(g)
    PROVE  ReauthInv'
<1>0. /\ TypeOK /\ HistoryInv /\ Good(g) /\ Inside /\ UNCHANGED <<cache, exp, answer>>
      /\ result \in [Gs -> Results] /\ gpc[g] \in Calling
  BY GoodAll, Zenon DEF GetUser, ListGroups, CheckFails, Inside, TypeOK, Calling
<1>1. /\ Running(g) /\ Sound(result[g])
      /\ \A pc \in {"put", "cache", "listGroups"} :
            pc \in Pcs \ {"idle", "getUser", "done"}
  BY <1>0 DEF Running, Calling, Pcs, Good
<1>2. /\ result[g].checkedAt <= now
      /\ account = "enabled" => lastOk = now
      /\ inGroup => lastIn = now
  BY <1>0, <1>1, Zenon DEF Sound, HistoryInv
<1>3. CASE GetUser(g)
  <2> DEFINE res == [result[g] EXCEPT !.exists = account # "missing",
                                      !.enabled = account = "enabled",
                                      !.inGroup = account # "missing" /\ ~CheckGroup]
  <2>1. /\ res \in Results /\ res.checkedAt = result[g].checkedAt
        /\ res.enabled <=> account = "enabled"
        /\ res.inGroup <=> account # "missing" /\ ~CheckGroup
    <3>1. result[g] \in Results
      BY <1>0, Zenon
    <3> QED BY <3>1, Zenon DEF Results
  <2>2. result' = [result EXCEPT ![g] = res]
    BY <1>0, <1>3, Zenon DEF GetUser
  <2> HIDE DEF res
  <2>3. Sound(res)
    BY <1>2, <2>1, Zenon DEF Sound
  <2>4. PICK pc \in {"put", "listGroups"} :
           Go(g, pc) /\ (pc = "listGroups" => CheckGroup)
    BY <1>3 DEF GetUser
  <2>5. pc = "listGroups" => ~res.inGroup
    BY <2>1, <2>4, Zenon
  <2>6. pc \in Pcs \ {"idle", "getUser", "done"}
    BY <1>1, <2>4, Zenon
  <2> QED BY <1>0, <1>1, <2>1, <2>2, <2>3, <2>4, <2>5, <2>6, CheckStep, Zenon
<1>4. CASE ListGroups(g)
  <2> DEFINE res == [result[g] EXCEPT !.inGroup = inGroup]
  <2>1. /\ res \in Results /\ res.checkedAt = result[g].checkedAt
        /\ res.enabled = result[g].enabled /\ res.inGroup = inGroup
    <3>1. result[g] \in Results /\ inGroup \in BOOLEAN
      BY <1>0, Zenon DEF TypeOK
    <3> QED BY <3>1 DEF Results
  <2>2. result' = [result EXCEPT ![g] = res]
    BY <1>0, <1>4 DEF ListGroups
  <2> HIDE DEF res
  <2>3. Sound(res)
    BY <1>1, <1>2, <2>1, Zenon DEF Sound
  <2>4. Go(g, "put") /\ "put" \in {"put", "cache", "listGroups"} /\ "put" # "listGroups"
    BY <1>4 DEF ListGroups
  <2> QED BY <1>0, <1>1, <2>1, <2>2, <2>3, <2>4, CheckStep, Zenon
<1>5. CASE CheckFails(g)
  <2>1. result' = [result EXCEPT ![g] = result[g]] /\ result[g] \in Results
    BY <1>0, <1>5 DEF CheckFails
  <2>2. Go(g, "cache") /\ "cache" \in {"put", "cache", "listGroups"}
        /\ "cache" # "listGroups"
    BY <1>5 DEF CheckFails
  <2> QED BY <1>0, <1>1, <2>1, <2>2, CheckStep, Zenon
<1> QED BY <1>3, <1>4, <1>5

LEMMA PutStep == ASSUME ReauthInv, NEW g \in Gs, Put(g) PROVE ReauthInv'
<1>0. /\ TypeOK /\ Good(g) /\ Inside /\ UNCHANGED <<result, exp, answer>>
      /\ gpc[g] = "put" /\ Go(g, "finish") /\ cache' \in {cache, result[g]}
  BY GoodAll, Zenon DEF Put, Inside
<1>1. /\ "finish" \in Pcs /\ "finish" \notin {"idle", "getUser", "listGroups"}
      /\ Running(g)
  BY <1>0 DEF Pcs, Running
<1>2. /\ gpc' \in [Gs -> {"idle", "put", "finish", "cache", "evict", "done"}
                         \cup Calling]
      /\ gpc'[g] = "finish" /\ \A h \in Gs \ {g} : gpc'[h] = gpc[h]
  BY <1>0, <1>1, GoType, Zenon
<1>3. TypeOK' /\ Alone(g)
  <2>1. cache' \in Results \cup {None}
    BY <1>0, Zenon DEF TypeOK
  <2> QED BY <1>0, <1>2, <2>1, Zenon DEF TypeOK, Inside, Alone
<1>4. Good(g)'
  BY <1>0, <1>1, <1>2, Zenon DEF Good, Inside, Sound, CheckGroup, MaxSessionDuration
<1> QED BY <1>0, <1>3, <1>4, InsideStep, Zenon

\* g answers, from Cognito or from the cache.
LEMMA AnswerStep ==
    ASSUME ReauthInv, NEW g \in Gs, Inside, UNCHANGED <<result, exp>>,
           cache' \in {cache, None}, NEW a \in {"allow", "cached", "deny"}, Send(g, a)
    PROVE  ReauthInv'
<1>0. TypeOK /\ Good(g)
  BY GoodAll, Zenon
<1>1. answer'[g] = a /\ a \in {"none", "allow", "cached", "skipped", "deny"}
  BY <1>0, Zenon DEF Send, TypeOK
<1>2. /\ gpc' \in [Gs -> {"idle", "put", "finish", "cache", "evict", "done"}
                         \cup Calling]
      /\ gpc'[g] = "done" /\ \A h \in Gs \ {g} : gpc'[h] = gpc[h]
      /\ answer' \in [Gs -> {"none", "allow", "cached", "skipped", "deny"}]
      /\ \A h \in Gs \ {g} : answer'[h] = answer[h]
  BY <1>0, <1>1, SendType, Zenon
<1>3. TypeOK' /\ Alone(g)
  BY <1>0, <1>2, Zenon DEF TypeOK, Inside, Alone
<1>4. Good(g)'
  BY <1>0, <1>2, Zenon DEF Good, Running, Inside, Sound, CheckGroup
<1> QED BY <1>3, <1>4, InsideStep, Zenon

LEMMA DecideStep ==
    ASSUME ReauthInv, NEW g \in Gs, FinishReauth(g) \/ CacheGet(g) \/ CacheEvict(g)
    PROVE  ReauthInv'
<1>0. /\ TypeOK /\ Good(g) /\ Inside /\ UNCHANGED <<result, exp>>
      /\ cache' \in {cache, None} /\ result \in [Gs -> Results]
  BY GoodAll, Zenon DEF FinishReauth, CacheGet, CacheEvict, Inside, TypeOK
<1>1. CASE \E a \in {"allow", "cached", "deny"} : Send(g, a)
  BY <1>0, <1>1, AnswerStep, Zenon
<1>2. CASE Go(g, "evict") /\ UNCHANGED <<cache, answer>> /\ gpc[g] = "cache"
  <2>1. /\ "evict" \in Pcs \ {"idle", "getUser", "done"} /\ "evict" # "listGroups"
        /\ Running(g)
    BY <1>2 DEF Pcs, Running
  <2>2. result' = [result EXCEPT ![g] = result[g]] /\ result[g] \in Results
    BY <1>0
  <2>3. Sound(result[g])
    BY <1>0, Zenon DEF Good
  <2> QED BY <1>0, <1>2, <2>1, <2>2, <2>3, CheckStep, Zenon
<1> QED BY <1>1, <1>2, Zenon DEF FinishReauth, CacheGet, CacheEvict

LEMMA ReauthInvStep == ReauthInv /\ [Next]_vars => ReauthInv'
<1> SUFFICES ASSUME ReauthInv, [Next]_vars PROVE ReauthInv'
  OBVIOUS
<1>1. CASE UNCHANGED vars
  BY <1>1, Zenon DEF vars, ReauthInv, TypeOK, HistoryInv, SoundInv, Sound, CheckGroup,
                     FreshInv, SessionInv, Running, MaxSessionDuration
<1> QED BY <1>1, TickStep, ChangeStep, StartStep, CallStep, PutStep, DecideStep, Zenon
        DEF Next, ReauthStep

LEMMA ReauthInvInit == Init => ReauthInv
<1> SUFFICES ASSUME Init PROVE ReauthInv
  OBVIOUS
<1>0. 0 \in Times
  BY TimesNat, Zenon
<1>1. /\ NoResult \in Results /\ NoResult.checkedAt = 0 /\ ~NoResult.enabled
      /\ ~NoResult.inGroup /\ "idle" \in Pcs
  BY <1>0, Zenon DEF NoResult, Results, Pcs
<1>2. \A g \in Gs : result[g] = NoResult /\ gpc[g] = "idle"
  BY Zenon DEF Init
<1>3. TypeOK
  <2>1. gpc \in [Gs -> {"idle", "put", "finish", "cache", "evict", "done"} \cup Calling]
    BY <1>1, PcsAll, Zenon DEF Init
  <2>2. expiry \in Times \cup {None}
    BY <1>0, Zenon DEF Init
  <2> QED BY <1>0, <1>1, <2>1, <2>2, Zenon DEF Init, TypeOK, Accounts
<1>4. 0 <= 0
  OBVIOUS
<1>5. HistoryInv
  BY <1>4, Zenon DEF Init, HistoryInv
<1>6. \A g \in Gs : Good(g)
  BY <1>1, <1>2, <1>4 DEF Init, Good, Sound, Running
<1> QED BY <1>3, <1>5, <1>6, GoodAll, Zenon DEF Init

\* Times, results and answers keep their types under every interleaving of
\* REAUTH goroutines (handleReauth, CheckUser, ReauthCache).
THEOREM ReauthTypes == Spec => []TypeOK
<1>1. ReauthInv => TypeOK
  BY Zenon DEF ReauthInv
<1> QED BY <1>1, ReauthInvInit, ReauthInvStep, PTL DEF Spec

-----------------------------------------------------------------------------
(* The action properties. *)

\* The answers are sent in three places.
LEMMA WhoSends ==
    ASSUME ReauthInv, [Next]_vars, NEW g \in Gs,
           Sends(g, {"allow", "cached", "skipped"})
    PROVE  \/ /\ answer'[g] = "allow" /\ gpc[g] = "finish" /\ Passes(result[g])
           \/ /\ answer'[g] = "cached" /\ gpc[g] = "cache"
              /\ cache # None /\ ~Stale(cache) /\ Passes(cache)
           \/ /\ answer'[g] = "skipped" /\ gpc[g] = "idle" /\ ~Backstop
<1>0. answer'[g] # answer[g] /\ answer \in [Gs -> {"none", "allow", "cached", "skipped", "deny"}]
  BY DEF Sends, ReauthInv, TypeOK
<1>1. PICK h \in Gs : ReauthStart(h) \/ ReauthStep(h)
  BY <1>0, Zenon DEF Next, vars, Tick, ChangeAccount, ChangeGroup, LoseTracking
<1>2. ASSUME NEW a, Send(h, a) PROVE h = g /\ answer'[g] = a
  BY <1>0, <1>2, Zenon DEF Send
<1>3. ASSUME Send(h, "deny") PROVE FALSE
  <2>1. answer'[g] = "deny"
    BY <1>2, <1>3, Zenon
  <2> QED BY <2>1 DEF Sends
<1>4. CASE ReauthStart(h)
  BY <1>0, <1>2, <1>3, <1>4, Zenon DEF ReauthStart
<1>5. CASE GetUser(h) \/ ListGroups(h) \/ CheckFails(h) \/ Put(h)
  BY <1>0, <1>5, Zenon DEF GetUser, ListGroups, CheckFails, Put
<1>6. CASE FinishReauth(h)
  BY <1>2, <1>3, <1>6, Zenon DEF FinishReauth
<1>7. CASE CacheGet(h)
  BY <1>0, <1>2, <1>3, <1>7, Zenon DEF CacheGet
<1>8. CASE CacheEvict(h)
  BY <1>3, <1>8, Zenon DEF CacheEvict
<1> QED BY <1>1, <1>4, <1>5, <1>6, <1>7, <1>8, Zenon DEF ReauthStep

\* A client is let go on only if its account was enabled, and in the group
\* where that is checked, within the Cognito timeout before a fresh answer or
\* within the lifetime of the entry before a cached one, however many checks
\* overlap and overwrite the entry (CheckUser, ReauthCache.Put and Get).
THEOREM RevocationHolds == Spec => RevocationTakesEffect
<1> DEFINE Takes(g) ==
        /\ Sends(g, {"allow"}) =>
              /\ now - lastOk <= ReauthTimeout
              /\ CheckGroup => now - lastIn <= ReauthTimeout
        /\ Sends(g, {"cached"}) =>
              /\ now - lastOk <= Ttl
              /\ CheckGroup => now - lastIn <= Ttl
<1>1. ASSUME ReauthInv, [Next]_vars, NEW g \in Gs PROVE Takes(g)
  <2>0. /\ now \in Nat /\ lastOk \in Nat /\ lastIn \in Nat /\ TypeOK
        /\ ReauthTimeout \in Nat /\ Ttl \in Nat
    BY <1>1, TimesNat, ConfigFields DEF ReauthInv, TypeOK
  <2>1. ASSUME NEW res \in Results, Sound(res), Passes(res), NEW span \in Nat,
               now - res.checkedAt <= span
        PROVE  now - lastOk <= span /\ (CheckGroup => now - lastIn <= span)
    <3>1. res.checkedAt \in Nat
      BY ResultFields, Zenon
    <3>2. res.checkedAt <= lastOk /\ (CheckGroup => res.checkedAt <= lastIn)
      BY <2>1, Zenon DEF Sound, Passes
    <3>3. res.checkedAt <= lastOk => now - lastOk <= span
      BY <2>0, <2>1, <3>1
    <3>4. res.checkedAt <= lastIn => now - lastIn <= span
      BY <2>0, <2>1, <3>1
    <3> QED BY <3>2, <3>3, <3>4, Zenon
  <2>2. ASSUME Sends(g, {"allow"})
        PROVE  /\ now - lastOk <= ReauthTimeout
               /\ CheckGroup => now - lastIn <= ReauthTimeout
    <3>1. gpc[g] = "finish" /\ Passes(result[g])
      <4>1. Sends(g, {"allow", "cached", "skipped"}) /\ answer'[g] = "allow"
        BY <2>2, Zenon DEF Sends
      <4>2. "allow" # "cached" /\ "allow" # "skipped"
        OBVIOUS
      <4> QED BY <1>1, <4>1, <4>2, WhoSends, Zenon
    <3>2. Running(g)
      BY <3>1 DEF Running
    <3>3. /\ result[g] \in Results /\ Sound(result[g])
          /\ now <= result[g].checkedAt + ReauthTimeout
      BY <1>1, <3>2, Zenon DEF ReauthInv, TypeOK, SoundInv, FreshInv
    <3>4. now - result[g].checkedAt <= ReauthTimeout
      <4>1. result[g].checkedAt \in Nat
        BY <3>3, ResultFields, Zenon
      <4> QED BY <2>0, <3>3, <4>1
    <3> QED BY <2>0, <2>1, <3>1, <3>3, <3>4, Zenon
  <2>3. ASSUME Sends(g, {"cached"})
        PROVE  now - lastOk <= Ttl /\ (CheckGroup => now - lastIn <= Ttl)
    <3>1. cache # None /\ ~Stale(cache) /\ Passes(cache)
      <4>1. Sends(g, {"allow", "cached", "skipped"}) /\ answer'[g] = "cached"
        BY <2>3, Zenon DEF Sends
      <4>2. "cached" # "allow" /\ "cached" # "skipped"
        OBVIOUS
      <4> QED BY <1>1, <4>1, <4>2, WhoSends, Zenon
    <3>2. cache \in Results /\ Sound(cache)
      BY <1>1, <3>1, Zenon DEF ReauthInv, TypeOK, SoundInv
    <3>3. now - cache.checkedAt <= Ttl
      <4>1. cache.checkedAt \in Nat
        BY <3>2, ResultFields, Zenon
      <4> QED BY <2>0, <3>1, <4>1 DEF Stale
    <3> QED BY <2>0, <2>1, <3>1, <3>2, <3>3, Zenon
  <2> QED BY <2>2, <2>3, Zenon
<1>2. ReauthInv /\ [Next]_vars => [\A g \in Gs : Takes(g)]_vars
  BY <1>1, Zenon
<1> QED BY <1>2, ReauthInvInit, ReauthInvStep, PTL DEF Spec, RevocationTakesEffect

\* With a maximal session duration no REAUTH is granted to a session that was
\* untracked or over when the REAUTH came in, and the answer is late by one
\* Cognito timeout at most (handleReauth's backstop before skip-reauth, the
\* check and the cache).
THEOREM BackstopAlways == Spec => BackstopHolds
<1> DEFINE Bounded(g) ==
        MaxSessionDuration > 0 /\ Sends(g, {"allow", "cached", "skipped"}) =>
            LET start == IF answer'[g] = "skipped" THEN expiry ELSE exp[g]
            IN  /\ start # None
                /\ now - start <= MaxSessionDuration + ReauthTimeout
<1>1. ASSUME ReauthInv, [Next]_vars, NEW g \in Gs PROVE Bounded(g)
  <2> SUFFICES ASSUME MaxSessionDuration > 0, Sends(g, {"allow", "cached", "skipped"})
               PROVE  /\ answer'[g] = "skipped" =>
                            /\ expiry # None
                            /\ now - expiry <= MaxSessionDuration + ReauthTimeout
                      /\ answer'[g] # "skipped" =>
                            /\ exp[g] # None
                            /\ now - exp[g] <= MaxSessionDuration + ReauthTimeout
    BY Zenon
  <2>0. /\ now \in Nat /\ ReauthTimeout \in Nat /\ MaxSessionDuration \in Nat
        /\ expiry # None => expiry \in Nat
        /\ exp[g] # None => exp[g] \in Nat
    BY <1>1, TimesNat, ConfigFields, Zenon DEF ReauthInv, TypeOK
  <2>1. ASSUME answer'[g] = "skipped"
        PROVE  expiry # None /\ now - expiry <= MaxSessionDuration + ReauthTimeout
    <3>1. ~Backstop
      <4>1. "skipped" # "allow" /\ "skipped" # "cached"
        OBVIOUS
      <4> QED BY <1>1, <2>1, <4>1, WhoSends, Zenon
    <3>2. expiry # None /\ ~(now - expiry > MaxSessionDuration)
      BY <3>1, Zenon DEF Backstop
    <3> QED BY <2>0, <3>2
  <2>2. ASSUME answer'[g] # "skipped"
        PROVE  exp[g] # None /\ now - exp[g] <= MaxSessionDuration + ReauthTimeout
    <3>1. gpc[g] \in {"finish", "cache"}
      BY <1>1, <2>2, WhoSends, Zenon
    <3>2. Running(g)
      BY <3>1 DEF Running
    <3>3. /\ exp[g] # None /\ result[g].checkedAt - exp[g] <= MaxSessionDuration
          /\ now <= result[g].checkedAt + ReauthTimeout /\ result[g] \in Results
      BY <1>1, <3>2, Zenon DEF ReauthInv, TypeOK, FreshInv, SessionInv
    <3>4. result[g].checkedAt \in Nat
      BY <3>3, ResultFields, Zenon
    <3> QED BY <2>0, <3>3, <3>4
  <2> QED BY <2>1, <2>2
<1>2. ReauthInv /\ [Next]_vars => [\A g \in Gs : Bounded(g)]_vars
  BY <1>1, Zenon
<1> QED BY <1>2, ReauthInvInit, ReauthInvStep, PTL DEF Spec, BackstopHolds

\* ReauthCache.Get drops no valid entry: between its look under the read lock
\* and the deletion under the write lock another check may refresh the entry,
\* and then the second look keeps it.
THEOREM ValidEntryAlwaysKept == Spec => ValidEntryKept
<1>1. ASSUME ReauthInv, [Next]_vars, cache # None, cache' = None PROVE Stale(cache)
  <2>1. PICK g \in Gs : ReauthStart(g) \/ ReauthStep(g)
    BY <1>1, Zenon DEF Next, vars, Tick, ChangeAccount, ChangeGroup, LoseTracking
  <2>2. result[g] # None
    BY <1>1, ResultFields, Zenon DEF ReauthInv, TypeOK
  <2>3. CacheEvict(g)
    BY <1>1, <2>1, <2>2, Zenon DEF ReauthStart, ReauthStep, GetUser, ListGroups,
                                   CheckFails, Put, FinishReauth, CacheGet
  <2> QED BY <1>1, <2>3, Zenon DEF CacheEvict
<1>2. ReauthInv /\ [Next]_vars
        => [cache # None /\ cache' = None => Stale(cache)]_vars
  BY <1>1, Zenon
<1> QED BY <1>2, ReauthInvInit, ReauthInvStep, PTL DEF Spec, ValidEntryKept
=============================================================================
