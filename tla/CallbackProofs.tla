--------------------------- MODULE CallbackProofs ---------------------------
(***************************************************************************)
(* Proofs about CallbackServer for any configuration Validate accepts, any *)
(* tokens and accounts, and any number of sessions and requests: TypeOK,   *)
(* PageIsTrue, the refinement of SessionStore, and what the checks find    *)
(* out (AllowedOnlyVerified, RefusedForCause and LookupOutlivesState).     *)
(*                                                                         *)
(* A session has at most one holder: the request that has claimed it and   *)
(* not finished, or its timeout.  HoldInv says so, and what the store and  *)
(* the answers look like while it is held.  PageInv adds that nobody comes *)
(* back to a session whose browser was told that verification failed.      *)
(* VerifyInv says what a request has found out by the time it gets to a    *)
(* step, and CauseInv why one that denies its client does so.              *)
(***************************************************************************)
EXTENDS CallbackServer, TLAPS

\* A request that has claimed its session and not let go of it.
Holding == Owning \cup {"denySend", "markDone"}

\* Nothing is known of a session before its CONNECT, and its CN can be
\* normalized afterwards.
KnownInv ==
    /\ \A s \in Sids :
          IF created[s] = None
          THEN status[s] = "absent" /\ timer[s] = "off" /\ s \notin inFlight
          ELSE cn[s] \in CommonNames /\ NormalizeIdentity(cn[s]) # None
    /\ \A r \in Reqs :
          pc[r] # "idle" => sid[r] \in Sids /\ created[sid[r]] # None

\* What is true of a session while a request holds it ...
Held(r) ==
    /\ timer[sid[r]] \notin {"claimed", "failed"}
    /\ status[sid[r]] = "absent"
       \/ status[sid[r]] = IF pc[r] = "denySend" THEN "FAILED" ELSE "PROCESSING"
    /\ decided[sid[r]] = IF pc[r] \in {"ack", "markDone"} THEN {"allow"} ELSE {}

\* ... and while its timeout does, or nobody yet.
HoldInv ==
    /\ \A r \in Reqs : pc[r] \in Holding => Held(r)
    /\ \A q, r \in Reqs :
          pc[q] \in Holding /\ pc[r] \in Holding /\ sid[q] = sid[r] => q = r
    /\ \A s \in Sids :
          /\ timer[s] = "claimed" => status[s] \in {"absent", "PROCESSING"}
          /\ timer[s] = "failed" => status[s] \in {"absent", "FAILED"}
          /\ timer[s] \in {"claimed", "failed"} => decided[s] = {}
          /\ status[s] = "PENDING" => decided[s] = {}

\* After "verification failed" nobody can claim the session again.
PageInv ==
    /\ \A r \in Reqs : page[r] \in {"200", "403"} => pc[r] = "done"
    /\ \A r \in Reqs : pc[r] = "markDone" \/ page[r] = "200" => sid[r] \in acked
    /\ \A r \in Reqs : page[r] = "403" =>
          /\ status[sid[r]] # "PENDING" /\ "allow" \notin decided[sid[r]]
          /\ \A q \in Reqs : pc[q] \in Holding => sid[q] # sid[r]

SessionInv == TypeOK /\ KnownInv /\ HoldInv /\ PageInv

-----------------------------------------------------------------------------
(* Types. *)

LEMMA TimesNat == 0 \in Times /\ Times \subseteq Nat
BY CallbackAssumption

LEMMA TypeStep == ASSUME TypeOK, KnownInv, [Next]_vars PROVE TypeOK'
<1> USE DEF TypeOK, sessionVars, requestVars, outcomeVars, Pcs, Owning, Pages
<1>1. CASE Tick
  BY <1>1 DEF Tick
<1>2. ASSUME NEW u \in DOMAIN Accounts, Revoke(u) PROVE TypeOK'
  <2>1. account[u] \in Account
    BY <1>2
  <2>2. /\ [account[u] EXCEPT !.enabled = FALSE] \in Account
        /\ [account[u] EXCEPT !.groups = {}] \in Account
    BY <2>1, Zenon DEF Account
  <2>3. account' \in [DOMAIN Accounts -> Account]
    BY <1>2, <2>2, Zenon DEF Revoke
  <2> QED BY <1>2, <2>3 DEF Revoke
<1>3. ASSUME NEW s \in Sids, Connect(s) PROVE TypeOK'
  BY <1>3 DEF Connect, Decide
<1>4. ASSUME NEW s \in Sids, TimerClaims(s) PROVE TypeOK'
  BY <1>4 DEF TimerClaims, Mark
<1>5. ASSUME NEW s \in Sids, TimerMarksFailed(s) PROVE TypeOK'
  BY <1>5 DEF TimerMarksFailed, Mark
<1>6. ASSUME NEW s \in Sids, TimerDenies(s) PROVE TypeOK'
  BY <1>6 DEF TimerDenies, Decide
<1>7. ASSUME NEW s \in Sids, Leave(s) PROVE TypeOK'
  BY <1>7 DEF Leave, Forgotten
<1>8. ASSUME NEW s \in Sids, Reap(s) PROVE TypeOK'
  BY <1>8 DEF Reap
<1>9. ASSUME NEW r \in Reqs, Route(r) PROVE TypeOK'
  BY <1>9 DEF Route, Browse, Finish, Goto
<1>10. ASSUME NEW r \in Reqs, GiveUp(r) PROVE TypeOK'
  BY <1>10 DEF GiveUp
<1>11. ASSUME NEW r \in Reqs, RejectState(r) PROVE TypeOK'
  BY <1>11 DEF RejectState, Finish, Goto
<1>12. ASSUME NEW r \in Reqs, RejectSession(r) PROVE TypeOK'
  BY <1>12 DEF RejectSession, Finish, Goto
<1>13. ASSUME NEW r \in Reqs, TryProcess(r) PROVE TypeOK'
  <2>1. PICK t \in Tokens : /\ tok' = [tok EXCEPT ![r] = t]
                             /\ fit' = IF Fit(t) THEN fit \cup {r} ELSE fit
    BY <1>13, Zenon DEF TryProcess
  <2>2. fit' \subseteq Reqs /\ tok' \in [Reqs -> Tokens \cup {None}]
    BY <2>1
  <2> QED BY <1>13, <2>2, Zenon DEF TryProcess, Mark, Goto
<1>14. ASSUME NEW r \in Reqs, Verify(r) PROVE TypeOK'
  BY <1>14 DEF Verify, Goto, Checked
<1>15. ASSUME NEW r \in Reqs, FetchKey(r) PROVE TypeOK'
  BY <1>15 DEF FetchKey, Goto, FetchALBPublicKey
<1>16. ASSUME NEW r \in Reqs, FetchFails(r) PROVE TypeOK'
  BY <1>16, TimesNat, Zenon DEF FetchFails, Mark, Finish, Goto
<1>17. ASSUME NEW r \in Reqs, CheckToken(r) PROVE TypeOK'
  BY <1>17 DEF CheckToken, Goto, Checked
<1>18. ASSUME NEW r \in Reqs, DenyMarks(r) PROVE TypeOK'
  BY <1>18, Zenon DEF DenyMarks, Mark, Goto
<1>19. ASSUME NEW r \in Reqs, DenySends(r) PROVE TypeOK'
  BY <1>19 DEF DenySends, Decide, Finish, Goto
<1>20. ASSUME NEW r \in Reqs, Allow(r) PROVE TypeOK'
  BY <1>20, Zenon DEF Allow, Decide, Goto
<1>21. ASSUME NEW r \in Reqs, AllowFails(r) PROVE TypeOK'
  BY <1>21, Zenon DEF AllowFails, Mark, Finish, Goto
<1>22. ASSUME NEW r \in Reqs, MarkAuthenticated(r) PROVE TypeOK'
  BY <1>22 DEF KnownInv, MarkAuthenticated, Forgotten, Goto
<1>23. ASSUME NEW r \in Reqs, MarkDone(r) PROVE TypeOK'
  BY <1>23, Zenon DEF MarkDone, Mark, Finish, Goto
<1>24. ASSUME NEW r \in Reqs, AdminGetUser(r) PROVE TypeOK'
  BY <1>24 DEF AdminGetUser, Goto
<1>25. ASSUME NEW r \in Reqs, ListGroups(r) PROVE TypeOK'
  BY <1>25 DEF ListGroups, Goto
<1>26. ASSUME NEW r \in Reqs, CheckUserFails(r) PROVE TypeOK'
  BY <1>26 DEF CheckUserFails, Goto
<1>27. CASE UNCHANGED vars
  BY <1>27 DEF vars
<1> QED BY <1>1, <1>2, <1>3, <1>4, <1>5, <1>6, <1>7, <1>8, <1>9, <1>10, <1>11,
           <1>12, <1>13, <1>14, <1>15, <1>16, <1>17, <1>18, <1>19, <1>20,
           <1>21, <1>22, <1>23, <1>24, <1>25, <1>26, <1>27, Zenon
        DEF Next, Proceed, TimerProceeds

-----------------------------------------------------------------------------
(* The life of sessions and requests. *)

LEMMA KnownStep == ASSUME TypeOK, KnownInv, [Next]_vars PROVE KnownInv'
<1> USE DEF TypeOK, KnownInv, sessionVars, requestVars
<1>1. CASE Tick
  BY <1>1 DEF Tick
<1>2. ASSUME NEW u \in DOMAIN Accounts, Revoke(u) PROVE KnownInv'
  BY <1>2 DEF Revoke
<1>3. ASSUME NEW s \in Sids, Connect(s) PROVE KnownInv'
  BY <1>3, CallbackAssumption DEF Connect, Decide
<1>4. ASSUME NEW s \in Sids, TimerClaims(s) PROVE KnownInv'
  BY <1>4 DEF TimerClaims, Claimable, Mark
<1>5. ASSUME NEW s \in Sids, TimerMarksFailed(s) PROVE KnownInv'
  BY <1>5 DEF TimerMarksFailed, Mark
<1>6. ASSUME NEW s \in Sids, TimerDenies(s) PROVE KnownInv'
  BY <1>6 DEF TimerDenies, Decide
<1>7. ASSUME NEW s \in Sids, Leave(s) PROVE KnownInv'
  BY <1>7 DEF Leave, Forgotten
<1>8. ASSUME NEW s \in Sids, Reap(s) PROVE KnownInv'
  BY <1>8 DEF Reap
<1>9. ASSUME NEW r \in Reqs, Route(r) PROVE KnownInv'
  BY <1>9 DEF Route, Browse, Finish, Goto
<1>10. ASSUME NEW r \in Reqs, GiveUp(r) PROVE KnownInv'
  BY <1>10 DEF GiveUp
<1>11. ASSUME NEW r \in Reqs, RejectState(r) PROVE KnownInv'
  BY <1>11 DEF RejectState, Decodes, Finish, Goto
<1>12. ASSUME NEW r \in Reqs, RejectSession(r) PROVE KnownInv'
  BY <1>12 DEF RejectSession, Decodes, Finish, Goto
<1>13. ASSUME NEW r \in Reqs, TryProcess(r) PROVE KnownInv'
  BY <1>13 DEF TryProcess, Claimable, Decodes, Mark, Goto
<1>14. ASSUME NEW r \in Reqs, Verify(r) PROVE KnownInv'
  BY <1>14 DEF Verify, Goto
<1>15. ASSUME NEW r \in Reqs, FetchKey(r) PROVE KnownInv'
  BY <1>15 DEF FetchKey, Goto, FetchALBPublicKey
<1>16. ASSUME NEW r \in Reqs, FetchFails(r) PROVE KnownInv'
  BY <1>16 DEF FetchFails, Mark, Finish, Goto
<1>17. ASSUME NEW r \in Reqs, CheckToken(r) PROVE KnownInv'
  BY <1>17 DEF CheckToken, Goto
<1>18. ASSUME NEW r \in Reqs, DenyMarks(r) PROVE KnownInv'
  BY <1>18 DEF DenyMarks, Mark, Goto
<1>19. ASSUME NEW r \in Reqs, DenySends(r) PROVE KnownInv'
  BY <1>19 DEF DenySends, Decide, Finish, Goto
<1>20. ASSUME NEW r \in Reqs, Allow(r) PROVE KnownInv'
  BY <1>20 DEF Allow, Decide, Goto
<1>21. ASSUME NEW r \in Reqs, AllowFails(r) PROVE KnownInv'
  BY <1>21 DEF AllowFails, Mark, Finish, Goto
<1>22. ASSUME NEW r \in Reqs, MarkAuthenticated(r) PROVE KnownInv'
  BY <1>22 DEF MarkAuthenticated, Forgotten, Goto
<1>23. ASSUME NEW r \in Reqs, MarkDone(r) PROVE KnownInv'
  BY <1>23 DEF MarkDone, Mark, Finish, Goto
<1>24. ASSUME NEW r \in Reqs, AdminGetUser(r) PROVE KnownInv'
  BY <1>24 DEF AdminGetUser, Goto
<1>25. ASSUME NEW r \in Reqs, ListGroups(r) PROVE KnownInv'
  BY <1>25 DEF ListGroups, Goto
<1>26. ASSUME NEW r \in Reqs, CheckUserFails(r) PROVE KnownInv'
  BY <1>26 DEF CheckUserFails, Goto
<1>27. CASE UNCHANGED vars
  BY <1>27 DEF vars
<1> QED BY <1>1, <1>2, <1>3, <1>4, <1>5, <1>6, <1>7, <1>8, <1>9, <1>10, <1>11,
           <1>12, <1>13, <1>14, <1>15, <1>16, <1>17, <1>18, <1>19, <1>20,
           <1>21, <1>22, <1>23, <1>24, <1>25, <1>26, <1>27, Zenon
        DEF Next, Proceed, TimerProceeds

\* Where the checks lead.
LEMMA CheckedGoes ==
    ASSUME NEW r \in Reqs PROVE Checked(r) \in {"deny", "user", "allow"}
BY DEF Checked

LEMMA HoldStep == ASSUME TypeOK, KnownInv, HoldInv, [Next]_vars PROVE HoldInv'
<1> USE DEF TypeOK, KnownInv, HoldInv, Held, Holding, Owning, sessionVars,
            requestVars
<1>1. CASE Tick
  BY <1>1 DEF Tick
<1>2. ASSUME NEW u \in DOMAIN Accounts, Revoke(u) PROVE HoldInv'
  BY <1>2 DEF Revoke
<1>3. ASSUME NEW s \in Sids, Connect(s) PROVE HoldInv'
  BY <1>3 DEF Connect, Decide
<1>4. ASSUME NEW s \in Sids, TimerClaims(s) PROVE HoldInv'
  BY <1>4 DEF TimerClaims, Claimable, Mark
<1>5. ASSUME NEW s \in Sids, TimerMarksFailed(s) PROVE HoldInv'
  BY <1>5 DEF TimerMarksFailed, Mark
<1>6. ASSUME NEW s \in Sids, TimerDenies(s) PROVE HoldInv'
  BY <1>6 DEF TimerDenies, Decide
<1>7. ASSUME NEW s \in Sids, Leave(s) PROVE HoldInv'
  BY <1>7 DEF Leave, Forgotten
<1>8. ASSUME NEW s \in Sids, Reap(s) PROVE HoldInv'
  BY <1>8 DEF Reap
<1>9. ASSUME NEW r \in Reqs, Route(r) PROVE HoldInv'
  BY <1>9 DEF Route, Browse, Finish, Goto
<1>10. ASSUME NEW r \in Reqs, GiveUp(r) PROVE HoldInv'
  BY <1>10 DEF GiveUp
<1>11. ASSUME NEW r \in Reqs, RejectState(r) PROVE HoldInv'
  BY <1>11 DEF RejectState, Decodes, Finish, Goto
<1>12. ASSUME NEW r \in Reqs, RejectSession(r) PROVE HoldInv'
  BY <1>12 DEF RejectSession, Decodes, Finish, Goto
<1>13. ASSUME NEW r \in Reqs, TryProcess(r) PROVE HoldInv'
  <2>1. /\ sid[r] \in Sids /\ status[sid[r]] = "PENDING"
        /\ status' = [status EXCEPT ![sid[r]] = "PROCESSING"]
        /\ pc' = [pc EXCEPT ![r] = "verify"]
        /\ UNCHANGED <<sid, timer, decided>>
    BY <1>13 DEF TryProcess, Decodes, Claimable, Mark, Goto
  <2>2. \A q \in Reqs : pc[q] \in Holding => sid[q] # sid[r]
    BY <2>1
  <2>3. decided[sid[r]] = {} /\ timer[sid[r]] \notin {"claimed", "failed"}
    BY <2>1
  <2>4. \A q \in Reqs : pc'[q] \in Holding => Held(q)'
    <3>1. Held(r)'
      BY <2>1, <2>3
    <3>2. ASSUME NEW q \in Reqs, q # r, pc'[q] \in Holding PROVE Held(q)'
      <4>1. pc'[q] = pc[q] /\ sid[q] \in Sids /\ sid[q] # sid[r] /\ Held(q)
        BY <3>2, <2>1, <2>2
      <4> QED BY <4>1, <2>1
    <3> QED BY <3>1, <3>2
  <2>5. \A q, p \in Reqs :
           pc'[q] \in Holding /\ pc'[p] \in Holding /\ sid'[q] = sid'[p] => q = p
    BY <2>1, <2>2
  <2>6. \A s \in Sids :
           /\ timer'[s] = "claimed" => status'[s] \in {"absent", "PROCESSING"}
           /\ timer'[s] = "failed" => status'[s] \in {"absent", "FAILED"}
           /\ timer'[s] \in {"claimed", "failed"} => decided'[s] = {}
           /\ status'[s] = "PENDING" => decided'[s] = {}
    BY <2>1, <2>3
  <2> QED BY <2>4, <2>5, <2>6, Zenon
<1>14. ASSUME NEW r \in Reqs, Verify(r) PROVE HoldInv'
  BY <1>14, CheckedGoes DEF Verify, Goto
<1>15. ASSUME NEW r \in Reqs, FetchKey(r) PROVE HoldInv'
  BY <1>15 DEF FetchKey, Goto, FetchALBPublicKey
<1>16. ASSUME NEW r \in Reqs, FetchFails(r) PROVE HoldInv'
  BY <1>16 DEF FetchFails, Mark, Finish, Goto
<1>17. ASSUME NEW r \in Reqs, CheckToken(r) PROVE HoldInv'
  BY <1>17, CheckedGoes DEF CheckToken, Goto
<1>18. ASSUME NEW r \in Reqs, DenyMarks(r) PROVE HoldInv'
  BY <1>18 DEF DenyMarks, Mark, Goto
<1>19. ASSUME NEW r \in Reqs, DenySends(r) PROVE HoldInv'
  BY <1>19 DEF DenySends, Decide, Finish, Goto
<1>20. ASSUME NEW r \in Reqs, Allow(r) PROVE HoldInv'
  <2>1. /\ pc[r] = "allow" /\ sid[r] \in Sids /\ decided[sid[r]] = {}
        /\ pc' = [pc EXCEPT ![r] = "ack"]
        /\ UNCHANGED <<sid, timer, status>>
    BY <1>20, Zenon DEF Allow, Goto
  <2>2. decided' = [decided EXCEPT ![sid[r]] = {"allow"}]
    BY <2>1, <1>20 DEF Allow, Decide
  <2>3. \A q \in Reqs : pc[q] \in Holding /\ q # r => sid[q] # sid[r]
    BY <2>1
  <2>4. status[sid[r]] # "PENDING" /\ timer[sid[r]] \notin {"claimed", "failed"}
    BY <2>1
  <2> QED BY <2>1, <2>2, <2>3, <2>4
<1>21. ASSUME NEW r \in Reqs, AllowFails(r) PROVE HoldInv'
  BY <1>21 DEF AllowFails, Mark, Finish, Goto
<1>22. ASSUME NEW r \in Reqs, MarkAuthenticated(r) PROVE HoldInv'
  BY <1>22 DEF MarkAuthenticated, Forgotten, Goto
<1>23. ASSUME NEW r \in Reqs, MarkDone(r) PROVE HoldInv'
  BY <1>23 DEF MarkDone, Mark, Finish, Goto
<1>24. ASSUME NEW r \in Reqs, AdminGetUser(r) PROVE HoldInv'
  BY <1>24 DEF AdminGetUser, Goto
<1>25. ASSUME NEW r \in Reqs, ListGroups(r) PROVE HoldInv'
  BY <1>25 DEF ListGroups, Goto
<1>26. ASSUME NEW r \in Reqs, CheckUserFails(r) PROVE HoldInv'
  BY <1>26 DEF CheckUserFails, Goto
<1>27. CASE UNCHANGED vars
  BY <1>27 DEF vars
<1> QED BY <1>1, <1>2, <1>3, <1>4, <1>5, <1>6, <1>7, <1>8, <1>9, <1>10, <1>11,
           <1>12, <1>13, <1>14, <1>15, <1>16, <1>17, <1>18, <1>19, <1>20,
           <1>21, <1>22, <1>23, <1>24, <1>25, <1>26, <1>27, Zenon
        DEF Next, Proceed, TimerProceeds

LEMMA PageStep ==
    ASSUME TypeOK, KnownInv, HoldInv, PageInv, [Next]_vars PROVE PageInv'
<1> USE DEF TypeOK, KnownInv, HoldInv, PageInv, Held, Holding, Owning, Pages,
            sessionVars, requestVars, outcomeVars
<1>1. CASE Tick
  BY <1>1 DEF Tick
<1>2. ASSUME NEW u \in DOMAIN Accounts, Revoke(u) PROVE PageInv'
  BY <1>2 DEF Revoke
<1>3. ASSUME NEW s \in Sids, Connect(s) PROVE PageInv'
  BY <1>3 DEF Connect, Decide
<1>4. ASSUME NEW s \in Sids, TimerClaims(s) PROVE PageInv'
  BY <1>4 DEF TimerClaims, Claimable, Mark
<1>5. ASSUME NEW s \in Sids, TimerMarksFailed(s) PROVE PageInv'
  BY <1>5 DEF TimerMarksFailed, Mark
<1>6. ASSUME NEW s \in Sids, TimerDenies(s) PROVE PageInv'
  BY <1>6 DEF TimerDenies, Decide
<1>7. ASSUME NEW s \in Sids, Leave(s) PROVE PageInv'
  BY <1>7 DEF Leave, Forgotten
<1>8. ASSUME NEW s \in Sids, Reap(s) PROVE PageInv'
  BY <1>8 DEF Reap
<1>9. ASSUME NEW r \in Reqs, Route(r) PROVE PageInv'
  BY <1>9 DEF Route, Browse, Finish, Goto
<1>10. ASSUME NEW r \in Reqs, GiveUp(r) PROVE PageInv'
  BY <1>10 DEF GiveUp
<1>11. ASSUME NEW r \in Reqs, RejectState(r) PROVE PageInv'
  BY <1>11 DEF RejectState, Decodes, Finish, Goto
<1>12. ASSUME NEW r \in Reqs, RejectSession(r) PROVE PageInv'
  BY <1>12 DEF RejectSession, Decodes, Finish, Goto
<1>13. ASSUME NEW r \in Reqs, TryProcess(r) PROVE PageInv'
  BY <1>13 DEF TryProcess, Claimable, Decodes, Mark, Goto
<1>14. ASSUME NEW r \in Reqs, Verify(r) PROVE PageInv'
  BY <1>14, CheckedGoes DEF Verify, Goto
<1>15. ASSUME NEW r \in Reqs, FetchKey(r) PROVE PageInv'
  BY <1>15 DEF FetchKey, Goto, FetchALBPublicKey
<1>16. ASSUME NEW r \in Reqs, FetchFails(r) PROVE PageInv'
  BY <1>16 DEF FetchFails, Mark, Finish, Goto
<1>17. ASSUME NEW r \in Reqs, CheckToken(r) PROVE PageInv'
  BY <1>17, CheckedGoes DEF CheckToken, Goto
<1>18. ASSUME NEW r \in Reqs, DenyMarks(r) PROVE PageInv'
  BY <1>18 DEF DenyMarks, Mark, Goto
<1>19. ASSUME NEW r \in Reqs, DenySends(r) PROVE PageInv'
  BY <1>19 DEF DenySends, Decide, Finish, Goto
<1>20. ASSUME NEW r \in Reqs, Allow(r) PROVE PageInv'
  BY <1>20 DEF Allow, Decide, Goto
<1>21. ASSUME NEW r \in Reqs, AllowFails(r) PROVE PageInv'
  BY <1>21 DEF AllowFails, Mark, Finish, Goto
<1>22. ASSUME NEW r \in Reqs, MarkAuthenticated(r) PROVE PageInv'
  BY <1>22 DEF MarkAuthenticated, Forgotten, Goto
<1>23. ASSUME NEW r \in Reqs, MarkDone(r) PROVE PageInv'
  BY <1>23 DEF MarkDone, Mark, Finish, Goto
<1>24. ASSUME NEW r \in Reqs, AdminGetUser(r) PROVE PageInv'
  BY <1>24 DEF AdminGetUser, Goto
<1>25. ASSUME NEW r \in Reqs, ListGroups(r) PROVE PageInv'
  BY <1>25 DEF ListGroups, Goto
<1>26. ASSUME NEW r \in Reqs, CheckUserFails(r) PROVE PageInv'
  BY <1>26 DEF CheckUserFails, Goto
<1>27. CASE UNCHANGED vars
  BY <1>27 DEF vars
<1> QED BY <1>1, <1>2, <1>3, <1>4, <1>5, <1>6, <1>7, <1>8, <1>9, <1>10, <1>11,
           <1>12, <1>13, <1>14, <1>15, <1>16, <1>17, <1>18, <1>19, <1>20,
           <1>21, <1>22, <1>23, <1>24, <1>25, <1>26, <1>27, Zenon
        DEF Next, Proceed, TimerProceeds

-----------------------------------------------------------------------------
(* The theorems. *)

LEMMA SessionInvInit == Init => SessionInv
<1> SUFFICES ASSUME Init PROVE SessionInv
  OBVIOUS
<1>1. TypeOK
  BY CallbackAssumption, Zenon DEF Init, TypeOK, Pcs
<1>2. KnownInv
  BY Zenon DEF Init, KnownInv
<1>3. HoldInv
  BY Zenon DEF Init, HoldInv, Holding, Owning
<1>4. PageInv
  BY Zenon DEF Init, PageInv, Holding, Owning
<1> QED BY <1>1, <1>2, <1>3, <1>4 DEF SessionInv

\* The invariant the rest follows from: every action of the timeouts, of the
\* requests and of the world keeps it.
THEOREM SessionInvAlways == Spec => []SessionInv
<1>1. SessionInv /\ [Next]_vars => SessionInv'
  BY TypeStep, KnownStep, HoldStep, PageStep DEF SessionInv
<1> QED BY SessionInvInit, <1>1, PTL DEF Spec

\* Sessions, requests and the store only ever hold values of their types,
\* whatever handleCallback, the timeouts and the reaper do to them.
THEOREM CallbackTypes == Spec => []TypeOK
<1>1. SessionInv => TypeOK
  BY DEF SessionInv
<1> QED BY SessionInvAlways, <1>1, PTL

\* The page handleCallback shows stays true: success has been confirmed by
\* OpenVPN, and after "verification failed" nobody lets the client in.
THEOREM PagesTrue == Spec => []PageIsTrue
<1>1. SessionInv => PageIsTrue
  BY Zenon DEF SessionInv, PageInv, PageIsTrue
<1> QED BY SessionInvAlways, <1>1, PTL

\* A mark of the holder is a move of the store, or of nothing.
LEMMA MarkMoves ==
    ASSUME TypeOK, NEW s \in Sids, NEW st, Mark(s, st),
           status[s] \in {"absent", "PROCESSING"}
    PROVE  \/ status' = status
           \/ status[s] = "PROCESSING" /\ status' = [status EXCEPT ![s] = st]
BY Zenon DEF TypeOK, Mark

\* What a step of handleCallback, of the timeouts or of the reaper does to a
\* session is one operation of the store.
StoreMove(s) ==
    \/ Store!Put(s) \/ Store!TryProcess(s) \/ Store!MarkPending(s)
    \/ Store!MarkDone(s) \/ Store!MarkFailed(s) \/ Store!Delete(s)
    \/ Store!Answer(s, "allow") \/ Store!Answer(s, "deny")

LEMMA StoreStep ==
    ASSUME TypeOK, KnownInv, HoldInv, [Next]_vars
    PROVE  Store!StoreNext \/ UNCHANGED <<status, decided>>
<1> DEFINE Goal == (\E s \in Sids : StoreMove(s)) \/ UNCHANGED <<status, decided>>
<1> USE DEF TypeOK, StoreMove, sessionVars
<1>0. ASSUME NEW r \in Reqs, pc[r] \in Holding
      PROVE  sid[r] \in Sids /\ Held(r)
  BY <1>0, Zenon DEF KnownInv, HoldInv, Holding, Owning
<1>1. ASSUME Tick \/ \E u \in DOMAIN Accounts : Revoke(u) PROVE Goal
  BY <1>1 DEF Tick, Revoke
<1>2. ASSUME NEW s \in Sids, Connect(s) PROVE Goal
  BY <1>2 DEF Connect, Decide, KnownInv, Store!Put, Store!Move, Store!Answer
<1>3. ASSUME NEW s \in Sids, TimerClaims(s) PROVE Goal
  BY <1>3, Zenon DEF TimerClaims, Claimable, Mark, Store!TryProcess, Store!Move
<1>4. ASSUME NEW s \in Sids, TimerMarksFailed(s) PROVE Goal
  <2>1. status[s] \in {"absent", "PROCESSING"}
    BY <1>4, Zenon DEF TimerMarksFailed, HoldInv
  <2> QED BY <1>4, <2>1, MarkMoves, Zenon
          DEF TimerMarksFailed, Store!MarkFailed, Store!Move
<1>5. ASSUME NEW s \in Sids, TimerDenies(s) PROVE Goal
  <2>1. status[s] # "PENDING" /\ decided[s] = {}
    BY <1>5, Zenon DEF TimerDenies, HoldInv
  <2> QED BY <1>5, <2>1, Zenon DEF TimerDenies, Decide, Store!Answer
<1>6. ASSUME NEW s \in Sids, Leave(s) \/ Reap(s) PROVE Goal
  BY <1>6, Zenon DEF Leave, Forgotten, Reap, Store!Delete, Store!Move, Store!Status
<1>7. ASSUME NEW r \in Reqs,
             \/ Route(r) \/ GiveUp(r) \/ RejectState(r) \/ RejectSession(r)
             \/ Verify(r) \/ FetchKey(r) \/ CheckToken(r)
             \/ AdminGetUser(r) \/ ListGroups(r) \/ CheckUserFails(r)
      PROVE  Goal
  BY <1>7, Zenon DEF Route, Browse, GiveUp, RejectState, RejectSession, Verify,
              FetchKey, CheckToken, AdminGetUser, ListGroups, CheckUserFails
<1>8. ASSUME NEW r \in Reqs, TryProcess(r) PROVE Goal
  <2>1. sid[r] \in Sids
    BY <1>8, Zenon DEF TryProcess, Decodes, KnownInv
  <2> QED BY <1>8, <2>1, Zenon
          DEF TryProcess, Claimable, Mark, Store!TryProcess, Store!Move
<1>9. ASSUME NEW r \in Reqs, FetchFails(r) PROVE Goal
  <2>1. /\ sid[r] \in Sids /\ status[sid[r]] \in {"absent", "PROCESSING"}
        /\ decided[sid[r]] = {}
    BY <1>0, <1>9, Zenon DEF FetchFails, Held, Holding, Owning
  <2>2. Mark(sid[r], "PENDING") /\ decided' = decided
    BY <1>9, Zenon DEF FetchFails
  <2>3. \/ status' = status
        \/ /\ status[sid[r]] = "PROCESSING"
           /\ status' = [status EXCEPT ![sid[r]] = "PENDING"]
    BY <2>1, <2>2, MarkMoves, Zenon
  <2> QED BY <2>1, <2>2, <2>3, Zenon DEF Store!MarkPending, Store!Move
<1>10. ASSUME NEW r \in Reqs, DenyMarks(r) PROVE Goal
  <2>1. sid[r] \in Sids /\ status[sid[r]] \in {"absent", "PROCESSING"}
    BY <1>0, <1>10, Zenon DEF DenyMarks, Held, Holding, Owning
  <2> QED BY <1>10, <2>1, MarkMoves, Zenon DEF DenyMarks, Store!MarkFailed, Store!Move
<1>11. ASSUME NEW r \in Reqs, DenySends(r) \/ Allow(r) PROVE Goal
  <2>1. sid[r] \in Sids /\ status[sid[r]] # "PENDING" /\ decided[sid[r]] = {}
    BY <1>0, <1>11, Zenon DEF DenySends, Allow, Held, Holding, Owning
  <2> QED BY <1>11, <2>1, Zenon DEF DenySends, Allow, Decide, Store!Answer
<1>12. ASSUME NEW r \in Reqs, AllowFails(r) PROVE Goal
  <2>1. sid[r] \in Sids /\ status[sid[r]] \in {"absent", "PROCESSING"}
    BY <1>0, <1>12, Zenon DEF AllowFails, Held, Holding, Owning
  <2> QED BY <1>12, <2>1, MarkMoves, Zenon DEF AllowFails, Store!MarkFailed, Store!Move
<1>13. ASSUME NEW r \in Reqs, MarkAuthenticated(r) PROVE Goal
  <2>1. sid[r] \in Sids
    BY <1>0, <1>13, Zenon DEF MarkAuthenticated, Holding, Owning
  <2> QED BY <1>13, <2>1, Zenon
          DEF MarkAuthenticated, Forgotten, Store!Delete, Store!Move,
              Store!Status
<1>14. ASSUME NEW r \in Reqs, MarkDone(r) PROVE Goal
  <2>1. sid[r] \in Sids /\ status[sid[r]] \in {"absent", "PROCESSING"}
    BY <1>0, <1>14, Zenon DEF MarkDone, Held, Holding, Owning
  <2> QED BY <1>14, <2>1, MarkMoves, Zenon DEF MarkDone, Store!MarkDone, Store!Move
<1>15. ASSUME UNCHANGED vars PROVE Goal
  BY <1>15, Zenon DEF vars
<1> HIDE DEF Goal
<1>16. Goal
  BY <1>1, <1>2, <1>3, <1>4, <1>5, <1>6, <1>7, <1>8, <1>9, <1>10, <1>11, <1>12,
     <1>13, <1>14, <1>15, Zenon DEF Next, Proceed, TimerProceeds
<1> QED BY <1>16, Zenon DEF Goal, Store!StoreNext, Store!Answers

\* The checks use the session store as its protocol says, for any number of
\* sessions and requests: handleCallback, authTimeout and the reaper only make
\* the moves of SessionStore, with one answer for each session.
THEOREM StoreRefined == Spec => ImplementsSessionStore
<1>1. Init => Store!StoreInit
  BY Zenon DEF Init, Store!StoreInit, Store!Answers
<1>2. SessionInv /\ [Next]_vars => [Store!StoreNext]_(Store!storeVars)
  BY StoreStep DEF SessionInv, Store!storeVars
<1> QED BY SessionInvAlways, <1>1, <1>2, PTL
        DEF Spec, ImplementsSessionStore, Store!StoreSpec

-----------------------------------------------------------------------------
(* What the checks find out. *)

\* What AllowedOnlyVerified asks of the state, of the token and of the group.
InTime(r) == taken[r] <= created[sid[r]] + config.authTimeout

Past(r) == taken[r] <= now

TokenOK(r) ==
    /\ config.albARN => /\ tok[r].signedBy \in Kids /\ tok[r].ours
                        /\ tok[r].issuedHere
                        /\ tok[r].exp # None /\ taken[r] < tok[r].exp
    /\ config.cnCrossCheck => SamePerson(cn[sid[r]], tok[r].email)

GroupOK(r) ==
    config.requiredGroup # Unset =>
        IF config.groupsSource = "jwt-claim"
        THEN Lists(tok[r], config.requiredGroup) ELSE r \in fit

\* Membership is lost, never won, while a request is under way: who was not
\* fit when the session was claimed does not become so.
NeverFit(r) ==
    r \notin fit =>
        IF pc[r] = "groups"
        THEN config.requiredGroup \notin account[tok[r].user].groups
        ELSE ~Fit(tok[r])

\* What a request has found out by the time it gets to a step.
Found(r) ==
    /\ pc[r] \in Holding => tok[r] \in Tokens /\ InTime(r) /\ Past(r)
    /\ pc[r] \in {"fetch", "token"} => config.albARN
    /\ pc[r] = "token" => tok[r].kid \in keys
    /\ pc[r] \in {"verify", "fetch", "token", "user", "groups"} => NeverFit(r)
    /\ pc[r] \in {"user", "groups"} =>
          config.requiredGroup # Unset /\ config.groupsSource # "jwt-claim"
    /\ pc[r] = "groups" => tok[r].user \in DOMAIN account
    /\ pc[r] \in {"user", "groups", "allow"} => TokenOK(r)
    /\ pc[r] = "allow" => GroupOK(r)
    /\ r \in granted => /\ pc[r] \in {"ack", "markDone", "done"}
                        /\ InTime(r) /\ TokenOK(r) /\ GroupOK(r)

VerifyInv == Validate(config) /\ \A r \in Reqs : Found(r)

\* What RefusedForCause asks of a request that denies its client.
Expired(r) == tok[r].exp = None \/ now >= tok[r].exp

Cause(r) ==
    \/ ~HasClaims(tok[r])
    \/ /\ config.albARN
       /\ \/ tok[r].signedBy # tok[r].kid \/ ~tok[r].ecdsa
          \/ ~tok[r].ours \/ ~tok[r].issuedHere \/ Expired(r)
    \/ config.cnCrossCheck /\ ~SamePerson(cn[sid[r]], tok[r].email)
    \/ /\ config.requiredGroup # Unset
       /\ IF config.groupsSource = "jwt-claim"
          THEN ~(WellFormed(tok[r].groups) /\ Lists(tok[r], config.requiredGroup))
          ELSE ~Fit(tok[r])

\* A request has a cause from the step that decides to deny.
Caused(r) ==
    /\ r \in refused => pc[r] \in {"denySend", "done"} /\ tok[r] \in Tokens
    /\ (pc[r] = "deny" \/ r \in refused) /\ r \notin erred => Cause(r)

CauseInv == \A r \in Reqs : Caused(r)

-----------------------------------------------------------------------------
(* What the checks find out. *)

\* What parseGroupsClaim returns is named in the claim.
LEMMA ParsedIsListed ==
    ASSUME NEW v \in Claim, NEW g \in ParseGroupsClaim(v)
    PROVE  v.type \in {"array", "string"} /\ Mentions(v, g)
<1> USE DEF Trimmed, TrimSpace, GroupsFromArray, GroupsFromCSV, Mentions
<1>1. CASE v.type = "array"
  BY <1>1, Zenon DEF ParseGroupsClaim
<1>2. CASE v.type = "string" /\ v.bracketed
  BY <1>2, Zenon DEF ParseGroupsClaim, GroupsFromBracketed
<1>3. CASE v.type = "string" /\ ~v.bracketed
  BY <1>3, Zenon DEF ParseGroupsClaim
<1>4. CASE v.type \in {"absent", "other"}
  BY <1>4 DEF ParseGroupsClaim
<1> QED BY <1>1, <1>2, <1>3, <1>4 DEF Claim

\* Names that normalize to the same are of the same person.
LEMMA NormalizedIsSame ==
    ASSUME NEW v \in Written, NEW w \in Written,
           NormalizeIdentity(v) # None,
           NormalizeIdentity(v) = NormalizeIdentity(w)
    PROVE  SamePerson(v, w)
BY DEF NormalizeIdentity, SamePerson, Written

\* What Validate has made sure of.
LEMMA ValidConfig ==
    ASSUME NEW c \in Config, Validate(c)
    PROVE  /\ c.albARN => c.issuerURL
           /\ c.requiredGroup # Unset /\ c.groupsSource # "jwt-claim" => c.poolID
<1>1. c.albARN => c.issuerURL
  BY DEF Validate, IdentityValid
<1>2. ASSUME c.requiredGroup # Unset, c.groupsSource # "jwt-claim"
      PROVE  c.poolID
  <2>1. GroupsSource(c) = "cognito-api"
    BY <1>2 DEF Validate, GroupsValid, GroupsSource, GroupsSources
  <2> QED BY <1>2, <2>1 DEF Validate, IdentityValid
<1> QED BY <1>1, <1>2

\* Steps 7 and 8 of handleCallback.
LEMMA CheckedFinds ==
    ASSUME TypeOK, KnownInv, Validate(config),
           NEW r \in Reqs, pc[r] # "idle", tok[r] \in Tokens
    PROVE  /\ Checked(r) \in {"user", "allow"} /\ config.cnCrossCheck =>
                 SamePerson(cn[sid[r]], tok[r].email)
           /\ Checked(r) = "user" =>
                 config.requiredGroup # Unset /\ config.groupsSource # "jwt-claim"
           /\ Checked(r) = "allow" => GroupOK(r)
<1>1. /\ config \in Config /\ tok[r] \in Token
      /\ cn[sid[r]] \in Written /\ NormalizeIdentity(cn[sid[r]]) # None
  BY CallbackAssumption DEF TypeOK, KnownInv
<1>2. cn[sid[r]].form # "empty"
  BY <1>1 DEF NormalizeIdentity
<1>3. tok[r].email \in Written /\ tok[r].groups \in Claim
  BY <1>1, Zenon DEF Token
<1>4. Checked(r) \in {"user", "allow"} => CNCrossCheck(r)
  BY DEF Checked
<1>5. CNCrossCheck(r) /\ config.cnCrossCheck =>
          SamePerson(cn[sid[r]], tok[r].email)
  BY <1>1, <1>2, <1>3, NormalizedIsSame, Zenon DEF CNCrossCheck
<1>6. Checked(r) = "user" =>
          config.requiredGroup # Unset /\ config.groupsSource # "jwt-claim"
  BY DEF Checked
<1>7. ASSUME Checked(r) = "allow" PROVE GroupOK(r)
  <2>1. SUFFICES ASSUME config.requiredGroup # Unset
                 PROVE  /\ config.groupsSource = "jwt-claim"
                        /\ Lists(tok[r], config.requiredGroup)
    BY Zenon DEF GroupOK
  <2>2. config.groupsSource = "jwt-claim"
    BY <1>1, <1>7, <2>1, ValidConfig DEF Checked
  <2>3. config.requiredGroup \in ParseGroupsClaim(tok[r].groups)
    BY <1>7, <2>1, <2>2 DEF Checked, InGroup
  <2> QED BY <1>3, <2>2, <2>3, ParsedIsListed, Zenon DEF Lists
<1> QED BY <1>4, <1>5, <1>6, <1>7, Zenon

\* A step that leaves a request alone: its own state, and what it has seen of
\* the world.
Alone(r) ==
    /\ pc'[r] = pc[r] /\ sid'[r] = sid[r] /\ tok'[r] = tok[r]
    /\ taken'[r] = taken[r]
    /\ (r \in fit') <=> (r \in fit)
    /\ (r \in granted') <=> (r \in granted)
    /\ (r \in refused') <=> (r \in refused)
    /\ (r \in erred') <=> (r \in erred)

Onwards ==
    /\ UNCHANGED <<config, account>>
    /\ now <= now' /\ keys \subseteq keys'
    /\ \A s \in Sids : created[s] # None =>
          cn'[s] = cn[s] /\ created'[s] = created[s]

LEMMA WorldStays ==
    ASSUME TypeOK, UNCHANGED <<config, account, now, keys, cn, created>>
    PROVE  Onwards
<1>1. now \in Nat
  BY TimesNat DEF TypeOK
<1>2. now <= now'
  BY <1>1
<1> QED BY <1>2, Zenon DEF Onwards

\* What has been established stays so.
LEMMA Kept ==
    ASSUME TypeOK, TypeOK', KnownInv, NEW r \in Reqs, pc[r] # "idle", Onwards,
           sid'[r] = sid[r], tok'[r] = tok[r], taken'[r] = taken[r],
           (r \in fit') <=> (r \in fit)
    PROVE  /\ InTime(r)' <=> InTime(r)
           /\ TokenOK(r)' <=> TokenOK(r)
           /\ GroupOK(r)' <=> GroupOK(r)
           /\ Past(r) => Past(r)'
<1>1. /\ sid[r] \in Sids /\ cn'[sid[r]] = cn[sid[r]]
      /\ created'[sid[r]] = created[sid[r]] /\ config' = config
  BY Zenon DEF KnownInv, Onwards
<1>2. InTime(r)' <=> InTime(r)
  BY <1>1, Zenon DEF InTime
<1>3. TokenOK(r)' <=> TokenOK(r)
  BY <1>1, Zenon DEF TokenOK
<1>4. GroupOK(r)' <=> GroupOK(r)
  BY <1>1, Zenon DEF GroupOK
<1>5. Past(r) => Past(r)'
  <2>1. now \in Nat /\ now' \in Nat /\ taken[r] \in Nat
    BY TimesNat, Zenon DEF TypeOK
  <2> QED BY <2>1 DEF Past, Onwards
<1> QED BY <1>2, <1>3, <1>4, <1>5, Zenon

LEMMA LeftAlone ==
    ASSUME TypeOK, TypeOK', KnownInv,
           NEW r \in Reqs, Found(r), Onwards, Alone(r)
    PROVE  Found(r)'
<1>1. CASE pc[r] = "idle"
  BY <1>1, Zenon DEF Found, Alone, Holding, Owning
<1>2. CASE pc[r] # "idle"
  <2>1. /\ InTime(r)' <=> InTime(r)
        /\ TokenOK(r)' <=> TokenOK(r)
        /\ GroupOK(r)' <=> GroupOK(r)
        /\ Past(r) => Past(r)'
    BY <1>2, Kept, Zenon DEF Alone
  <2>2. NeverFit(r)' <=> NeverFit(r)
    BY Zenon DEF NeverFit, Fit, Alone, Onwards
  <2> QED BY <2>1, <2>2, Zenon DEF Found, Alone, Onwards
<1> QED BY <1>1, <1>2

\* The timeouts and the reaper leave every request alone, and so does a client
\* that comes or leaves.
LEMMA SessionsApart ==
    ASSUME TypeOK, TypeOK',
           \/ Tick
           \/ \E s \in Sids : \/ Connect(s) \/ TimerProceeds(s)
                              \/ Leave(s) \/ Reap(s)
    PROVE  Onwards /\ \A r \in Reqs : Alone(r)
<1>1. Onwards
  <2>1. CASE Tick
    <3>1. now \in Nat /\ now' \in Nat /\ now < now'
      <4>1. now \in Nat /\ now' \in Nat
        BY TimesNat, Zenon DEF TypeOK
      <4>2. now < now'
        BY <2>1, Zenon DEF Tick
      <4> QED BY <4>1, <4>2, Zenon
    <3> QED BY <2>1, <3>1 DEF Tick, Onwards, sessionVars
  <2>2. ASSUME NEW s \in Sids, Connect(s) PROVE Onwards
    <3>1. /\ now \in Nat
          /\ cn \in [Sids -> CommonNames \cup {None}]
          /\ created \in [Sids -> Times \cup {None}]
      BY TimesNat, Zenon DEF TypeOK
    <3>2. UNCHANGED <<config, account, now, keys>>
      BY <2>2, Zenon DEF Connect
    <3>3. \A t \in Sids : created[t] # None =>
             cn'[t] = cn[t] /\ created'[t] = created[t]
      BY <2>2, <3>1, Zenon DEF Connect
    <3>4. now <= now'
      BY <3>1, <3>2
    <3> QED BY <3>2, <3>3, <3>4, Zenon DEF Onwards
  <2>3. ASSUME NEW s \in Sids, TimerProceeds(s) PROVE Onwards
    BY <2>3, WorldStays, Zenon
       DEF TimerProceeds, TimerClaims, TimerMarksFailed, TimerDenies
  <2>4. ASSUME NEW s \in Sids, Leave(s) \/ Reap(s) PROVE Onwards
    BY <2>4, WorldStays DEF Leave, Reap
  <2> QED BY <2>1, <2>2, <2>3, <2>4
<1>2. \A r \in Reqs : Alone(r)
  <2>1. UNCHANGED <<requestVars, outcomeVars>>
    BY Zenon DEF Tick, Connect, TimerProceeds, TimerClaims, TimerMarksFailed,
           TimerDenies, Leave, Reap
  <2> QED BY <2>1, Zenon DEF Alone, requestVars, outcomeVars
<1> QED BY <1>1, <1>2, Zenon

\* Revoke takes a membership away.
LEMMA RevokeTakes ==
    ASSUME TypeOK, NEW u \in DOMAIN Accounts, Revoke(u)
    PROVE  /\ DOMAIN account' = DOMAIN account
           /\ \A v \in DOMAIN account :
                 /\ account'[v].enabled => account[v].enabled
                 /\ account'[v].groups \subseteq account[v].groups
           /\ \A t : Fit(t)' => Fit(t)
           /\ UNCHANGED <<config, now, keys, cn, created, pc, sid, tok, taken,
                         fit, granted, refused, erred>>
<1>1. /\ DOMAIN account' = DOMAIN account
      /\ \A v \in DOMAIN account :
            /\ account'[v].enabled => account[v].enabled
            /\ account'[v].groups \subseteq account[v].groups
  <2>1. /\ account \in [DOMAIN Accounts -> Account]
        /\ \/ account' = [account EXCEPT ![u].enabled = FALSE]
           \/ account' = [account EXCEPT ![u].groups = {}]
    BY Zenon DEF Revoke, TypeOK
  <2>2. /\ DOMAIN account' = DOMAIN account
        /\ \A v \in DOMAIN Accounts \ {u} : account'[v] = account[v]
    BY <2>1, Zenon
  <2>3. account[u] \in Account
    BY <2>1, Zenon
  <2>4. /\ account'[u].enabled => account[u].enabled
        /\ account'[u].groups \subseteq account[u].groups
    BY <2>1, <2>3 DEF Account
  <2> QED BY <2>1, <2>2, <2>4, Zenon
<1>2. UNCHANGED <<config, now, keys, cn, created, pc, sid, tok, taken, fit,
                  granted, refused, erred>>
  BY Zenon DEF Revoke, sessionVars, requestVars, outcomeVars
<1>3. \A t : Fit(t)' => Fit(t)
  BY <1>1, <1>2, Zenon DEF Fit
<1> QED BY <1>1, <1>2, <1>3, Zenon

LEMMA RevokeVerifyStep ==
    ASSUME TypeOK, TypeOK', KnownInv, VerifyInv,
           NEW u \in DOMAIN Accounts, Revoke(u)
    PROVE  VerifyInv'
<1>1. /\ DOMAIN account' = DOMAIN account
      /\ \A v \in DOMAIN account :
            /\ account'[v].enabled => account[v].enabled
            /\ account'[v].groups \subseteq account[v].groups
      /\ \A t : Fit(t)' => Fit(t)
  BY RevokeTakes, Zenon
<1>2. UNCHANGED <<config, now, keys, cn, created, pc, sid, tok, taken, fit,
                  granted>>
  BY RevokeTakes, Zenon
<1>3. ASSUME NEW r \in Reqs, Found(r) PROVE Found(r)'
  <2>2. tok[r] \in Tokens /\ NeverFit(r)
          /\ (pc[r] = "groups" => tok[r].user \in DOMAIN account)
        => NeverFit(r)'
    BY <1>1, <1>2, Zenon DEF NeverFit
  <2>3. /\ InTime(r)' <=> InTime(r)
        /\ TokenOK(r)' <=> TokenOK(r)
        /\ GroupOK(r)' <=> GroupOK(r)
        /\ Past(r)' <=> Past(r)
    BY <1>2, Zenon DEF InTime, TokenOK, GroupOK, Past
  <2> QED BY <1>1, <1>2, <1>3, <2>2, <2>3, Zenon DEF Found, Holding, Owning
<1> QED BY <1>2, <1>3 DEF VerifyInv

\* A step of a request.
RequestNext(r) ==
    \/ Route(r) \/ GiveUp(r) \/ Proceed(r)
    \/ AdminGetUser(r) \/ ListGroups(r) \/ CheckUserFails(r)

\* The world goes on, and the others are left alone.
LEMMA RequestsOnwards ==
    ASSUME TypeOK, NEW r \in Reqs, RequestNext(r) PROVE Onwards
<1>1. CASE FetchKey(r)
  <2>1. now \in Nat
    BY TimesNat DEF TypeOK
  <2> QED BY <1>1, <2>1 DEF FetchKey, Onwards, sessionVars
<1>2. CASE ~FetchKey(r)
  <2>1. UNCHANGED <<config, account, now, keys, cn, created>>
    BY <1>2, Zenon
       DEF RequestNext, Proceed, sessionVars, Route, Browse, GiveUp, RejectState,
           RejectSession, TryProcess, Verify, FetchFails, CheckToken, DenyMarks,
           DenySends, Allow, AllowFails, MarkAuthenticated, MarkDone,
           AdminGetUser, ListGroups, CheckUserFails
  <2> QED BY <2>1, WorldStays, Zenon
<1> QED BY <1>1, <1>2

LEMMA RequestsApart ==
    ASSUME TypeOK, NEW r \in Reqs, RequestNext(r)
    PROVE  \A q \in Reqs \ {r} : Alone(q)
<1> USE DEF Alone, Goto, Finish, requestVars, outcomeVars
<1>0. /\ pc \in [Reqs -> Pcs] /\ sid \in [Reqs -> Sids \cup {None}]
      /\ tok \in [Reqs -> Tokens \cup {None}] /\ taken \in [Reqs -> Times]
  BY Zenon DEF TypeOK
<1>1. CASE Route(r)
  BY <1>0, <1>1, Zenon DEF Route, Browse
<1>2. CASE GiveUp(r)
  BY <1>0, <1>2 DEF GiveUp
<1>3. CASE RejectState(r)
  BY <1>0, <1>3 DEF RejectState
<1>4. CASE RejectSession(r)
  BY <1>0, <1>4 DEF RejectSession
<1>5. CASE TryProcess(r)
  BY <1>0, <1>5 DEF TryProcess
<1>6. CASE Verify(r)
  BY <1>0, <1>6, Zenon DEF Verify
<1>7. CASE FetchKey(r)
  BY <1>0, <1>7 DEF FetchKey
<1>8. CASE FetchFails(r)
  BY <1>0, <1>8, Zenon DEF FetchFails
<1>9. CASE CheckToken(r)
  BY <1>0, <1>9 DEF CheckToken
<1>10. CASE DenyMarks(r)
  BY <1>0, <1>10 DEF DenyMarks
<1>11. CASE DenySends(r)
  BY <1>0, <1>11 DEF DenySends
<1>12. CASE Allow(r)
  BY <1>0, <1>12 DEF Allow
<1>13. CASE AllowFails(r)
  BY <1>0, <1>13, Zenon DEF AllowFails
<1>14. CASE MarkAuthenticated(r)
  BY <1>0, <1>14, Zenon DEF MarkAuthenticated
<1>15. CASE MarkDone(r)
  BY <1>0, <1>15, Zenon DEF MarkDone
<1>16. CASE AdminGetUser(r)
  BY <1>0, <1>16, Zenon DEF AdminGetUser
<1>17. CASE ListGroups(r)
  BY <1>0, <1>17, Zenon DEF ListGroups
<1>18. CASE CheckUserFails(r)
  BY <1>0, <1>18 DEF CheckUserFails
<1> QED BY <1>1, <1>2, <1>3, <1>4, <1>5, <1>6, <1>7, <1>8, <1>9, <1>10, <1>11,
           <1>12, <1>13, <1>14, <1>15, <1>16, <1>17, <1>18, Zenon
        DEF RequestNext, Proceed

\* And it finds out what it has to.
LEMMA FoundStep ==
    ASSUME TypeOK, TypeOK', KnownInv, VerifyInv, NEW r \in Reqs, RequestNext(r)
    PROVE  Found(r)'
<1> USE DEF Found, Holding, Owning
<1>0. Found(r) /\ Onwards
  BY RequestsOnwards, Zenon DEF VerifyInv
<1>t. pc \in [Reqs -> Pcs]
  BY Zenon DEF TypeOK
<1>d. DOMAIN pc = Reqs /\ DOMAIN tok = Reqs /\ DOMAIN taken = Reqs
  BY Zenon DEF TypeOK
<1>k. ASSUME pc[r] # "idle", UNCHANGED <<sid, tok, taken, fit>>
      PROVE  /\ InTime(r)' <=> InTime(r)
             /\ TokenOK(r)' <=> TokenOK(r)
             /\ GroupOK(r)' <=> GroupOK(r)
             /\ Past(r) => Past(r)'
  BY <1>0, <1>k, Kept, ZenonT(30)
<1>1. CASE Route(r)
  <2>1. pc[r] = "idle" /\ granted' = granted
    BY <1>1 DEF Route, Browse, outcomeVars
  <2>2. pc'[r] \in {"badState", "arrived", "done"}
    BY <1>1 DEF Route, Finish, Goto, TypeOK
  <2> QED BY <1>0, <2>1, <2>2, Zenon
<1>2. CASE GiveUp(r)
  <2>1. Alone(r)
    BY <1>2, Zenon DEF GiveUp, Alone, outcomeVars
  <2> QED BY <1>0, <2>1, LeftAlone, Zenon
<1>3. CASE RejectState(r)
  <2>1. r \notin granted /\ granted' = granted /\ pc'[r] = "done"
    BY <1>0, <1>t, <1>3, Zenon
       DEF RejectState, Decodes, Finish, Goto, outcomeVars
  <2> QED BY <2>1, Zenon
<1>4. CASE RejectSession(r)
  <2>1. r \notin granted /\ granted' = granted /\ pc'[r] = "done"
    BY <1>0, <1>t, <1>4, Zenon DEF RejectSession, Decodes, Finish, Goto, outcomeVars
  <2> QED BY <2>1
<1>5. CASE TryProcess(r)
  <2>1. /\ pc[r] = "arrived" /\ now <= created[sid[r]] + config.authTimeout
        /\ pc'[r] = "verify" /\ taken'[r] = now /\ tok'[r] \in Tokens
        /\ UNCHANGED <<sid, created, config, now, account, granted>>
    <3>1. /\ pc[r] = "arrived" /\ now <= created[sid[r]] + config.authTimeout
          /\ UNCHANGED <<sid, created, config, now, account, granted>>
      BY <1>5, Zenon DEF TryProcess, Decodes, outcomeVars
    <3>2. pc'[r] = "verify" /\ taken'[r] = now
      BY <1>d, <1>5, Zenon DEF TryProcess, Goto
    <3>3. tok'[r] \in Tokens
      BY <1>d, <1>5, Zenon DEF TryProcess
    <3> QED BY <3>1, <3>2, <3>3, Zenon
  <2>2. r \notin fit' => ~Fit(tok'[r])
    <3>1. PICK t \in Tokens : /\ tok' = [tok EXCEPT ![r] = t]
                              /\ fit' = IF Fit(t) THEN fit \cup {r} ELSE fit
      BY <1>5, Zenon DEF TryProcess
    <3>2. tok'[r] = t
      BY <3>1, Zenon DEF TypeOK
    <3> QED BY <3>1, <3>2
  <2>3. NeverFit(r)'
    BY <2>1, <2>2, Zenon DEF NeverFit, Fit
  <2>4. InTime(r)' /\ Past(r)'
    BY <2>1, TimesNat DEF InTime, Past, TypeOK
  <2>5. r \notin granted'
    BY <1>0, <2>1, Zenon
  <2> QED BY <2>1, <2>3, <2>4, <2>5, Zenon
<1>6. CASE Verify(r)
  <2>1. /\ InTime(r)' <=> InTime(r)
        /\ TokenOK(r)' <=> TokenOK(r)
        /\ GroupOK(r)' <=> GroupOK(r)
        /\ Past(r) => Past(r)'
    BY <1>6, <1>k, Zenon DEF Verify, requestVars
  <2>2. NeverFit(r) /\ tok[r] \in Tokens /\ r \notin granted'
    BY <1>0, <1>6, Zenon DEF Verify, outcomeVars
  <2>3. /\ pc'[r] \in {"deny", "token", "fetch", "user", "allow"}
        /\ pc'[r] \in {"token", "fetch"} => config.albARN
        /\ pc'[r] = "token" => tok[r].kid \in keys
        /\ pc'[r] \in {"user", "allow"} => ~config.albARN /\ pc'[r] = Checked(r)
    <3>1. \E l \in {"deny", "token", "fetch", Checked(r)} :
             /\ pc' = [pc EXCEPT ![r] = l]
             /\ l \in {"token", "fetch"} => config.albARN
             /\ l = "token" => tok[r].kid \in keys
             /\ l \in {"user", "allow"} => ~config.albARN /\ l = Checked(r)
      BY <1>6, CheckedGoes, Zenon DEF Verify, Goto
    <3> QED BY <1>t, <3>1, CheckedGoes
  <2>4. pc'[r] # "groups" => NeverFit(r)'
    BY <2>2, <1>6, Zenon DEF Verify, NeverFit, Fit
  <2>5. /\ pc'[r] \in {"user", "allow"} => TokenOK(r)
        /\ pc'[r] = "user" => /\ config.requiredGroup # Unset
                              /\ config.groupsSource # "jwt-claim"
        /\ pc'[r] = "allow" => GroupOK(r)
    BY <2>2, <2>3, <1>6, CheckedFinds, Zenon DEF Verify, VerifyInv, TokenOK
  <2> QED BY <1>0, <1>6, <2>1, <2>2, <2>3, <2>4, <2>5, Zenon
             DEF Verify, requestVars
<1>7. CASE FetchKey(r)
  <2>1. /\ InTime(r)' <=> InTime(r)
        /\ TokenOK(r)' <=> TokenOK(r)
        /\ GroupOK(r)' <=> GroupOK(r)
        /\ Past(r) => Past(r)'
    BY <1>7, <1>k, Zenon DEF FetchKey
  <2>2. /\ r \notin granted' /\ tok[r] \in Tokens /\ tok' = tok
        /\ InTime(r) /\ Past(r) /\ config.albARN /\ NeverFit(r)
    BY <1>0, <1>7, Zenon DEF FetchKey, outcomeVars
  <2>3. pc'[r] = "token" /\ tok[r].kid \in keys'
    BY <1>t, <1>7 DEF FetchKey, Goto
  <2>4. NeverFit(r)'
    BY <1>7, <2>2, <2>3, Zenon DEF FetchKey, NeverFit, Fit
  <2> QED BY <1>0, <2>1, <2>2, <2>3, <2>4, Zenon DEF Onwards
<1>8. CASE FetchFails(r)
  <2>1. r \notin granted /\ granted' = granted /\ pc'[r] = "done"
    BY <1>0, <1>t, <1>8, Zenon DEF FetchFails, Finish, Goto, outcomeVars
  <2> QED BY <2>1
<1>9. CASE CheckToken(r)
  <2>1. /\ InTime(r)' <=> InTime(r)
        /\ TokenOK(r)' <=> TokenOK(r)
        /\ GroupOK(r)' <=> GroupOK(r)
        /\ Past(r) => Past(r)'
    BY <1>9, <1>k, Zenon DEF CheckToken
  <2>2. NeverFit(r) /\ tok[r] \in Tokens /\ r \notin granted'
    BY <1>0, <1>9, Zenon DEF CheckToken, outcomeVars
  <2>3. /\ pc'[r] \in {"deny", "user", "allow"}
        /\ pc'[r] \in {"user", "allow"} =>
              ValidateALBJWT(tok[r]) /\ pc'[r] = Checked(r)
    BY <1>9, CheckedGoes, Zenon DEF CheckToken, Goto, TypeOK
  <2>4. NeverFit(r)'
    BY <2>2, <2>3, <1>9, Zenon DEF CheckToken, NeverFit, Fit
  <2>5. ValidateALBJWT(tok[r]) =>
           /\ tok[r].signedBy \in Kids /\ tok[r].ours /\ tok[r].issuedHere
           /\ tok[r].exp # None /\ taken[r] < tok[r].exp
    <3>1. config \in Config /\ config.albARN /\ tok[r] \in Token
      BY <1>0, <2>2, <1>9, CallbackAssumption, Zenon DEF CheckToken, TypeOK
    <3>2. config.issuerURL
      BY <3>1, ValidConfig, Zenon DEF VerifyInv
    <3>3. tok[r].kid \in Kids
      BY <1>0, <1>9, Zenon DEF CheckToken, TypeOK
    <3>4. now \in Nat /\ taken[r] \in Nat /\ taken[r] <= now
      BY <1>0, <1>9, TimesNat, Zenon DEF CheckToken, TypeOK, Past
    <3>5. tok[r].exp \in Nat \cup {None}
      BY <3>1 DEF Token
    <3> QED BY <3>2, <3>3, <3>4, <3>5 DEF ValidateALBJWT
  <2>6. /\ pc'[r] \in {"user", "allow"} => TokenOK(r)
        /\ pc'[r] = "user" => /\ config.requiredGroup # Unset
                              /\ config.groupsSource # "jwt-claim"
        /\ pc'[r] = "allow" => GroupOK(r)
    BY <2>2, <2>3, <2>5, <1>9, CheckedFinds, Zenon
       DEF CheckToken, VerifyInv, TokenOK
  <2> QED BY <1>0, <1>9, <2>1, <2>2, <2>3, <2>4, <2>6, Zenon DEF CheckToken
<1>10. CASE DenyMarks(r)
  <2>1. /\ InTime(r)' <=> InTime(r)
        /\ TokenOK(r)' <=> TokenOK(r)
        /\ GroupOK(r)' <=> GroupOK(r)
        /\ Past(r) => Past(r)'
    BY <1>10, <1>k, Zenon DEF DenyMarks
  <2>2. /\ r \notin granted /\ granted' = granted /\ pc'[r] = "denySend"
        /\ tok' = tok /\ taken' = taken /\ now' = now
    BY <1>0, <1>t, <1>10, Zenon DEF DenyMarks, Goto, outcomeVars
  <2> QED BY <1>0, <2>1, <2>2, <1>10, Zenon DEF DenyMarks
<1>11. CASE DenySends(r)
  <2>1. /\ InTime(r)' <=> InTime(r)
        /\ TokenOK(r)' <=> TokenOK(r)
        /\ GroupOK(r)' <=> GroupOK(r)
        /\ Past(r) => Past(r)'
    BY <1>11, <1>k, Zenon DEF DenySends
  <2>2. /\ r \notin granted /\ granted' = granted /\ pc'[r] = "done"
        /\ tok' = tok /\ taken' = taken /\ now' = now
    BY <1>0, <1>t, <1>11, Zenon DEF DenySends, Finish, Goto, outcomeVars
  <2> QED BY <1>0, <2>1, <2>2, <1>11, Zenon DEF DenySends
<1>12. CASE Allow(r)
  <2>1. /\ InTime(r)' <=> InTime(r)
        /\ TokenOK(r)' <=> TokenOK(r)
        /\ GroupOK(r)' <=> GroupOK(r)
        /\ Past(r) => Past(r)'
    BY <1>12, <1>k, Zenon DEF Allow
  <2>2. /\ tok[r] \in Tokens /\ tok' = tok
        /\ InTime(r) /\ Past(r) /\ TokenOK(r) /\ GroupOK(r)
    BY <1>0, <1>12, Zenon DEF Allow
  <2>3. pc'[r] = "ack"
    BY <1>t, <1>12 DEF Allow, Goto
  <2> QED BY <2>1, <2>2, <2>3, Zenon
<1>13. CASE AllowFails(r)
  <2>1. /\ InTime(r)' <=> InTime(r)
        /\ TokenOK(r)' <=> TokenOK(r)
        /\ GroupOK(r)' <=> GroupOK(r)
        /\ Past(r) => Past(r)'
    BY <1>13, <1>k, Zenon DEF AllowFails
  <2>2. granted' = granted /\ pc'[r] = "done"
    BY <1>t, <1>13 DEF AllowFails, Finish, Goto, outcomeVars
  <2>3. r \in granted => InTime(r) /\ TokenOK(r) /\ GroupOK(r)
    BY <1>0, Zenon
  <2> QED BY <2>1, <2>2, <2>3, Zenon
<1>14. CASE MarkAuthenticated(r)
  <2>1. /\ InTime(r)' <=> InTime(r)
        /\ TokenOK(r)' <=> TokenOK(r)
        /\ GroupOK(r)' <=> GroupOK(r)
        /\ Past(r) => Past(r)'
    BY <1>14, <1>k, ZenonT(30) DEF MarkAuthenticated
  <2>2. /\ tok[r] \in Tokens /\ tok' = tok /\ granted' = granted
        /\ InTime(r) /\ Past(r)
    BY <1>0, <1>14, Zenon DEF MarkAuthenticated
  <2>3. pc'[r] = "markDone"
    BY <1>t, <1>14, SMTT(30) DEF MarkAuthenticated, Goto
  <2>4. r \in granted => TokenOK(r) /\ GroupOK(r)
    BY <1>0, Zenon
  <2> QED BY <2>1, <2>2, <2>3, <2>4, Zenon
<1>15. CASE MarkDone(r)
  <2>1. /\ InTime(r)' <=> InTime(r)
        /\ TokenOK(r)' <=> TokenOK(r)
        /\ GroupOK(r)' <=> GroupOK(r)
        /\ Past(r) => Past(r)'
    BY <1>15, <1>k, Zenon DEF MarkDone
  <2>2. granted' = granted /\ pc'[r] = "done"
    BY <1>t, <1>15 DEF MarkDone, Finish, Goto, outcomeVars
  <2>3. r \in granted => InTime(r) /\ TokenOK(r) /\ GroupOK(r)
    BY <1>0, Zenon
  <2> QED BY <2>1, <2>2, <2>3, Zenon
<1>16. CASE AdminGetUser(r)
  <2>1. /\ InTime(r)' <=> InTime(r)
        /\ TokenOK(r)' <=> TokenOK(r)
        /\ GroupOK(r)' <=> GroupOK(r)
        /\ Past(r) => Past(r)'
    BY <1>16, <1>k, ZenonT(30) DEF AdminGetUser
  <2>2. /\ tok[r] \in Tokens /\ tok' = tok /\ r \notin granted'
        /\ InTime(r) /\ Past(r) /\ TokenOK(r) /\ NeverFit(r)
        /\ config.requiredGroup # Unset /\ config.groupsSource # "jwt-claim"
    BY <1>0, <1>16, Zenon DEF AdminGetUser, outcomeVars
  <2>3. \/ pc'[r] = "deny"
        \/ /\ pc'[r] = "groups"
           /\ tok[r].user \in DOMAIN account /\ account[tok[r].user].enabled
    BY <1>t, <1>16, Zenon DEF AdminGetUser, Goto
  <2>4. pc'[r] = "groups" => NeverFit(r)'
    BY <1>0, <1>16, <2>2, <2>3, Zenon DEF AdminGetUser, NeverFit, Fit
  <2> QED BY <1>0, <2>1, <2>2, <2>3, <2>4, Zenon DEF Onwards
<1>17. CASE ListGroups(r)
  <2>1. /\ InTime(r)' <=> InTime(r)
        /\ TokenOK(r)' <=> TokenOK(r)
        /\ GroupOK(r)' <=> GroupOK(r)
        /\ Past(r) => Past(r)'
    BY <1>17, <1>k, Zenon DEF ListGroups
  <2>2. /\ tok[r] \in Tokens /\ tok' = tok /\ r \notin granted'
        /\ InTime(r) /\ Past(r) /\ TokenOK(r) /\ NeverFit(r)
        /\ config.requiredGroup # Unset /\ config.groupsSource # "jwt-claim"
    BY <1>0, <1>17, Zenon DEF ListGroups, outcomeVars
  <2>3. \/ pc'[r] = "deny"
        \/ /\ pc'[r] = "allow"
           /\ config.requiredGroup \in account[tok[r].user].groups
    BY <1>t, <1>17, ZenonT(30) DEF ListGroups, Goto
  <2>4. pc'[r] = "allow" => GroupOK(r)
    BY <1>17, <2>2, <2>3, Zenon DEF ListGroups, NeverFit, GroupOK
  <2> QED BY <2>1, <2>2, <2>3, <2>4, Zenon
<1>18. CASE CheckUserFails(r)
  <2>1. /\ InTime(r)' <=> InTime(r)
        /\ TokenOK(r)' <=> TokenOK(r)
        /\ GroupOK(r)' <=> GroupOK(r)
        /\ Past(r) => Past(r)'
    BY <1>18, <1>k, Zenon DEF CheckUserFails
  <2>2. /\ tok[r] \in Tokens /\ tok' = tok /\ r \notin granted'
        /\ InTime(r) /\ Past(r)
    BY <1>0, <1>18, Zenon DEF CheckUserFails
  <2>3. pc'[r] = "deny"
    BY <1>t, <1>18 DEF CheckUserFails, Goto
  <2> QED BY <2>1, <2>2, <2>3, Zenon
<1> QED BY <1>1, <1>2, <1>3, <1>4, <1>5, <1>6, <1>7, <1>8, <1>9, <1>10, <1>11,
           <1>12, <1>13, <1>14, <1>15, <1>16, <1>17, <1>18, Zenon
        DEF RequestNext, Proceed

LEMMA VerifyStep ==
    ASSUME TypeOK, TypeOK', KnownInv, VerifyInv, [Next]_vars PROVE VerifyInv'
<1>1. CASE \/ Tick
           \/ \E s \in Sids : \/ Connect(s) \/ TimerProceeds(s)
                              \/ Leave(s) \/ Reap(s)
  <2>1. Onwards /\ \A r \in Reqs : Alone(r)
    BY <1>1, SessionsApart, Zenon
  <2> QED BY <2>1, LeftAlone, Zenon DEF VerifyInv, Onwards
<1>2. ASSUME NEW u \in DOMAIN Accounts, Revoke(u) PROVE VerifyInv'
  BY <1>2, RevokeVerifyStep
<1>3. ASSUME NEW r \in Reqs, RequestNext(r) PROVE VerifyInv'
  <2>1. Onwards /\ \A q \in Reqs \ {r} : Alone(q)
    BY <1>3, RequestsOnwards, RequestsApart, Zenon
  <2>2. Found(r)'
    BY <1>3, FoundStep
  <2>3. \A q \in Reqs \ {r} : Found(q)'
    BY <2>1, LeftAlone DEF VerifyInv
  <2> QED BY <2>1, <2>2, <2>3, Zenon DEF VerifyInv, Onwards
<1>4. CASE UNCHANGED vars
  <2>1. Onwards
    BY <1>4, WorldStays DEF vars, sessionVars
  <2>2. \A r \in Reqs : Alone(r)
    BY <1>4, Zenon DEF vars, requestVars, outcomeVars, Alone
  <2> QED BY <2>1, <2>2, LeftAlone, Zenon DEF VerifyInv, Onwards
<1> QED BY <1>1, <1>2, <1>3, <1>4 DEF Next, RequestNext

-----------------------------------------------------------------------------
(* Why a client is refused. *)

\* A well-formed claim that names a group is read so.
LEMMA ListedIsParsed ==
    ASSUME NEW t \in Token, NEW g, g # Unset, WellFormed(t.groups), Lists(t, g)
    PROVE  g \in ParseGroupsClaim(t.groups)
<1> DEFINE v == t.groups
<1>1. v \in Claim
  BY Zenon DEF Token
<1>2. PICK i \in DOMAIN v.elements : v.elements[i].name = g
  BY Zenon DEF Lists, Mentions
<1>3. ASSUME NEW kinds, v.elements[i].kind \in kinds
      PROVE  g \in Trimmed(v.elements, kinds)
  BY <1>2, <1>3, Zenon DEF Trimmed, TrimSpace, Unset
<1> HIDE DEF v
<1>4. CASE v.type = "array"
  <2>1. v.elements[i].kind = "quoted"
    BY <1>2, <1>4, Zenon DEF WellFormed, v
  <2> QED BY <1>3, <1>4, <2>1, Zenon DEF ParseGroupsClaim, GroupsFromArray, v
<1>5. CASE v.type = "string" /\ ~v.bracketed
  <2>1. v.elements[i].kind = "bare"
    BY <1>2, <1>5, Zenon DEF WellFormed, v
  <2> QED BY <1>3, <1>5, <2>1, Zenon DEF ParseGroupsClaim, GroupsFromCSV, v
<1>6. CASE v.type = "string" /\ v.bracketed
  <2>1. CASE \A j \in DOMAIN v.elements : v.elements[j].kind = "quoted"
    <3>1. ParseGroupsClaim(v) = Trimmed(v.elements, {"quoted"})
      BY <1>6, <2>1, Zenon
         DEF ParseGroupsClaim, GroupsFromBracketed, GroupsFromArray
    <3> QED BY <1>2, <1>3, <2>1, <3>1, Zenon DEF v
  <2>2. CASE /\ \A j \in DOMAIN v.elements : v.elements[j].kind = "bare"
             /\ Len(v.elements) > 1
    <3>1. ParseGroupsClaim(v) = Trimmed(v.elements, {"bare", "literal"})
      BY <1>2, <1>6, <2>2, Zenon
         DEF ParseGroupsClaim, GroupsFromBracketed, GroupsFromCSV
    <3> QED BY <1>2, <1>3, <2>2, <3>1, Zenon DEF v
  <2> QED BY <1>6, <2>1, <2>2, Zenon DEF WellFormed, v
<1> QED BY <1>4, <1>5, <1>6, Zenon DEF Lists, v

\* Names of one person normalize to the same.
LEMMA SameIsNormalized ==
    ASSUME NEW v \in Written, NEW w \in Written, SamePerson(v, w)
    PROVE  /\ NormalizeIdentity(v) # None
           /\ NormalizeIdentity(v) = NormalizeIdentity(w)
<1>1. v.person \in STRING /\ None \notin STRING
  BY CallbackAssumption, Zenon DEF Written
<1> QED BY <1>1, Zenon DEF NormalizeIdentity, SamePerson

\* Steps 7 and 8 of handleCallback refuse for a reason.
LEMMA CheckedRefuses ==
    ASSUME TypeOK, KnownInv, Validate(config),
           NEW r \in Reqs, pc[r] # "idle", tok[r] \in Tokens,
           Checked(r) = "deny"
    PROVE  Cause(r)
<1>1. /\ config \in Config /\ tok[r] \in Token /\ cn[sid[r]] \in Written
      /\ tok[r].email \in Written
  BY CallbackAssumption, Zenon DEF TypeOK, KnownInv, Token
<1>2. CASE ~CNCrossCheck(r)
  <2>1. config.cnCrossCheck /\ ~SamePerson(cn[sid[r]], tok[r].email)
    BY <1>1, <1>2, SameIsNormalized, Zenon DEF CNCrossCheck
  <2> QED BY <2>1, Zenon DEF Cause
<1>3. CASE CNCrossCheck(r)
  <2>1. /\ config.requiredGroup # Unset /\ ~InGroup(r)
        /\ config.groupsSource = "jwt-claim" \/ ~config.poolID
    BY <1>3, Zenon DEF Checked
  <2>2. config.groupsSource = "jwt-claim"
    BY <1>1, <2>1, ValidConfig, Zenon
  <2>3. ~(WellFormed(tok[r].groups) /\ Lists(tok[r], config.requiredGroup))
    BY <1>1, <2>1, <2>2, ListedIsParsed, Zenon DEF InGroup
  <2> QED BY <2>1, <2>2, <2>3, Zenon DEF Cause
<1> QED BY <1>2, <1>3

LEMMA TokenTimes == ASSUME NEW t \in Tokens PROVE t.exp \in Nat \cup {None}
<1>1. t \in Token
  BY CallbackAssumption, Zenon
<1> QED BY <1>1, Zenon DEF Token

LEMMA NowNat == ASSUME TypeOK PROVE now \in Nat
<1>1. now \in Times
  BY Zenon DEF TypeOK
<1> QED BY <1>1, TimesNat, Zenon

\* A cause stays: no token gets younger, and no account gets into a group.
LEMMA CauseStays ==
    ASSUME TypeOK, TypeOK', KnownInv, NEW r \in Reqs, pc[r] # "idle",
           tok[r] \in Tokens, Cause(r),
           config' = config, now <= now',
           \A s \in Sids : created[s] # None => cn'[s] = cn[s],
           sid'[r] = sid[r], tok'[r] = tok[r], Fit(tok[r])' => Fit(tok[r])
    PROVE  Cause(r)'
<1>1. cn'[sid[r]] = cn[sid[r]]
  BY Zenon DEF KnownInv
<1>2. Expired(r) => Expired(r)'
  <2>1. now \in Nat /\ now' \in Nat /\ tok[r].exp \in Nat \cup {None}
    <3>1. now \in Nat /\ now' \in Nat
      BY TimesNat, Zenon DEF TypeOK
    <3> QED BY <3>1, TokenTimes, Zenon
  <2>2. tok[r].exp \in Nat /\ now >= tok[r].exp => now' >= tok[r].exp
    BY <2>1
  <2> QED BY <2>1, <2>2, Zenon DEF Expired
<1> QED BY <1>1, <1>2, Zenon DEF Cause

LEMMA CausedAlone ==
    ASSUME TypeOK, TypeOK', KnownInv, NEW r \in Reqs, Caused(r),
           pc[r] = "deny" => tok[r] \in Tokens,
           config' = config, now <= now',
           \A s \in Sids : created[s] # None => cn'[s] = cn[s],
           pc'[r] = pc[r], sid'[r] = sid[r], tok'[r] = tok[r],
           (r \in refused') <=> (r \in refused),
           r \in erred => r \in erred', Fit(tok[r])' => Fit(tok[r])
    PROVE  Caused(r)'
<1>1. CASE (pc[r] = "deny" \/ r \in refused) /\ r \notin erred
  <2>1. pc[r] # "idle" /\ tok[r] \in Tokens /\ Cause(r)
    BY <1>1, Zenon DEF Caused
  <2>2. Cause(r)'
    BY <2>1, CauseStays, Zenon
  <2> QED BY <2>2, Zenon DEF Caused
<1>2. CASE ~((pc[r] = "deny" \/ r \in refused) /\ r \notin erred)
  BY <1>2, Zenon DEF Caused
<1> QED BY <1>1, <1>2

\* A step that denies nobody.
LEMMA NotRefused ==
    ASSUME NEW r \in Reqs, Caused(r), pc[r] \notin {"deny", "denySend", "done"},
           pc'[r] # "deny", refused' = refused
    PROVE  Caused(r)'
BY Zenon DEF Caused

\* A step that decides to deny.
LEMMA CausedNow ==
    ASSUME TypeOK, TypeOK', KnownInv, Onwards, NEW r \in Reqs, Caused(r),
           pc[r] \in Holding \ {"deny", "denySend"}, tok[r] \in Tokens,
           UNCHANGED <<sid, tok, refused, erred>>,
           pc'[r] = "deny" => Cause(r)
    PROVE  Caused(r)'
<1>1. pc[r] \notin {"idle", "deny", "denySend", "done"}
  BY Zenon DEF Holding, Owning
<1>2. pc'[r] = "deny" => Cause(r)'
  BY <1>1, CauseStays, Zenon DEF Onwards, Fit
<1> QED BY <1>1, <1>2, Zenon DEF Caused

LEMMA CausedStep ==
    ASSUME TypeOK, TypeOK', KnownInv, VerifyInv, NEW r \in Reqs, Caused(r),
           RequestNext(r)
    PROVE  Caused(r)'
<1>0. /\ Onwards /\ Validate(config)
      /\ pc[r] \in Holding => tok[r] \in Tokens
      /\ pc[r] = "token" => config.albARN
      /\ pc[r] \in {"user", "groups"} =>
            config.requiredGroup # Unset /\ config.groupsSource # "jwt-claim"
  BY RequestsOnwards, Zenon DEF VerifyInv, Found
<1>d. DOMAIN pc = Reqs
  BY Zenon DEF TypeOK
<1>1. CASE Route(r) \/ RejectState(r) \/ RejectSession(r) \/ TryProcess(r)
           \/ FetchKey(r) \/ FetchFails(r) \/ Allow(r) \/ AllowFails(r)
           \/ MarkAuthenticated(r) \/ MarkDone(r)
  <2>1. /\ pc[r] \notin {"deny", "denySend", "done"} /\ refused' = refused
        /\ \E l \in Pcs \ {"deny"} : Goto(r, l)
    BY <1>1, Zenon
       DEF Route, Browse, RejectState, RejectSession, Decodes, TryProcess,
           FetchKey, FetchFails, Allow, AllowFails, MarkAuthenticated, MarkDone,
           Finish, outcomeVars, Pcs, Owning
  <2>2. pc'[r] # "deny"
    BY <1>d, <2>1, Zenon DEF Goto
  <2> QED BY <2>1, <2>2, NotRefused, Zenon
<1>2. CASE GiveUp(r)
  BY <1>0, <1>2, CausedAlone, Zenon
     DEF GiveUp, Onwards, outcomeVars, Holding, Owning, Fit
<1>3. CASE Verify(r)
  <2>1. pc[r] = "verify" /\ UNCHANGED <<sid, tok, refused, erred>>
    BY <1>3, Zenon DEF Verify, outcomeVars
  <2>2. \/ /\ ~HasClaims(tok[r])
        \/ /\ Goto(r, Checked(r))
        \/ \E l \in {"token", "fetch"} : Goto(r, l)
    BY <1>3, Zenon DEF Verify, HasClaims
  <2>3. pc'[r] = "deny" => ~HasClaims(tok[r]) \/ Checked(r) = "deny"
    BY <1>d, <2>2, Zenon DEF Goto
  <2>4. pc'[r] = "deny" => Cause(r)
    <3>1. pc[r] # "idle" /\ tok[r] \in Tokens
      BY <1>0, <2>1, Zenon DEF Holding, Owning
    <3> QED BY <1>0, <2>3, <3>1, CheckedRefuses, Zenon DEF Cause
  <2> QED BY <1>0, <2>1, <2>4, CausedNow, Zenon DEF Holding, Owning
<1>4. CASE CheckToken(r)
  <2>1. pc[r] = "token" /\ UNCHANGED <<sid, tok, refused, erred>>
    BY <1>4, Zenon DEF CheckToken, outcomeVars
  <2>2. pc'[r] = "deny" => ~ValidateALBJWT(tok[r]) \/ Checked(r) = "deny"
    BY <1>4, <1>d, Zenon DEF CheckToken, Goto
  <2>3. pc[r] # "idle" /\ tok[r] \in Tokens /\ config.albARN
    BY <1>0, <2>1, Zenon DEF Holding, Owning
  <2>4. ~ValidateALBJWT(tok[r]) => Cause(r)
    <3>1. tok[r].exp # None /\ ~(now < tok[r].exp) => Expired(r)
      <4>1. now \in Nat /\ tok[r].exp \in Nat \cup {None}
        BY <2>3, NowNat, TokenTimes, Zenon
      <4>2. tok[r].exp \in Nat /\ ~(now < tok[r].exp) => now >= tok[r].exp
        BY <4>1
      <4> QED BY <4>1, <4>2, Zenon DEF Expired
    <3>2. tok[r].exp = None => Expired(r)
      BY Zenon DEF Expired
    <3> QED BY <2>3, <3>1, <3>2, Zenon DEF Cause, ValidateALBJWT
  <2>5. pc'[r] = "deny" => Cause(r)
    BY <1>0, <2>2, <2>3, <2>4, CheckedRefuses, Zenon
  <2> QED BY <1>0, <2>1, <2>5, CausedNow, Zenon DEF Holding, Owning
<1>5. CASE AdminGetUser(r) \/ ListGroups(r)
  <2>1. pc[r] \in {"user", "groups"} /\ UNCHANGED <<sid, tok, refused, erred>>
    BY <1>5, Zenon DEF AdminGetUser, ListGroups, outcomeVars
  <2>2. pc'[r] = "deny" => ~Fit(tok[r])
    BY <1>5, <1>d, Zenon DEF AdminGetUser, ListGroups, Goto, Fit
  <2>3. pc'[r] = "deny" => Cause(r)
    BY <1>0, <2>1, <2>2, Zenon DEF Cause
  <2> QED BY <1>0, <2>1, <2>3, CausedNow, Zenon DEF Holding, Owning
<1>6. CASE CheckUserFails(r)
  <2>1. /\ pc[r] \in {"user", "groups"} /\ refused' = refused /\ r \in erred'
        /\ UNCHANGED tok
    BY <1>6, Zenon DEF CheckUserFails
  <2> QED BY <2>1, Zenon DEF Caused
<1>7. CASE DenyMarks(r)
  <2>1. /\ pc[r] = "deny" /\ pc'[r] = "denySend"
        /\ UNCHANGED <<sid, tok, erred, account, config>>
    BY <1>7, <1>d, Zenon DEF DenyMarks, Goto
  <2>2. tok[r] \in Tokens
    BY <1>0, <2>1, Zenon DEF Holding, Owning
  <2>3. r \notin erred => Cause(r)'
    BY <1>0, <2>1, <2>2, CauseStays, Zenon DEF Caused, Onwards, Fit
  <2> QED BY <2>1, <2>2, <2>3, Zenon DEF Caused
<1>8. CASE DenySends(r)
  <2>1. /\ pc[r] = "denySend" /\ pc'[r] = "done"
        /\ UNCHANGED <<sid, tok, refused, erred, account, config>>
    BY <1>8, <1>d, Zenon DEF DenySends, Finish, Goto, outcomeVars
  <2>2. tok[r] \in Tokens
    BY <1>0, <2>1, Zenon DEF Holding, Owning
  <2>3. r \in refused /\ r \notin erred => Cause(r)'
    BY <1>0, <2>1, <2>2, CauseStays, Zenon DEF Caused, Onwards, Fit
  <2> QED BY <2>1, <2>2, <2>3, Zenon DEF Caused
<1> QED BY <1>1, <1>2, <1>3, <1>4, <1>5, <1>6, <1>7, <1>8, Zenon
        DEF RequestNext, Proceed

LEMMA CauseStep ==
    ASSUME TypeOK, TypeOK', KnownInv, VerifyInv, CauseInv, [Next]_vars
    PROVE  CauseInv'
<1>0. \A r \in Reqs : Caused(r) /\ (pc[r] = "deny" => tok[r] \in Tokens)
  BY Zenon DEF CauseInv, VerifyInv, Found, Holding, Owning
<1>1. ASSUME Onwards, NEW r \in Reqs, Alone(r) PROVE Caused(r)'
  BY <1>0, <1>1, CausedAlone, Zenon DEF Onwards, Alone, Fit
<1>2. CASE \/ Tick
           \/ \E s \in Sids : \/ Connect(s) \/ TimerProceeds(s)
                              \/ Leave(s) \/ Reap(s)
  BY <1>1, <1>2, SessionsApart, Zenon DEF CauseInv
<1>3. ASSUME NEW u \in DOMAIN Accounts, Revoke(u) PROVE CauseInv'
  <2>1. /\ UNCHANGED <<config, now, cn, created, pc, sid, tok, refused, erred>>
        /\ \A t : Fit(t)' => Fit(t)
    BY <1>3, RevokeTakes, Zenon
  <2>2. now <= now'
    <3>1. now \in Nat
      BY TimesNat, Zenon DEF TypeOK
    <3> QED BY <2>1, <3>1
  <2> QED BY <1>0, <2>1, <2>2, CausedAlone, Zenon DEF CauseInv
<1>4. ASSUME NEW r \in Reqs, RequestNext(r) PROVE CauseInv'
  <2>1. Caused(r)'
    BY <1>0, <1>4, CausedStep, Zenon
  <2>2. Onwards /\ \A q \in Reqs \ {r} : Alone(q)
    BY <1>4, RequestsOnwards, RequestsApart, Zenon
  <2> QED BY <1>1, <2>1, <2>2, Zenon DEF CauseInv
<1>5. CASE UNCHANGED vars
  <2>1. Onwards /\ \A r \in Reqs : Alone(r)
    BY <1>5, WorldStays, Zenon DEF vars, sessionVars, requestVars, outcomeVars, Alone
  <2> QED BY <1>1, <2>1, Zenon DEF CauseInv
<1> QED BY <1>2, <1>3, <1>4, <1>5, Zenon DEF Next, RequestNext


-----------------------------------------------------------------------------
(* The reaper. *)

\* But for the reaper, nobody deletes a session that stays in flight.
LEMMA OnlyReaped ==
    ASSUME TypeOK, TypeOK', KnownInv, [Next]_vars, ~\E s \in Sids : Reap(s),
           NEW s \in inFlight', status'[s] = "absent"
    PROVE  s \in inFlight /\ status[s] = "absent"
<1> USE DEF Mark, Forgotten
<1>d. DOMAIN status = Sids /\ s \in Sids
  BY Zenon DEF TypeOK
<1>1. CASE \/ Tick
           \/ \E u \in DOMAIN Accounts : Revoke(u)
           \/ \E r \in Reqs :
                 \/ Route(r) \/ GiveUp(r) \/ RejectState(r) \/ RejectSession(r)
                 \/ Verify(r) \/ FetchKey(r) \/ CheckToken(r) \/ DenySends(r)
                 \/ Allow(r) \/ AdminGetUser(r) \/ ListGroups(r)
                 \/ CheckUserFails(r)
  <2>1. UNCHANGED <<status, inFlight>>
    BY <1>1, Zenon
       DEF Tick, Revoke, sessionVars, Route, Browse, GiveUp, RejectState,
           RejectSession, Verify, FetchKey, CheckToken, DenySends, Allow,
           AdminGetUser, ListGroups, CheckUserFails
  <2> QED BY <2>1, Zenon
<1>2. ASSUME NEW x \in Sids, Connect(x)
      PROVE  s \in inFlight /\ status[s] = "absent"
  BY <1>d, <1>2 DEF Connect
<1>3. ASSUME NEW x \in Sids, TimerProceeds(x) \/ Leave(x)
      PROVE  s \in inFlight /\ status[s] = "absent"
  BY <1>d, <1>3
     DEF TimerProceeds, TimerClaims, Claimable, TimerMarksFailed, TimerDenies, Leave
<1>4. ASSUME NEW r \in Reqs,
             \/ TryProcess(r) \/ FetchFails(r) \/ DenyMarks(r)
             \/ AllowFails(r) \/ MarkDone(r)
      PROVE  s \in inFlight /\ status[s] = "absent"
  <2>1. inFlight' = inFlight
    BY <1>4, Zenon DEF TryProcess, FetchFails, DenyMarks, AllowFails, MarkDone
  <2>2. \/ status' = status
        \/ \E st \in {"PROCESSING", "PENDING", "FAILED", "DONE"} : Mark(sid[r], st)
    BY <1>4, Zenon DEF TryProcess, FetchFails, DenyMarks, AllowFails, MarkDone
  <2> QED BY <1>d, <2>1, <2>2
<1>5. ASSUME NEW r \in Reqs, MarkAuthenticated(r)
      PROVE  s \in inFlight /\ status[s] = "absent"
  BY <1>d, <1>5 DEF MarkAuthenticated
<1>6. CASE UNCHANGED vars
  BY <1>6, Zenon DEF vars, sessionVars
<1> QED BY <1>1, <1>2, <1>3, <1>4, <1>5, <1>6, Zenon DEF Next, Proceed

\* What has expired for the reaper has expired for the callback before: Validate
\* keeps the authentication timeout below the hand window.
LEMMA ReapedIsLate ==
    ASSUME TypeOK, Validate(config), NEW s \in Sids, created[s] # None, Reap(s)
    PROVE  now > created[s] + config.authTimeout
<1>1. now \in Nat /\ created[s] \in Nat
  BY TimesNat, Zenon DEF TypeOK
<1>2. config.handWindow \in Int /\ config.authTimeout \in Int
  <2>1. config \in Config
    BY CallbackAssumption, Zenon DEF TypeOK
  <2> QED BY <2>1, Zenon DEF Config
<1>3. config.handWindow > 0 /\ config.authTimeout < config.handWindow
  BY Zenon DEF Validate, TimesValid
<1>4. now > created[s] + 2 * config.handWindow
  BY Zenon DEF Reap, ExpiresAt
<1> QED BY <1>1, <1>2, <1>3, <1>4

LEMMA LookupStep ==
    ASSUME TypeOK, TypeOK', KnownInv, Validate(config), LookupOutlivesState,
           [Next]_vars
    PROVE  LookupOutlivesState'
<1>1. /\ config' = config /\ now <= now'
      /\ \A s \in Sids : created[s] # None => created'[s] = created[s]
  <2>1. CASE \E u \in DOMAIN Accounts : Revoke(u)
    <3>1. UNCHANGED <<config, now, created>> /\ now \in Nat
      BY <2>1, NowNat, RevokeTakes, Zenon
    <3>2. now <= now'
      BY <3>1
    <3> QED BY <3>1, <3>2, Zenon
  <2>2. CASE \/ Tick
             \/ \E s \in Sids : \/ Connect(s) \/ TimerProceeds(s)
                                \/ Leave(s) \/ Reap(s)
    BY <2>2, SessionsApart, Zenon DEF Onwards
  <2>3. CASE \E r \in Reqs : RequestNext(r)
    BY <2>3, RequestsOnwards, Zenon DEF Onwards
  <2>4. CASE UNCHANGED vars
    BY <2>4, WorldStays, Zenon DEF vars, sessionVars, Onwards
  <2> QED BY <2>1, <2>2, <2>3, <2>4, Zenon DEF Next, RequestNext
<1>2. ASSUME NEW s \in inFlight', status'[s] = "absent"
      PROVE  now' > created'[s] + config'.authTimeout
  <2>1. s \in Sids
    BY <1>2, Zenon DEF TypeOK
  <2>2. s \in inFlight /\ now > created[s] + config.authTimeout
    <3>1. CASE ~\E x \in Sids : Reap(x)
      BY <1>2, <3>1, OnlyReaped, Zenon DEF LookupOutlivesState
    <3>2. ASSUME NEW x \in Sids, Reap(x)
          PROVE  s \in inFlight /\ now > created[s] + config.authTimeout
      <4>1. s \in inFlight /\ (s # x => status[s] = "absent")
        BY <1>2, <2>1, <3>2, Zenon DEF Reap, TypeOK
      <4>2. CASE s = x
        <5>1. created[s] # None
          BY <2>1, <4>1, Zenon DEF KnownInv
        <5> QED BY <3>2, <4>1, <4>2, <5>1, ReapedIsLate, Zenon
      <4> QED BY <4>1, <4>2, Zenon DEF LookupOutlivesState
    <3> QED BY <3>1, <3>2
  <2>3. created[s] # None
    BY <2>1, <2>2, Zenon DEF KnownInv
  <2>4. config' = config /\ created'[s] = created[s] /\ now <= now'
    BY <1>1, <2>1, <2>3, Zenon
  <2>5. now \in Nat /\ now' \in Nat /\ created[s] \in Nat
    <3>1. /\ now \in Times /\ now' \in Times
          /\ created \in [Sids -> Times \cup {None}]
      BY Zenon DEF TypeOK
    <3> QED BY <2>1, <2>3, <3>1, TimesNat, Zenon
  <2>6. config.authTimeout \in Int
    <3>1. config \in Config
      BY CallbackAssumption, Zenon DEF TypeOK
    <3> QED BY <3>1, Zenon DEF Config
  <2>7. now' > created[s] + config.authTimeout
    BY <2>2, <2>4, <2>5, <2>6
  <2> QED BY <2>4, <2>7, Zenon
<1> QED BY <1>2, Zenon DEF LookupOutlivesState

-----------------------------------------------------------------------------
Inv == SessionInv /\ VerifyInv /\ CauseInv /\ LookupOutlivesState

LEMMA InvInit == Init => Inv
<1> SUFFICES ASSUME Init PROVE Inv
  OBVIOUS
<1>1. VerifyInv
  BY Zenon DEF Init, VerifyInv, Found, Holding, Owning
<1>2. CauseInv
  BY Zenon DEF Init, CauseInv, Caused
<1>3. LookupOutlivesState
  BY Zenon DEF Init, LookupOutlivesState
<1> QED BY <1>1, <1>2, <1>3, SessionInvInit, Zenon DEF Inv

\* VerifyInv and CauseInv hold in every reachable state: each check of
\* handleCallback has been made, and each denial has its reason, by the time
\* the request gets to the step that relies on it.
THEOREM InvAlways == Spec => []Inv
<1>1. Inv /\ SessionInv' /\ [Next]_vars => Inv'
  BY VerifyStep, CauseStep, LookupStep, Zenon DEF Inv, SessionInv, VerifyInv
<1> QED BY InvInit, SessionInvAlways, <1>1, PTL DEF Spec

\* handleCallback lets a client in only in time, with a token the ALB of this
\* deployment has signed, for the person of the certificate and in the
\* required group - whatever the order of requests, faults and revocations.
THEOREM OnlyVerified == Spec => []AllowedOnlyVerified
<1>1. Inv => AllowedOnlyVerified
  BY Zenon DEF Inv, SessionInv, TypeOK, VerifyInv, Found, InTime, TokenOK, GroupOK,
               AllowedOnlyVerified
<1> QED BY InvAlways, <1>1, PTL

\* handleCallback denies a client only for a reason of its own: a request whose
\* token and account are in order is never refused, unless Cognito failed.
THEOREM RefusalsHaveCause == Spec => []RefusedForCause
<1>1. Inv => RefusedForCause
  <2>1. Inv => CauseInv /\ refused \subseteq Reqs
    BY Zenon DEF Inv, SessionInv, TypeOK
  <2> QED BY <2>1, Zenon DEF CauseInv, Caused, Cause, Expired, RefusedForCause
<1> QED BY InvAlways, <1>1, PTL

\* The reaper deletes the session of a client still connecting only when no
\* callback for it could be in time any more, for any timeouts Validate accepts.
THEOREM LookupOutlives == Spec => []LookupOutlivesState
<1>1. Inv => LookupOutlivesState
  BY Zenon DEF Inv
<1> QED BY InvAlways, <1>1, PTL
=============================================================================
