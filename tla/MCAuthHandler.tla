--------------------------- MODULE MCAuthHandler ---------------------------
(* Finite instances of AuthHandler for TLC: two CIDs of one identity, so that  *)
(* attempts conflict and sessions replace each other, and two callback         *)
(* requests, so that both CIDs can be let in or one retried.                   *)
EXTENDS AuthHandler, TLC

CONSTANTS c1, c2, r1, r2, alice

MCCids == {c1, c2}
OneCid == {c1}
MCIdentities == {alice}
MCIdentityOf == [c \in Cids |-> alice]
MCReqs == {r1, r2}
OneReq == {r1}

AllLeave == Cids
NobodyLeaves == {}

\* A later state to start from: c1 is established and quiet, its callback and
\* timeout are over; its expiry timer runs if there is a maximal duration.
InitEstablished ==
    /\ vpn = [c \in Cids |-> IF c = c1 THEN "up" ELSE "none"]
    /\ closing = {}
    /\ urls = {c1}
    /\ events = <<>>
    /\ cmds = <<>>
    /\ ack = [a \in Waiters |-> "none"]
    /\ snap = [a \in Actors |-> "none"]
    /\ sess = [c \in Cids |-> "absent"]
    /\ cids = [c \in Cids |-> IF c = c1
                              THEN {"tracked", "established"} \cup
                                   (IF MaxSessionDuration THEN {"expiry"}
                                    ELSE {})
                              ELSE {}]
    /\ attempt = [i \in Identities |-> None]
    /\ active = [i \in Identities |-> c1]
    /\ lpc = "idle" /\ lold = None
    /\ est = [a \in Actors |-> Idle]
    /\ tpc = [c \in Cids |-> IF c = c1 THEN "done" ELSE "none"]
    /\ dpc = [c \in Cids |-> IF c = c1 THEN "done" ELSE "none"]
    /\ dctx = {}
    /\ xpc = [c \in Cids |-> IF c = c1 /\ MaxSessionDuration THEN "run"
                             ELSE "none"]
    /\ rpc = [r \in Reqs |-> "idle"]
    /\ rsid = [r \in Reqs |-> None]
    /\ decided = [c \in Cids |-> IF c = c1 THEN {"allow"} ELSE {}]

FairEstablished == InitEstablished /\ [][Next]_vars /\ Fairness

\* From the beginning, or from an established client on.
SpecEither == (Init \/ InitEstablished) /\ [][Next]_vars

\* All CIDs have the same identity, so they are interchangeable.
Symmetry == Permutations(Cids) \cup Permutations(Reqs)
=============================================================================
