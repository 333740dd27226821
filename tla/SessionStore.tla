---------------------------- MODULE SessionStore ----------------------------
(***************************************************************************)
(* What the in-memory store of pending sessions (internal/auth/sessions.go)*)
(* promises once its callers - the event loop, the auth-timeout goroutines *)
(* and the callback requests - follow their protocol.                      *)
(*                                                                         *)
(* The store itself is permissive: MarkDone, MarkFailed and MarkPending    *)
(* overwrite any status.  Only TryProcess and SupersedePending test the    *)
(* status first.  This module states the disciplined life of a session:    *)
(*                                                                         *)
(*      absent -> PENDING -> PROCESSING -> DONE | FAILED | PENDING         *)
(*                PENDING -> FAILED            (superseded)                *)
(*                any     -> absent            (deleted or reaped)         *)
(*                                                                         *)
(* and that the client is answered (client-auth or client-deny handed to   *)
(* the management socket) at most once, and never while PENDING.           *)
(* AuthHandler is shown to implement it.                                   *)
(***************************************************************************)
CONSTANT Sids       \* sessions; one per CLIENT:CONNECT

VARIABLES status,   \* status[s]: SessionStatus, "absent" when not in the map
          decided   \* decided[s]: the answers handed over for s

storeVars == <<status, decided>>

Status == {"absent", "PENDING", "PROCESSING", "DONE", "FAILED"}
Answers == {"allow", "deny"}

StoreTypeOK ==
    /\ status \in [Sids -> Status]
    /\ decided \in [Sids -> SUBSET Answers]

\* The map is empty; sessions of the past have been answered at most once.
StoreInit ==
    /\ status = [s \in Sids |-> "absent"]
    /\ decided \in [Sids -> {{}} \cup {{d} : d \in Answers}]

Move(s, from, to) ==
    /\ status[s] \in from
    /\ status' = [status EXCEPT ![s] = to]
    /\ UNCHANGED decided

Put(s) == decided[s] = {} /\ Move(s, {"absent"}, "PENDING")

TryProcess(s) == Move(s, {"PENDING"}, "PROCESSING")

MarkPending(s) == decided[s] = {} /\ Move(s, {"PROCESSING"}, "PENDING")

MarkDone(s) == Move(s, {"PROCESSING"}, "DONE")

MarkFailed(s) == Move(s, {"PROCESSING"}, "FAILED")

Delete(s) == Move(s, Status, "absent")

\* A newer CONNECT of the same identity takes over from a pending session.
SupersedePending(old, new) ==
    /\ old # new
    /\ status[old] = "PENDING"
    /\ status[new] = "absent" /\ decided[new] = {}
    /\ status' = [status EXCEPT ![old] = "FAILED", ![new] = "PENDING"]
    /\ UNCHANGED decided

\* One answer per session, and none before somebody has claimed it.
Answer(s, d) ==
    /\ status[s] # "PENDING"
    /\ decided[s] = {}
    /\ decided' = [decided EXCEPT ![s] = {d}]
    /\ UNCHANGED status

StoreNext ==
    \/ \E s \in Sids :
          \/ Put(s) \/ TryProcess(s) \/ MarkPending(s)
          \/ MarkDone(s) \/ MarkFailed(s) \/ Delete(s)
          \/ \E d \in Answers : Answer(s, d)
    \/ \E old, new \in Sids : SupersedePending(old, new)

StoreSpec == StoreInit /\ [][StoreNext]_storeVars
=============================================================================
