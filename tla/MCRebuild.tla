----------------------------- MODULE MCRebuild -----------------------------
(* Rebuild for TLC: all clients share one identity, or the second process   *)
(* has clients of another one.                                              *)
EXTENDS Rebuild

CONSTANTS alice, bob

MCIdentities == {alice}
MCIdentityOf == [p \in Procs |-> [c \in Cids |-> alice]]

TwoIdentities == {alice, bob}
TwoIdentityOf == [p \in Procs |-> [c \in Cids |-> IF p = 0 THEN alice ELSE bob]]
=============================================================================
