----------------------------- MODULE MCWebTier -----------------------------
(* Small instances of Handoff and AuditedRecords, which share no state: in a   *)
(* behaviour the requests are either handoffs or writes.                       *)
(*                                                                             *)
(* One token is brought three times, the ERP's clock as far behind or ahead as *)
(* a token may be old, and requests may rest for four ages, as 120 s are to    *)
(* 30 s in the deployment; time enough for a nonce to be forgotten.            *)
(* Three writes are made on two keys: two removals of one upload, a correction *)
(* of a row somebody else deletes, and every place to die in.                  *)
EXTENDS Handoff, AuditedRecords

CONSTANTS r1, r2, r3, k1, k2, name, code

VARIABLE requests       \* what the requests of this behaviour are

MCRequests == {r1, r2, r3}
MCIds == {k1, k2}
MCFields == {name, code}
MCSkews == (-MaxAge)..MaxAge

MCSymmetry ==
    Permutations(MCRequests) \union Permutations(MCIds) \union Permutations(MCFields)

\* What the others would find does not matter to either kind.
MCInit ==
    /\ HandoffInit /\ RecordsInit
    /\ \/ requests = "handoffs" /\ keys = {}
       \/ requests = "writes" /\ active

MCNext ==
    /\ \/ requests = "handoffs" /\ HandoffNext /\ UNCHANGED recordVars
       \/ requests = "writes" /\ RecordsNext /\ UNCHANGED handoffVars
    /\ UNCHANGED requests

MCSpec == MCInit /\ [][MCNext]_<<handoffVars, recordVars, requests>>
=============================================================================
