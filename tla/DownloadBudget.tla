---------------------------- MODULE DownloadBudget ----------------------------
(***************************************************************************)
(* What a public link promises: a budget of downloads, spent one at a      *)
(* time, that no one can spend once the link is revoked, which is final.   *)
(* A link whose downloads contended for the budget keeps only the second   *)
(* half of the promise.                                                    *)
(***************************************************************************)
EXTENDS Integers

CONSTANTS Links, Limits, NoLimit

VARIABLES status, limit, charged, contended

budgetVars == <<status, limit, charged, contended>>

Init ==
    /\ status = [l \in Links |-> "absent"]
    /\ limit = [l \in Links |-> NoLimit]
    /\ charged = [l \in Links |-> 0]
    /\ contended = {}

Open(l) ==
    /\ status[l] = "absent"
    /\ status' = [status EXCEPT ![l] = "live"]
    /\ \E n \in Limits : limit' = [limit EXCEPT ![l] = n]
    /\ UNCHANGED <<charged, contended>>

Revoke(l) ==
    /\ status[l] = "live"
    /\ status' = [status EXCEPT ![l] = "revoked"]
    /\ UNCHANGED <<limit, charged, contended>>

Contend(l) ==
    /\ status[l] = "live"
    /\ contended' = contended \cup {l}
    /\ UNCHANGED <<status, limit, charged>>

Charge(l) ==
    /\ status[l] = "live"
    /\ limit[l] # NoLimit /\ l \notin contended => charged[l] < limit[l]
    /\ charged' = [charged EXCEPT ![l] = @ + 1]
    /\ UNCHANGED <<status, limit, contended>>

Next == \E l \in Links : Open(l) \/ Revoke(l) \/ Contend(l) \/ Charge(l)

Spec == Init /\ [][Next]_budgetVars
==============================================================================
