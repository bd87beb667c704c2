----------------------------- MODULE PortLease -----------------------------
(***************************************************************************)
(* What a pool of ports promises, whatever its bookkeeping: an app holds   *)
(* at most one port, a port is held by at most one app, and it passes from *)
(* one app to another only by being given back in between.                 *)
(***************************************************************************)
CONSTANTS Holders, Resources, None

VARIABLE lease      \* holder -> the resource it holds, or None

Init == lease = [h \in Holders |-> None]

\* h takes a resource nobody else holds, giving up what it held.
Take(h, r) ==
    /\ \A other \in Holders \ {h} : lease[other] # r
    /\ lease' = [lease EXCEPT ![h] = r]

\* Some leases end.
GiveBack(S) == lease' = [h \in Holders |-> IF h \in S THEN None ELSE lease[h]]

Next ==
    \/ \E h \in Holders, r \in Resources : Take(h, r)
    \/ \E S \in SUBSET Holders : GiveBack(S)

Spec == Init /\ [][Next]_lease

Exclusive ==
    \A h, g \in Holders : h # g /\ lease[h] # None => lease[h] # lease[g]
=============================================================================
