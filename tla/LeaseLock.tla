----------------------------- MODULE LeaseLock -----------------------------
(***************************************************************************)
(* What the wipe claim of a paper promises: a lease that at most one       *)
(* request has at a time.  A lease ends when it is given back, when it     *)
(* runs out or when it is taken away; only then another one is granted.    *)
(***************************************************************************)
CONSTANT Requests

VARIABLE leases   \* the requests that may wipe the paper now

Init == leases = {}

Grant(r) == leases = {} /\ leases' = {r}

End(r) == leases = {r} /\ leases' = {}

Next == \E r \in Requests : Grant(r) \/ End(r)

Spec == Init /\ [][Next]_leases
=============================================================================
