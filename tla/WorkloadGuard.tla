---------------------------- MODULE WorkloadGuard ----------------------------
(***************************************************************************)
(* What a WatchDogEtcd promises to the services it guards, without leases, *)
(* requests or time: a node works only while it owns the lock, and no      *)
(* other node can come to own it before that work has ended.  Work may     *)
(* end, and an owner that does not work may lose the lock, at any time.    *)
(***************************************************************************)
CONSTANT Node

VARIABLES
    owner,     \* set of at most one node: who owns the lock
    working    \* nodes that work

guardVars == <<owner, working>>

Init ==
    /\ owner = {}
    /\ working = {}

Grant(n) ==
    /\ owner = {}
    /\ owner' = {n}
    /\ UNCHANGED working

Begin(n) ==
    /\ n \in owner \ working
    /\ working' = working \cup {n}
    /\ UNCHANGED owner

End(n) ==
    /\ n \in working
    /\ working' = working \ {n}
    /\ UNCHANGED owner

Free ==
    /\ owner # {}
    /\ owner \cap working = {}
    /\ owner' = {}
    /\ UNCHANGED working

Next ==
    \/ \E n \in Node : Grant(n) \/ Begin(n) \/ End(n)
    \/ Free

Spec == Init /\ [][Next]_guardVars
=============================================================================
