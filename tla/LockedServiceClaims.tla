------------------------- MODULE LockedServiceClaims -------------------------
(***************************************************************************)
(* What the comments of the watchdogs say and their steps do not keep.     *)
(***************************************************************************)
EXTENDS LockedService

\* "Handles Etcd lock as a service workload guard": at most one service is in
\* its step, in a shutdown too.  (WatchDogEtcd)
OneStep ==
    \A n, m \in Node : place[n] = "step" /\ place[m] = "step" => n = m

\* "Manually mark watchdog as failed": a service that stays marked, and whose
\* iterations end again and again with ServiceIsMarkedFailed, comes to be seen
\* as not alive by its hub.  (WatchDogBase.mark_failed(), is_alive())
MarkIsSeen ==
    \A n \in Node :
        <>[](failed[n] /\ hub[n] = "serving") /\ []<>(place[n] = "check")
            => <>(look[n] = "numb")
=============================================================================
