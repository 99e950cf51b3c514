------------------------------- MODULE Callers --------------------------------
(***************************************************************************)
(* What the publication protocols of the repository have in common: each   *)
(* process makes a bounded number of calls, one after another, and a       *)
(* bounded number of mishaps hits them.  Used by FilePublication,          *)
(* BundlePublication, CalendarStore and CorporateActionStore.              *)
(***************************************************************************)
EXTENDS Naturals

CONSTANTS
    MaxCalls,         \* bound: calls each process makes
    MaxMishaps,       \* bound: faults, crashes, short writes and power losses
    None              \* no process: the lock is free

\* A process before its first call, or started again after a crash.
Idle == [pc |-> "idle", call |-> 0, result |-> "none"]

=============================================================================
