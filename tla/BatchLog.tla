------------------------------ MODULE BatchLog ------------------------------
(***************************************************************************)
(* What the data manifest promises: a log of records that grows by whole   *)
(* batches.  A batch adds the records whose ids are new; it is refused if  *)
(* one of its ids is there with other content.  A record seen once keeps   *)
(* its first form.  Batches acknowledged as appended survive a power loss, *)
(* and a power loss takes whole batches.                                   *)
(***************************************************************************)
EXTENDS FiniteSets

CONSTANT Batches                   \* sets of records [id, body, fetched]

VARIABLES log, kept

logVars == <<log, kept>>

Ids(records) == {r.id : r \in records}
New(b) == {r \in b : r.id \notin Ids(log)}
Conflicts(b) == \E r \in b, s \in log : r.id = s.id /\ r.body # s.body

LogInit == log = {} /\ kept = {}

Publish(b) ==
    /\ ~Conflicts(b)
    /\ log' = log \cup New(b)
    /\ UNCHANGED kept

\* The records a call reports as appended.
Acknowledge(records) ==
    /\ records \subseteq log
    /\ kept' = kept \cup records
    /\ UNCHANGED log

LoseBatches ==
    /\ \E lost \in SUBSET {b \in Batches : b \cap log # {}} : log' = log \ UNION lost
    /\ kept \subseteq log'
    /\ \E whole \in SUBSET {b \in Batches : Ids(b) \subseteq Ids(log)} :
          Ids(log') = Ids(UNION whole)
    /\ UNCHANGED kept

LogNext ==
    \/ \E b \in Batches : Publish(b)
    \/ \E b \in Batches : \E records \in SUBSET b : Acknowledge(records)
    \/ LoseBatches

LogSpec == LogInit /\ [][LogNext]_logVars

=============================================================================
