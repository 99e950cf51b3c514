---------------------------- MODULE ContentStore ----------------------------
(***************************************************************************)
(* What a content-addressed store promises: a content is stored whole or   *)
(* not at all, it is never replaced, and once a write of it has been       *)
(* acknowledged nothing takes it away, a power loss included.  Contents    *)
(* stored but not acknowledged are orphans and may be lost.                *)
(***************************************************************************)
EXTENDS FiniteSets

CONSTANT Contents

VARIABLES stored, acked

storeVars == <<stored, acked>>

StoreInit == stored = {} /\ acked = {}

Store(c) ==
    /\ stored' = stored \cup {c}
    /\ UNCHANGED acked

Acknowledge(c) ==
    /\ c \in stored
    /\ acked' = acked \cup {c}
    /\ UNCHANGED stored

\* A power loss keeps at least what was acknowledged.
Lose ==
    /\ stored' \in SUBSET stored
    /\ acked \subseteq stored'
    /\ UNCHANGED acked

StoreNext ==
    \/ \E c \in Contents : Store(c) \/ Acknowledge(c)
    \/ Lose

StoreSpec == StoreInit /\ [][StoreNext]_storeVars

=============================================================================
