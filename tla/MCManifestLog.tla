---------------------------- MODULE MCManifestLog ---------------------------
(***************************************************************************)
(* The manifest and the ingestion runs that write it, each a module with   *)
(* its own variables.  A behaviour exercises one, chosen at the start:     *)
(*    "log"        ManifestLog, three writers and a reader.  The batches   *)
(*                 overlap: b repeats a record of a under a later fetch    *)
(*                 time, c contradicts a record of a (same id, other       *)
(*                 content) and brings a new one.                          *)
(*    "ingestion"  Ingestion, two runs over two symbols; the source of A   *)
(*                 may return one of two contents, and the runs record     *)
(*                 different versions of the client library.               *)
(***************************************************************************)
EXTENDS ManifestLog, Ingestion, TLC

CONSTANTS wa, wb, wc, r

VARIABLE part

MCWriters == {wa, wb, wc}
MCReaders == {r}
Line(id, body, fetched) == [id |-> id, body |-> body, fetched |-> fetched]
MCBatchOf ==
    (wa :> <<Line("s1", "x", 1), Line("s2", "x", 1)>>) @@
    (wb :> <<Line("s2", "x", 2), Line("s3", "x", 2)>>) @@
    (wc :> <<Line("s4", "x", 1), Line("s1", "y", 1)>>)
MCCalls == (wa :> 2) @@ (wb :> 1) @@ (wc :> 1) @@ (r :> 1)

MCRuns == {"r1", "r2"}
MCUniverse == <<"A", "B">>
MCFetches == [s \in {"A", "B"} |-> IF s = "A" THEN {"x", "y"} ELSE {"x"}]
MCClientVersion == [name \in MCRuns |-> name]

MCInit == Init /\ IngestionInit /\ part \in {"log", "ingestion"}
MCNext ==
    /\ UNCHANGED part
    /\ \/ part = "log" /\ Next /\ UNCHANGED ingestionVars
       \/ part = "ingestion" /\ IngestionNext /\ UNCHANGED vars
MCSpec == MCInit /\ [][MCNext]_<<vars, ingestionVars, part>> /\ Fairness

=============================================================================
