--------------------------- MODULE MCSnapshotStore --------------------------
(***************************************************************************)
(* Two writers of the same content, a writer of another content in the     *)
(* same directory, and a reader.                                           *)
(***************************************************************************)
EXTENDS SnapshotStore, TLC

CONSTANTS w1, w2, w3, r, c, d

MCWriters == {w1, w2, w3}
MCReaders == {r}
MCContents == {c, d}
\* w1 and w2 write the same content; every property is about writers in general.
MCSymmetry == Permutations({w1, w2})
MCContentOf == (w1 :> c) @@ (w2 :> c) @@ (w3 :> d) @@ (r :> c)

=============================================================================
