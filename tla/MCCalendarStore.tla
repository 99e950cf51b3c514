--------------------------- MODULE MCCalendarStore --------------------------
(* Two writers of one calendar and a writer of another. *)
EXTENDS CalendarStore, TLC

CONSTANTS w1, w2, w3, c, d

MCWriters == {w1, w2, w3}
MCCalendars == {c, d}
MCCalendarOf == (w1 :> c) @@ (w2 :> c) @@ (w3 :> d)

=============================================================================
