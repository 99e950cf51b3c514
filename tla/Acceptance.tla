----------------------------- MODULE Acceptance -----------------------------
(***************************************************************************)
(* What run_ingestion accepts of a fetched frame of daily bars:            *)
(* _validate_batch of src/aquant/data/ingestion.py with                    *)
(* normalize_market_frame and validate_market_frame.  Eastmoney answers    *)
(* for the interval asked for, in lots; Sina with all there is, in shares, *)
(* and is cut to the interval here.                                        *)
(*                                                                         *)
(* A row is [on, volume, bar]: a day, or NoDate; the volume as reported;   *)
(* and whether the rest of the row is "sound", has prices that are null,   *)
(* not positive or not between low and high ("unsound"), or does not even  *)
(* parse ("malformed").                                                    *)
(***************************************************************************)
EXTENDS Integers, SequencesExt

CONSTANTS
    Calendar,          \* the complete trading days, up to yesterday
    MaxVolume          \* the largest int64

NoDate    == 0
Providers == {"eastmoney", "sina"}

AlwaysLots(provider) == 100               \* mutation: every source in lots
Multiplier(provider) == IF provider = "eastmoney" THEN 100 ELSE 1
LocalDateSlice(provider) == provider = "sina"

-----------------------------------------------------------------------------
(* normalize_market_frame *)

Overflows(volume, provider) ==
    /\ Multiplier(provider) # 1
    /\ \/ volume > MaxVolume \div Multiplier(provider)
       \/ volume < -((MaxVolume + 1) \div Multiplier(provider))
NormalizationRefused(frame, columns, provider) ==
    \/ columns # provider
    \/ \E i \in DOMAIN frame : frame[i].bar = "malformed" \/ Overflows(frame[i].volume, provider)
Normalized(frame, provider) ==
    [i \in DOMAIN frame |-> [frame[i] EXCEPT !.volume = @ * Multiplier(provider)]]

-----------------------------------------------------------------------------
(* validate_market_frame: rows are counted, never repaired or reordered *)

Days(frame) == {frame[i].on : i \in DOMAIN frame}
DuplicatesPass(frame) ==                  \* mutation: only the order of days is checked
    \/ \E i \in DOMAIN frame : frame[i].bar = "unsound" \/ frame[i].volume < 0
    \/ \E i, j \in DOMAIN frame : i < j /\ frame[i].on > frame[j].on
QualityRefused(frame) ==
    \/ \E i \in DOMAIN frame : frame[i].bar = "unsound" \/ frame[i].volume < 0
    \/ \E i, j \in DOMAIN frame : i < j /\ frame[i].on >= frame[j].on

-----------------------------------------------------------------------------
(* _validate_batch, for one instrument *)

Within(frame, start, end) == SelectSeq(frame, LAMBDA row : row.on \in start .. end)

FrameRefused(frame, columns, provider, start, end) ==
    LET sliced == Within(Normalized(frame, provider), start, end)
    IN  \/ NormalizationRefused(frame, columns, provider)
        \/ NoDate \in Days(frame)
        \/ ~LocalDateSlice(provider) /\ ~(Days(frame) \subseteq start .. end)
        \/ sliced = <<>>
        \/ ~(Days(sliced) \subseteq Calendar)
        \/ QualityRefused(sliced)
        \/ Max(Days(sliced)) # end

Accepted(frame, provider, start, end) ==
    LET sliced == Within(Normalized(frame, provider), start, end)
    IN  [bars    |-> sliced,
         missing |-> {day \in Calendar : day \in start .. end} \ Days(sliced)]

-----------------------------------------------------------------------------
(* Properties *)

\* Whatever a provider answers, what is accepted has, for every trading day of
\* the interval, one bar or an entry among the missing, and ends with a bar.
IntervalIsAccountedFor(frame, columns, start, end) ==
    \A provider \in Providers :
        ~FrameRefused(frame, columns, provider, start, end) =>
            LET accepted == Accepted(frame, provider, start, end)
                bars     == accepted.bars
            IN  /\ \A day \in {c \in Calendar : c \in start .. end} \ accepted.missing :
                      Cardinality({i \in DOMAIN bars : bars[i].on = day}) = 1
                /\ Len(bars) + Cardinality(accepted.missing)
                   = Cardinality({c \in Calendar : c \in start .. end})
                /\ bars[Len(bars)].on = end
                /\ \A i \in DOMAIN bars : bars[i].volume \in 0 .. MaxVolume

\* The same history, told in shares from its beginning by one provider and in
\* lots for the interval by the other, is accepted as the same bars; what one
\* accepts the other does, unless what Sina tells of other days does not parse.
InLots(history, start, end) ==
    LET sliced == Within(history, start, end)
    IN  [i \in DOMAIN sliced |-> [sliced[i] EXCEPT !.volume = @ \div 100]]
Parses(history) == \A i \in DOMAIN history : history[i].on # NoDate /\ history[i].bar # "malformed"
ProvidersAgree(history, start, end) ==
    LET lots == InLots(history, start, end)
        bySina      == ~FrameRefused(history, "sina", "sina", start, end)
        byEastmoney == ~FrameRefused(lots, "eastmoney", "eastmoney", start, end)
    IN  /\ bySina => byEastmoney
        /\ byEastmoney /\ Parses(history) => bySina
        /\ bySina => Accepted(history, "sina", start, end)
                     = Accepted(lots, "eastmoney", start, end)

\* An ingestion that ends earlier accepts the same bars up to there, if that
\* day has one.
EndsAgree(history, start, early, late) ==
    /\ ~FrameRefused(history, "sina", "sina", start, late)
    /\ start <= early /\ early < late /\ early \in Days(history)
    => /\ ~FrameRefused(history, "sina", "sina", start, early)
       /\ LET long  == Accepted(history, "sina", start, late)
              short == Accepted(history, "sina", start, early)
          IN  /\ short.bars = Within(long.bars, start, early)
              /\ short.missing = long.missing \cap (start .. early)

=============================================================================
