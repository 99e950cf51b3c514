---------------------------- MODULE RollingClient ----------------------------
(***************************************************************************)
(* The rolling ledger under an arbitrary caller.  It keeps a portfolio     *)
(* ledger as LedgerClient does, promotes it at some moment, the pristine   *)
(* one included, and from then on buys, sells and closes in any order and  *)
(* about any date.                                                         *)
(***************************************************************************)
EXTENDS LedgerClient, RollingLedger

CONSTANTS
    RollingPostings,  \* set of [event, lot, fees]
    Sells             \* set of [event, date, symbol, size, price, fees]

ASSUME RollingPostingsAssumption ==
    \A p \in RollingPostings :
        /\ p.fees \in Nat
        /\ p.lot \in Lot
        /\ p.lot.acquired \in Dates
ASSUME SellsAssumption ==
    \A q \in Sells :
        /\ q.date \in Dates
        /\ q.symbol \in Symbols
        /\ {q.price, q.fees} \subseteq Nat
        /\ q.size \in Int

VARIABLES
    schema,           \* the type of the ledger in hand: "legacy" or "rolling"
    asked             \* the event and lot ids of the last call, <<>> if not a buy

rollingVars == <<ledgerVars, schema, asked>>

\* What a caller that looks at the positions as of `view` asks to close with.
RollingValuationsAt(l, view, mark) ==
    LET sizes == RollingPositionSizes(l, view)
    IN  [y \in DOMAIN sizes |->
            [total |-> sizes[y].total, available |-> sizes[y].available,
             mark |-> mark[y]]]

RollingInit == Init /\ schema = "legacy" /\ asked = <<>>

Legacy == schema = "legacy" /\ Next /\ UNCHANGED <<schema, asked>>

Promote ==
    /\ schema = "legacy" /\ schema' = "rolling"
    /\ ledger' = Promoted(ledger)
    /\ reply' = "ok"
    /\ UNCHANGED <<asOf, asked>>

Buy(p)  == PostRollingBuy(p) /\ asked' = <<p.event, p.lot.id>>
Sell(q) == PostRollingSell(q) /\ asked' = <<>>
Close(date, v) == CloseRollingSession(date, v) /\ asked' = <<>>

Rolling ==
    /\ schema = "rolling" /\ UNCHANGED schema
    /\ \/ \E p \in RollingPostings : Buy(p)
       \/ \E q \in Sells : Sell(q)
       \/ \E date, view \in Dates, mark \in [Symbols -> Marks] :
             Close(date, RollingValuationsAt(ledger, view, mark))

RollingNext == Legacy \/ Promote \/ Rolling

RollingSpec == RollingInit /\ [][RollingNext]_rollingVars

-----------------------------------------------------------------------------
(* Properties *)

RollingTypeOK ==
    /\ schema \in {"legacy", "rolling"}
    /\ reply \in {"ok", "refused", "unreconciled"}
    /\ asOf \in Nat
    /\ asked = <<>> \/ \E p \in RollingPostings : asked = <<p.event, p.lot.id>>
    /\ DOMAIN ledger.receivables \subseteq ReceivableIds
    /\ {ledger.initial, ledger.cash} \subseteq Nat
    /\ \A i \in DOMAIN ledger.events :
          /\ ledger.events[i].kind \in {"fill", "dividend", "sell"}
          /\ ledger.events[i].kind = "sell" =>
                /\ schema = "rolling"
                /\ DOMAIN ledger.events[i].consumed \subseteq DOMAIN ledger.lots

TakenId(l) == asked # <<>> /\ (asked[1] \in EventIds(l) \/ asked[2] \in LotIds(l))

\* The rolling posters and the rolling replay agree: when a request passed its
\* own checks, verify_rolling_ledger rejects the result only if it was dated
\* before something already recorded or reused an id, which post_rolling_buy,
\* posting on an empty ledger, cannot see for itself.
RollingReplayOnlyCatchesMisuse ==
    schema = "rolling" /\ reply = "unreconciled" =>
        OutOfOrder(ledger, asOf) \/ TakenId(ledger)

\* First in, first out over the whole life of a ledger: nothing is taken from a
\* lot while an older lot of the symbol, sellable no later, still has shares.
OldestLotsGoFirst ==
    schema = "rolling" =>
        \A k, m \in DOMAIN ledger.lots :
            /\ k < m /\ ledger.lots[k].symbol = ledger.lots[m].symbol
            /\ ledger.lots[k].available <= ledger.lots[m].available
            /\ ledger.lots[k].remaining > 0
            => ledger.lots[m].remaining = ledger.lots[m].original

\* The two schemas tell the same story: every portfolio ledger would replay once
\* promoted, which promote_portfolio_ledger does not check, and every rolling
\* ledger that has not sold would still replay as a portfolio ledger.
SiblingSchemasAgree ==
    /\ RollingTypeOK
    /\ schema = "legacy" => RollingVerified(Promoted(ledger))
    /\ schema = "rolling" /\ SellsIn(ledger, DOMAIN ledger.events) = {} => Verified(ledger)

\* What a closed day said stays true after later sells: positions are
\* reconstructed from dated events, never from what is left of the lots now.
RollingDaysStand ==
    [][ schema = "rolling" =>
        \A i \in DOMAIN ledger.snapshots :
            LET day == ledger.snapshots[i].date
            IN  /\ RollingPositionSizes(ledger', day) = RollingPositionSizes(ledger, day)
                /\ CashAsOf(ledger', day, ledger.snapshots[i].cash)
                /\ i \in DOMAIN ledger'.snapshots
                /\ ledger'.snapshots[i] = ledger.snapshots[i]
      ]_rollingVars

=============================================================================
