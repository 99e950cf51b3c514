---------------------------- MODULE LedgerClient ----------------------------
(***************************************************************************)
(* The portfolio ledger under an arbitrary caller: buys, registrations,    *)
(* payments and closes in any order and about any date, in or out of       *)
(* sequence.  The caller owns the calendar; the ledger has only the dates  *)
(* it is given and what it already recorded.                               *)
(***************************************************************************)
EXTENDS PortfolioLedger

CONSTANTS
    Dates,            \* the dates calls are about
    Postings,         \* set of [event, lot, fees]
    Registrations,    \* set of <<event id, receivable>>
    Marks             \* prices a close may use

\* Lot ids are strings; those a coordinator makes of a symbol and the number of
\* an attempt stay tuples here.
LotNames == STRING \cup ({"lot"} \X Symbols \X Nat)
Lot == [id : LotNames, symbol : Symbols, acquired : Nat, available : Nat,
        remaining : Nat, cost : Nat]
Receivable == [symbol : Symbols, registered : Nat \ {0}, payable : Nat \ {0},
               actual : Nat \ {0}, amount : Nat, paid : Nat]

ASSUME DatesAssumption       == Dates \subseteq Nat \ {0}
ASSUME PostingsAssumption ==
    \A p \in Postings :
        /\ p.fees \in Nat
        /\ p.lot \in Lot
        /\ p.lot.acquired \in Dates
ASSUME RegistrationsAssumption ==
    \A g \in Registrations :
        /\ g[1] \in ReceivableIds
        /\ g[2] \in Receivable
        /\ g[2].registered \in Dates

\* What a caller that looks at the lots as of `view` asks to close with.
ValuationsAt(l, view, mark) ==
    LET sizes == PositionSizes(l, view)
    IN  [y \in DOMAIN sizes |->
            [total |-> sizes[y].total, available |-> sizes[y].available,
             mark |-> mark[y]]]

Init ==
    /\ ledger = CreateLedger(InitialCash)
    /\ reply = "ok"
    /\ asOf = NoDate

Next ==
    \/ \E p \in Postings : PostBuy(p)
    \/ \E g \in Registrations : RegisterReceivable(g[1], g[2])
    \/ \E date \in Dates : PayReceivables(date)
    \/ \E date, view \in Dates, mark \in [Symbols -> Marks] :
          CloseSession(date, ValuationsAt(ledger, view, mark))

Spec == Init /\ [][Next]_ledgerVars

-----------------------------------------------------------------------------
(* Properties *)

LedgerType(l) ==
    /\ l \in [initial : Nat, cash : Nat, lots : Seq(Lot),
              events : Seq(Range(l.events)),
              receivables : [DOMAIN l.receivables -> Receivable],
              snapshots : Seq(Range(l.snapshots))]
    /\ DOMAIN l.receivables \subseteq ReceivableIds
    /\ \A i \in DOMAIN l.events :
          /\ l.events[i].kind \in {"fill", "dividend"}
          /\ {l.events[i].date, l.events[i].notional, l.events[i].fees,
              l.events[i].before, l.events[i].after} \subseteq Nat
    /\ \A i \in DOMAIN l.snapshots : l.snapshots[i].date \in Nat

TypeOK ==
    /\ LedgerType(ledger)
    /\ reply \in {"ok", "refused", "unreconciled"}
    /\ asOf \in Nat

\* Whatever is called in whatever order, the ledger in the caller's hands is
\* well typed and replays: lots and fills, payments and receivables, cash and
\* every closed day agree.
LedgerInv == TypeOK /\ Verified(ledger)

\* The date precedes something the ledger already recorded.
OutOfOrder(l, date) ==
    \/ Closed(l, date)
    \/ l.events # <<>> /\ date < l.events[Len(l.events)].date

\* The incremental posters and the independent replay agree: when a request
\* passed its own checks, the closing verify_portfolio_ledger rejects the result
\* only if the request was dated before something already recorded.  In-order
\* callers therefore never see a reconciliation error.
ReplayOnlyCatchesOutOfOrder ==
    reply = "unreconciled" => OutOfOrder(ledger, asOf)

\* Cash is what the account started with, less what its lots and their fees
\* cost, plus exactly the receivables marked paid: no dividend is credited
\* twice, none is marked paid without its cash, no fill escapes its fee.
CashConserved ==
    LET fills == {i \in DOMAIN ledger.events : ledger.events[i].kind = "fill"}
        paid  == {d \in DOMAIN ledger.receivables : ledger.receivables[d].paid # NoDate}
    IN  ledger.cash + SumFunction([i \in fills |-> ledger.events[i].fees])
            + SumFunction([k \in DOMAIN ledger.lots |->
                 NotionalFen(ledger.lots[k].cost, ledger.lots[k].remaining)])
        = ledger.initial + SumFunction([d \in paid |-> ledger.receivables[d].amount])

\* What a closed day said stays true: no later call, however it is dated,
\* changes the positions or the outstanding receivables of a closed day, or
\* rewrites its snapshot or an event.
ClosedDaysStand ==
    [][ /\ \A i \in DOMAIN ledger.snapshots :
              LET day == ledger.snapshots[i].date
              IN  /\ PositionSizes(ledger', day) = PositionSizes(ledger, day)
                  /\ Outstanding(ledger', day) = Outstanding(ledger, day)
                  /\ i \in DOMAIN ledger'.snapshots
                  /\ ledger'.snapshots[i] = ledger.snapshots[i]
        /\ \A i \in DOMAIN ledger.events :
              i \in DOMAIN ledger'.events /\ ledger'.events[i] = ledger.events[i]
      ]_ledgerVars

=============================================================================
