---------------------------- MODULE LedgerProofs ----------------------------
(***************************************************************************)
(* Proofs about the portfolio ledger and its rolling sibling under an      *)
(* arbitrary caller, and about the portfolio run that calls the first, for *)
(* every value of the constants.  Of the portfolio ledger:                 *)
(*    LedgerAlwaysReplays    the ledger a caller holds always replays,     *)
(*    InOrderCallsReplay     the checks at the head of each operation are  *)
(*                           complete for calls in date order,             *)
(*    ClosedDaysNeverChange  what a closed day said stays true,            *)
(*    CashIsConserved        cash is what went in less what went out.      *)
(* Of the rolling ledger:                                                  *)
(*    RollingLedgerAlwaysReplays  the same, before and after promotion,    *)
(*    RollingCallsReplay          only misuse fails the replay,            *)
(*    OldestAlwaysGoFirst         lots are sold first in, first out,       *)
(*    SiblingSchemasAlwaysAgree   promotion needs no replay of its own,    *)
(*    RollingDaysNeverChange      a closed day stands after later sells.   *)
(* Of the portfolio run:                                                   *)
(*    RunsAlwaysReplay              where a run is, and its ledger replays, *)
(*    OnlyInputsEverAbort           the ledger refuses no call of a run,   *)
(*    EntitlementsFollowRecordDate  dividends are owed by record date.     *)
(* The argument: Verified is inductive by the replay that ends every       *)
(* operation, but only because the posters build ledgers of the right type *)
(* (the ...Fields lemmas).  That the replay never fails for a call in      *)
(* order is the longer half: each conjunct of Verified is derived for the  *)
(* updated ledger from the request's own checks (the ...Verified lemmas    *)
(* and PaidReady), the closed days by SnapshotStands: a ledger that grew   *)
(* only after a day still reconciles that day.  The rolling half repeats   *)
(* this for lots whose remaining size is a sum over the sells, and so      *)
(* rests on a section about sums.  The run's invariant says where the loop *)
(* is in the calendar, what the ledger has recorded by then, and who is    *)
(* owed what: enough to refute every refusal of the four operations.       *)
(***************************************************************************)
EXTENDS RollingClient, Coordinator, RuleProofs

-----------------------------------------------------------------------------
(* What a typed ledger gives *)

\* A whole number of board lots at a positive price costs at least one fen.
LEMMA LotCostPositive ==
    ASSUME NEW x \in Lot, LotOK(x)
    PROVE  LotCost(x) \in Nat /\ LotCost(x) > 0
<1>1. x.cost \in Nat /\ x.remaining \in Nat /\ x.cost > 0 /\ x.remaining >= 100
  BY DEF Lot, LotOK, LotSize
<1>2. x.cost * x.remaining >= 100 BY <1>1
<1> QED BY <1>1, <1>2 DEF LotCost, NotionalFen, HalfUp

\* The fields of a typed ledger, one by one, as the provers need them.
LEMMA LedgerFields ==
    ASSUME NEW l, LedgerType(l)
    PROVE  /\ l.initial \in Nat /\ l.cash \in Nat
           /\ l.lots \in Seq(Lot) /\ Len(l.lots) \in Nat
           /\ DOMAIN l.lots = 1 .. Len(l.lots)
           /\ \A i \in 1 .. Len(l.lots) : l.lots[i] \in Lot
           /\ l.events \in Seq(Range(l.events)) /\ Len(l.events) \in Nat
           /\ DOMAIN l.events = 1 .. Len(l.events)
           /\ l.snapshots \in Seq(Range(l.snapshots)) /\ Len(l.snapshots) \in Nat
           /\ DOMAIN l.snapshots = 1 .. Len(l.snapshots)
           /\ l.events = <<>> <=> Len(l.events) = 0
           /\ l.snapshots = <<>> <=> Len(l.snapshots) = 0
           /\ \A i \in 1 .. Len(l.events) :
                 /\ l.events[i].date \in Nat /\ l.events[i].before \in Nat
                 /\ l.events[i].after \in Nat /\ l.events[i].notional \in Nat
                 /\ l.events[i].fees \in Nat
           /\ \A i \in 1 .. Len(l.snapshots) : l.snapshots[i].date \in Nat
           /\ \A d \in DOMAIN l.receivables : l.receivables[d] \in Receivable
<1>1. /\ l.initial \in Nat /\ l.cash \in Nat /\ l.lots \in Seq(Lot)
      /\ l.events \in Seq(Range(l.events)) /\ l.snapshots \in Seq(Range(l.snapshots))
      /\ \A d \in DOMAIN l.receivables : l.receivables[d] \in Receivable
  BY DEF LedgerType
<1>2. /\ Len(l.lots) \in Nat /\ DOMAIN l.lots = 1 .. Len(l.lots)
      /\ \A i \in 1 .. Len(l.lots) : l.lots[i] \in Lot
  BY <1>1, LenProperties, ElementOfSeq
<1>3. /\ Len(l.events) \in Nat /\ DOMAIN l.events = 1 .. Len(l.events)
      /\ Len(l.snapshots) \in Nat /\ DOMAIN l.snapshots = 1 .. Len(l.snapshots)
  BY <1>1, LenProperties
<1>4. /\ l.events = <<>> <=> Len(l.events) = 0
      /\ l.snapshots = <<>> <=> Len(l.snapshots) = 0
  BY <1>1, EmptySeq
<1>5. /\ \A i \in 1 .. Len(l.events) :
            /\ l.events[i].date \in Nat /\ l.events[i].before \in Nat
            /\ l.events[i].after \in Nat /\ l.events[i].notional \in Nat
            /\ l.events[i].fees \in Nat
      /\ \A i \in 1 .. Len(l.snapshots) : l.snapshots[i].date \in Nat
  BY <1>3 DEF LedgerType
<1> QED BY <1>1, <1>2, <1>3, <1>4, <1>5

\* A date that is not closed lies after every closed day.
LEMMA OpenDate ==
    ASSUME NEW l, LedgerType(l), SnapshotsReconcile(l), NEW date \in Nat, ~Closed(l, date)
    PROVE  \A i \in 1 .. Len(l.snapshots) : l.snapshots[i].date < date
<1> SUFFICES ASSUME NEW i \in 1 .. Len(l.snapshots)
             PROVE  l.snapshots[i].date < date
  OBVIOUS
<1>1. /\ Len(l.snapshots) \in Nat /\ DOMAIN l.snapshots = 1 .. Len(l.snapshots)
      /\ \A k \in 1 .. Len(l.snapshots) : l.snapshots[k].date \in Nat
      /\ l.snapshots = <<>> <=> Len(l.snapshots) = 0
  BY LedgerFields
<1>2. l.snapshots[Len(l.snapshots)].date < date
  BY <1>1 DEF Closed
<1>3. i < Len(l.snapshots) => l.snapshots[i].date < l.snapshots[Len(l.snapshots)].date
  BY <1>1 DEF SnapshotsReconcile
<1> QED BY <1>1, <1>2, <1>3

-----------------------------------------------------------------------------
(* A ledger that only grew after a day still reconciles that day *)

LotsGrow(l, u, day) ==
    /\ Len(l.lots) <= Len(u.lots)
    /\ \A i \in 1 .. Len(l.lots) : u.lots[i] = l.lots[i]
    /\ \A i \in 1 .. Len(u.lots) : i > Len(l.lots) => u.lots[i].acquired > day
EventsGrow(l, u, day) ==
    /\ Len(l.events) <= Len(u.events)
    /\ \A i \in 1 .. Len(l.events) : u.events[i] = l.events[i]
    /\ \A i \in 1 .. Len(u.events) : i > Len(l.events) => u.events[i].date > day

\* A size depends on the lots indexed and nothing else.
LEMMA SameSize ==
    ASSUME NEW s, NEW t, NEW S, \A i \in S : s[i] = t[i]
    PROVE  SizeOf(s, S) = SizeOf(t, S)
<1>1. [i \in S |-> s[i].remaining] = [i \in S |-> t[i].remaining]
  OBVIOUS
<1> QED BY <1>1 DEF SizeOf

\* Positions depend on the lots held by the day and nothing else.
LEMMA SameHeld ==
    ASSUME NEW l, NEW u, NEW day, DOMAIN l.lots \subseteq DOMAIN u.lots,
           \A k \in DOMAIN l.lots : u.lots[k] = l.lots[k],
           \A k \in DOMAIN u.lots \ DOMAIN l.lots : ~(u.lots[k].acquired <= day)
    PROVE  PositionSizes(u, day) = PositionSizes(l, day)
<1>1. ASSUME NEW y PROVE HeldLots(u, y, day) = HeldLots(l, y, day)
  BY DEF HeldLots
<1>2. ASSUME NEW y
      PROVE  /\ SizeOf(u.lots, HeldLots(l, y, day)) = SizeOf(l.lots, HeldLots(l, y, day))
             /\ SizeOf(u.lots, {i \in HeldLots(l, y, day) : u.lots[i].available <= day})
                = SizeOf(l.lots, {i \in HeldLots(l, y, day) : l.lots[i].available <= day})
  <2>1. \A i \in HeldLots(l, y, day) : u.lots[i] = l.lots[i]
    BY DEF HeldLots
  <2>2. {i \in HeldLots(l, y, day) : u.lots[i].available <= day}
        = {i \in HeldLots(l, y, day) : l.lots[i].available <= day}
    BY <2>1
  <2>3. \A i \in {k \in HeldLots(l, y, day) : l.lots[k].available <= day} :
           u.lots[i] = l.lots[i]
    BY <2>1
  <2> QED BY <2>1, <2>2, <2>3, SameSize
<1> DEFINE held(x) == {s \in Symbols : HeldLots(x, s, day) # {}}
           row(x, y) == [total     |-> SizeOf(x.lots, HeldLots(x, y, day)),
                         available |-> SizeOf(x.lots, {i \in HeldLots(x, y, day) :
                                                         x.lots[i].available <= day})]
<1>3. held(u) = held(l)
  BY <1>1
<1>4. \A y : row(u, y) = row(l, y)
  BY <1>1, <1>2
<1>5. [y \in held(u) |-> row(u, y)] = [y \in held(l) |-> row(l, y)]
  <2> HIDE DEF held, row
  <2> QED BY <1>3, <1>4
<1> QED BY <1>5 DEF PositionSizes

\* Lots acquired after the day leave the positions of the day alone.
LEMMA PositionsStand ==
    ASSUME NEW l, NEW u, LedgerType(l), LedgerType(u), NEW day \in Nat, LotsGrow(l, u, day)
    PROVE  PositionSizes(u, day) = PositionSizes(l, day)
<1>1. /\ Len(l.lots) \in Nat /\ DOMAIN l.lots = 1 .. Len(l.lots)
      /\ Len(u.lots) \in Nat /\ DOMAIN u.lots = 1 .. Len(u.lots)
      /\ \A i \in 1 .. Len(u.lots) : u.lots[i].acquired \in Nat
  BY LedgerFields DEF Lot
<1>2. /\ DOMAIN l.lots \subseteq DOMAIN u.lots
      /\ \A k \in DOMAIN l.lots : u.lots[k] = l.lots[k]
      /\ \A k \in DOMAIN u.lots \ DOMAIN l.lots : ~(u.lots[k].acquired <= day)
  BY <1>1 DEF LotsGrow
<1> QED BY <1>2, SameHeld

\* Events dated after the day leave its closing cash alone.
LEMMA CashStands ==
    ASSUME NEW l, NEW u, LedgerType(l), LedgerType(u), NEW day \in Nat, NEW cash,
           u.initial = l.initial, EventsGrow(l, u, day), CashAsOf(l, day, cash)
    PROVE  CashAsOf(u, day, cash)
<1>1. /\ Len(l.events) \in Nat /\ DOMAIN l.events = 1 .. Len(l.events)
      /\ Len(u.events) \in Nat /\ DOMAIN u.events = 1 .. Len(u.events)
      /\ \A i \in 1 .. Len(u.events) : u.events[i].date \in Nat
  BY LedgerFields
<1>2. CASE /\ \A i \in DOMAIN l.events : l.events[i].date > day
           /\ cash = l.initial
  BY <1>1, <1>2 DEF CashAsOf, EventsGrow
<1>3. CASE \E i \in DOMAIN l.events :
          /\ l.events[i].date <= day
          /\ \A j \in DOMAIN l.events : j > i => l.events[j].date > day
          /\ cash = l.events[i].after
  <2>1. PICK i \in 1 .. Len(l.events) :
          /\ l.events[i].date <= day
          /\ \A j \in 1 .. Len(l.events) : j > i => l.events[j].date > day
          /\ cash = l.events[i].after
    BY <1>1, <1>3
  <2>2. i \in 1 .. Len(u.events) /\ u.events[i] = l.events[i]
    BY <1>1 DEF EventsGrow
  <2>3. \A j \in 1 .. Len(u.events) : j > i => u.events[j].date > day
    BY <1>1, <2>1 DEF EventsGrow
  <2> QED BY <1>1, <2>1, <2>2, <2>3 DEF CashAsOf
<1> QED BY <1>2, <1>3 DEF CashAsOf

\* verify_portfolio_ledger: a snapshot that reconciled still does when the
\* ledger only grew after its day and its receivables read the same.
LEMMA SnapshotStands ==
    ASSUME NEW l, NEW u, LedgerType(l), LedgerType(u), NEW s, s.date \in Nat,
           SnapshotReconciles(l, s),
           u.initial = l.initial, LotsGrow(l, u, s.date), EventsGrow(l, u, s.date),
           OverdueBy(u, s.date) => OverdueBy(l, s.date),
           Outstanding(u, s.date) = Outstanding(l, s.date)
    PROVE  SnapshotReconciles(u, s)
BY PositionsStand, CashStands DEF SnapshotReconciles

-----------------------------------------------------------------------------
(* post_buy *)

\* post_buy: the fields of the ledger it builds, and its type.
LEMMA BoughtFields ==
    ASSUME NEW l, LedgerType(l), NEW p, p.lot \in Lot, p.fees \in Nat, ~BuyRefused(l, p)
    PROVE  LET u == Bought(l, p)
               n == Len(l.events)
               m == Len(l.lots)
           IN  /\ LedgerType(u)
               /\ u.initial = l.initial /\ u.cash = BuyEvent(l, p).after
               /\ u.receivables = l.receivables /\ u.snapshots = l.snapshots
               /\ Len(u.lots) = m + 1 /\ u.lots[m + 1] = p.lot
               /\ \A i \in 1 .. m : u.lots[i] = l.lots[i]
               /\ Len(u.events) = n + 1 /\ u.events[n + 1] = BuyEvent(l, p)
               /\ \A i \in 1 .. n : u.events[i] = l.events[i]
<1> DEFINE u == Bought(l, p)
           e == BuyEvent(l, p)
<1>1. /\ u.initial = l.initial /\ u.cash = e.after
      /\ u.receivables = l.receivables /\ u.snapshots = l.snapshots
      /\ u.lots = Append(l.lots, p.lot) /\ u.events = Append(l.events, e)
  BY DEF Bought, LedgerType
<1>2. p.lot \in Lot /\ p.fees \in Nat /\ LotOK(p.lot)
  BY DEF BuyRefused
<1>3. LotCost(p.lot) \in Nat /\ LotCost(p.lot) > 0
  BY <1>2, LotCostPositive
<1>4. /\ Append(l.lots, p.lot) \in Seq(Lot)
      /\ Len(u.lots) = Len(l.lots) + 1 /\ u.lots[Len(l.lots) + 1] = p.lot
      /\ \A i \in 1 .. Len(l.lots) : u.lots[i] = l.lots[i]
  BY <1>1, <1>2, LedgerFields, AppendProperties
<1>5. /\ u.events \in Seq(Range(u.events)) /\ DOMAIN u.events = 1 .. Len(l.events) + 1
      /\ Len(u.events) = Len(l.events) + 1 /\ u.events[Len(l.events) + 1] = e
      /\ \A i \in 1 .. Len(l.events) : u.events[i] = l.events[i]
  BY <1>1, LedgerFields, AppendToRange
<1>6. /\ e.kind = "fill" /\ e.date = p.lot.acquired /\ e.notional = LotCost(p.lot)
      /\ e.fees = p.fees /\ e.before = l.cash
      /\ e.after = l.cash - LotCost(p.lot) - p.fees
  BY DEF BuyEvent, CashAfterFill
<1>7. l.cash \in Nat /\ e.after >= 0 /\ p.lot.acquired \in Nat
  BY <1>2, <1>3, <1>6, LedgerFields DEF BuyRefused, Lot
<1>8. /\ e.kind \in {"fill", "dividend"}
      /\ {e.date, e.notional, e.fees, e.before, e.after} \subseteq Nat
  BY <1>2, <1>3, <1>6, <1>7
<1>9. \A i \in DOMAIN u.events :
          /\ u.events[i].kind \in {"fill", "dividend"}
          /\ {u.events[i].date, u.events[i].notional, u.events[i].fees,
              u.events[i].before, u.events[i].after} \subseteq Nat
  <2> SUFFICES ASSUME NEW i \in 1 .. Len(l.events) + 1
               PROVE /\ u.events[i].kind \in {"fill", "dividend"}
                     /\ {u.events[i].date, u.events[i].notional, u.events[i].fees,
                         u.events[i].before, u.events[i].after} \subseteq Nat
    BY <1>5
  <2>1. CASE i = Len(l.events) + 1
    BY <1>5, <1>8, <2>1, SMTT(30)
  <2>2. CASE i \in 1 .. Len(l.events)
    <3> HIDE DEF u
    <3>1. u.events[i] = l.events[i] /\ DOMAIN l.events = 1 .. Len(l.events)
      BY <1>5, <2>2, LedgerFields
    <3> QED BY <2>2, <3>1 DEF LedgerType
  <2>3. Len(l.events) \in Nat
    BY LedgerFields
  <2> HIDE DEF u, e
  <2> QED BY <2>1, <2>2, <2>3
<1>10. LedgerType(u)
  <2>1. u \in [initial : Nat, cash : Nat, lots : Seq(Lot), events : Seq(Range(u.events)),
               receivables : [DOMAIN u.receivables -> Receivable],
               snapshots : Seq(Range(u.snapshots))]
    <3>1. /\ l \in [initial : Nat, cash : Nat, lots : Seq(Lot),
                     events : Seq(Range(l.events)),
                     receivables : [DOMAIN l.receivables -> Receivable],
                     snapshots : Seq(Range(l.snapshots))]
          /\ e.after \in Nat
      BY <1>8 DEF LedgerType
    <3>2. Append(l.events, e) \in Seq(Range(u.events))
      BY <1>1, <1>5
    <3>3. ASSUME NEW R, Append(l.events, BuyEvent(l, p)) \in Seq(R)
          PROVE  Bought(l, p) \in
                    [initial : Nat, cash : Nat, lots : Seq(Lot), events : Seq(R),
                     receivables : [DOMAIN l.receivables -> Receivable],
                     snapshots : Seq(Range(l.snapshots))]
      BY <1>4, <3>1, <3>3 DEF Bought
    <3> HIDE DEF u
    <3> QED BY <1>1, <3>2, <3>3 DEF u
  <2>2. /\ DOMAIN u.receivables \subseteq ReceivableIds
        /\ \A i \in DOMAIN u.snapshots : u.snapshots[i].date \in Nat
    <3> HIDE DEF u
    <3> QED BY <1>1 DEF LedgerType
  <2> HIDE DEF u
  <2> QED BY <1>9, <2>1, <2>2 DEF LedgerType
<1> HIDE DEF u, e
<1> QED BY <1>1, <1>4, <1>5, <1>10 DEF u, e

\* A date in order is later than every event and every closed day.
LEMMA InOrder ==
    ASSUME NEW l, LedgerType(l), Verified(l), NEW date \in Nat, ~OutOfOrder(l, date)
    PROVE  /\ \A i \in 1 .. Len(l.events) : l.events[i].date <= date
           /\ \A i \in 1 .. Len(l.snapshots) : l.snapshots[i].date < date
<1>1. /\ Len(l.events) \in Nat /\ DOMAIN l.events = 1 .. Len(l.events)
      /\ \A i \in 1 .. Len(l.events) : l.events[i].date \in Nat
      /\ l.events = <<>> <=> Len(l.events) = 0
  BY LedgerFields
<1>2. ASSUME NEW i \in 1 .. Len(l.events) PROVE l.events[i].date <= date
  <2>1. l.events[Len(l.events)].date <= date
    BY <1>1 DEF OutOfOrder
  <2>2. i < Len(l.events) => l.events[i].date <= l.events[Len(l.events)].date
    BY <1>1 DEF Verified, EventsInOrder
  <2> QED BY <1>1, <2>1, <2>2
<1>3. ~Closed(l, date) /\ SnapshotsReconcile(l)
  BY DEF OutOfOrder, Verified
<1> QED BY <1>2, <1>3, OpenDate

\* post_buy: a buy in order whose own checks pass always replays.
LEMMA BoughtVerified ==
    ASSUME NEW l, LedgerType(l), Verified(l), NEW p, p.lot \in Lot, p.fees \in Nat,
           ~BuyRefused(l, p), ~OutOfOrder(l, p.lot.acquired)
    PROVE  Verified(Bought(l, p))
<1> DEFINE u == Bought(l, p)
           e == BuyEvent(l, p)
           n == Len(l.events)
           m == Len(l.lots)
           day == p.lot.acquired
<1>1. /\ LedgerType(u)
      /\ u.initial = l.initial /\ u.cash = e.after
      /\ u.receivables = l.receivables /\ u.snapshots = l.snapshots
      /\ Len(u.lots) = m + 1 /\ u.lots[m + 1] = p.lot
      /\ \A i \in 1 .. m : u.lots[i] = l.lots[i]
      /\ Len(u.events) = n + 1 /\ u.events[n + 1] = e
      /\ \A i \in 1 .. n : u.events[i] = l.events[i]
  BY BoughtFields
<1>2. /\ m \in Nat /\ DOMAIN l.lots = 1 .. m
      /\ n \in Nat /\ DOMAIN l.events = 1 .. n
      /\ DOMAIN l.snapshots = 1 .. Len(l.snapshots)
      /\ \A i \in 1 .. Len(l.snapshots) : l.snapshots[i].date \in Nat
      /\ l.events = <<>> <=> n = 0
  BY LedgerFields
<1>3. /\ DOMAIN u.lots = 1 .. m + 1 /\ DOMAIN u.events = 1 .. n + 1
      /\ u.events # <<>>
      /\ \A i \in 1 .. n + 1 : u.events[i].after \in Nat
  BY <1>1, <1>2, LedgerFields
<1>4. /\ p.lot \in Lot /\ LotOK(p.lot) /\ day \in Nat /\ p.fees \in Nat
      /\ p.event \notin EventIds(l) /\ p.lot.id \notin LotIds(l)
  BY DEF BuyRefused, Lot
<1>5. /\ LotCost(p.lot) \in Nat /\ LotCost(p.lot) > 0
  BY <1>4, LotCostPositive
<1>6. /\ e.id = p.event /\ e.kind = "fill" /\ e.date = day /\ e.symbol = p.lot.symbol
      /\ e.ref = p.lot.id /\ e.notional = LotCost(p.lot) /\ e.fees = p.fees
      /\ e.before = l.cash /\ e.after = CashAfterFill(l.cash, LotCost(p.lot), p.fees)
  BY DEF BuyEvent
<1>7. /\ \A i \in 1 .. n : l.events[i].date <= day
      /\ \A i \in 1 .. Len(l.snapshots) : l.snapshots[i].date < day
  BY <1>4, InOrder
<1> HIDE DEF u, e, n, m
<1>8. /\ DOMAIN u.events = 1 .. n + 1 /\ DOMAIN l.events = 1 .. n
      /\ u.events[n + 1] = e
      /\ \A i \in 1 .. n : u.events[i] = l.events[i]
      /\ Len(u.events) = n + 1 /\ Len(l.events) = n
  BY <1>1, <1>2, <1>3 DEF n
<1>9. /\ u.lots[m + 1] = p.lot /\ \A i \in 1 .. m : u.lots[i] = l.lots[i]
      /\ Len(u.lots) = m + 1 /\ Len(l.lots) = m
  BY <1>1 DEF m
<1>10. /\ m \in Nat /\ n \in Nat
       /\ \A i \in 1 .. n + 1 : i = n + 1 \/ i \in 1 .. n
       /\ \A k \in 1 .. m + 1 : k = m + 1 \/ k \in 1 .. m
       /\ n + 1 \in 1 .. n + 1 /\ m + 1 \in 1 .. m + 1
       /\ \A i \in 1 .. n : i \in 1 .. n + 1
       /\ \A k \in 1 .. m : k \in 1 .. m + 1
  BY <1>2
<1>11. EntriesValid(u)
  <2>1. \A k \in 1 .. m + 1 : LotOK(u.lots[k])
    <3>1. \A k \in 1 .. m : LotOK(l.lots[k]) /\ u.lots[k] = l.lots[k]
      BY <1>1, <1>2 DEF EntriesValid, Verified
    <3>2. LotOK(u.lots[m + 1])
      BY <1>1, <1>4
    <3> QED BY <1>10, <3>1, <3>2
  <2>2. \A i \in 1 .. n + 1 : u.events[i].notional > 0
    BY <1>1, <1>2, <1>5, <1>6, <1>10 DEF EntriesValid, Verified
  <2> QED BY <1>1, <1>3, <2>1, <2>2 DEF EntriesValid, Verified
<1>12. CashReplays(u)
  <2>1. l.cash = IF n = 0 THEN l.initial ELSE l.events[n].after
    BY <1>2 DEF Verified, CashReplays, n
  <2>2. ASSUME NEW i \in 1 .. n + 1
        PROVE  /\ u.events[i].before = IF i = 1 THEN u.initial ELSE u.events[i-1].after
               /\ u.events[i].after = Settled(u.events[i])
               /\ u.events[i].after >= 0
    <3>1. CASE i = n + 1
      <4>1. u.events[i] = e /\ e.after = Settled(e) /\ e.after >= 0
        BY <1>1, <1>3, <1>6, <3>1 DEF Settled
      <4>2. e.before = IF i = 1 THEN u.initial ELSE u.events[i-1].after
        BY <1>1, <1>2, <1>6, <2>1, <3>1
      <4> QED BY <4>1, <4>2
    <3>2. CASE i \in 1 .. n
      <4>1. u.events[i] = l.events[i] /\ (i # 1 => u.events[i-1] = l.events[i-1])
        BY <1>1, <1>2, <3>2
      <4> QED BY <1>1, <1>2, <3>2, <4>1 DEF Verified, CashReplays
    <3> QED BY <1>2, <3>1, <3>2
  <2> QED BY <1>1, <1>3, <2>2 DEF CashReplays
<1>13. EventsInOrder(u)
  <2>1. \A i \in 1 .. n : l.events[i].id # p.event
    BY <1>2, <1>4 DEF EventIds
  <2>2. \A i, j \in 1 .. n : i < j =>
           l.events[i].date <= l.events[j].date /\ l.events[i].id # l.events[j].id
    BY <1>2 DEF EventsInOrder, Verified
  <2>3. \A i, j \in 1 .. n + 1 : i < j => i \in 1 .. n
    BY <1>10
  <2> QED BY <1>10, <1>6, <1>7, <1>8, <2>1, <2>2, <2>3 DEF EventsInOrder
<1>14. FillsMatchLots(u)
  <2>1. \A i \in 1 .. m : l.lots[i].id # p.lot.id
    BY <1>2, <1>4 DEF LotIds
  <2>2. \A i \in 1 .. n : l.events[i].kind = "fill" => l.events[i].ref # p.lot.id
    <3> SUFFICES ASSUME NEW i \in 1 .. n, l.events[i].kind = "fill"
                 PROVE  l.events[i].ref # p.lot.id
      OBVIOUS
    <3>1. PICK k \in 1 .. m : FillMatches(l.events[i], l.lots[k])
      BY <1>2 DEF Verified, FillsMatchLots
    <3> QED BY <2>1, <3>1 DEF FillMatches
  <2>3. \A i, j \in 1 .. m + 1 : u.lots[i].id = u.lots[j].id => i = j
    <3>1. \A i, j \in 1 .. m : l.lots[i].id = l.lots[j].id => i = j
      BY <1>2 DEF Verified, FillsMatchLots
    <3>2. \A i \in 1 .. m : u.lots[i].id = l.lots[i].id
      BY <1>1
    <3>3. u.lots[m + 1].id = p.lot.id
      BY <1>1
    <3> QED BY <1>10, <2>1, <3>1, <3>2, <3>3
  <2>4. \A i, j \in 1 .. n + 1 :
           /\ u.events[i].kind = "fill" /\ u.events[j].kind = "fill"
           /\ u.events[i].ref = u.events[j].ref
           => i = j
    <3>1. \A i, j \in 1 .. n :
             /\ l.events[i].kind = "fill" /\ l.events[j].kind = "fill"
             /\ l.events[i].ref = l.events[j].ref
             => i = j
      BY <1>2 DEF Verified, FillsMatchLots
    <3> QED BY <1>1, <1>6, <1>10, <2>2, <3>1
  <2>5. \A i \in 1 .. n + 1 : u.events[i].kind = "fill" =>
           \E k \in 1 .. m + 1 : FillMatches(u.events[i], u.lots[k])
    <3>1. FillMatches(u.events[n + 1], u.lots[m + 1])
      BY <1>1, <1>6 DEF FillMatches
    <3>2. ASSUME NEW i \in 1 .. n, u.events[i].kind = "fill"
          PROVE  \E k \in 1 .. m + 1 : FillMatches(u.events[i], u.lots[k])
      <4>1. PICK k \in 1 .. m : FillMatches(l.events[i], l.lots[k])
        BY <1>1, <1>2, <3>2 DEF Verified, FillsMatchLots
      <4>2. k \in 1 .. m + 1 /\ u.events[i] = l.events[i] /\ u.lots[k] = l.lots[k]
        BY <1>10, <1>1
      <4> QED BY <4>1, <4>2
    <3> QED BY <1>10, <3>1, <3>2
  <2>6. \A k \in 1 .. m + 1 : \E i \in 1 .. n + 1 :
           u.events[i].kind = "fill" /\ u.events[i].ref = u.lots[k].id
    <3>1. u.events[n + 1].kind = "fill" /\ u.events[n + 1].ref = u.lots[m + 1].id
      BY <1>1, <1>6
    <3>2. ASSUME NEW k \in 1 .. m
          PROVE  \E i \in 1 .. n + 1 :
                    u.events[i].kind = "fill" /\ u.events[i].ref = u.lots[k].id
      <4>1. PICK i \in 1 .. n : l.events[i].kind = "fill" /\ l.events[i].ref = l.lots[k].id
        BY <1>2 DEF Verified, FillsMatchLots
      <4>2. i \in 1 .. n + 1 /\ u.events[i] = l.events[i] /\ u.lots[k] = l.lots[k]
        BY <1>10, <1>1
      <4> QED BY <4>1, <4>2
    <3> QED BY <1>10, <3>1, <3>2
  <2> QED BY <1>3, <2>3, <2>4, <2>5, <2>6 DEF FillsMatchLots
<1>15. PaymentsMatchReceivables(u)
  <2>1. \A i \in 1 .. n + 1 : u.events[i].kind = "dividend" =>
           i \in 1 .. n /\ u.events[i] = l.events[i]
    BY <1>1, <1>2, <1>6
  <2>2. \A i \in 1 .. n : i \in 1 .. n + 1 /\ u.events[i] = l.events[i]
    BY <1>1, <1>2
  <2>3. PaymentsMatchReceivables(l)
    BY DEF Verified
  <2>4. /\ u.receivables = l.receivables /\ DOMAIN u.events = 1 .. n + 1
        /\ DOMAIN l.events = 1 .. n
    BY <1>1, <1>2, <1>3
  <2>5. \A d \in DOMAIN u.receivables : u.receivables[d].paid # NoDate =>
           \E i \in DOMAIN u.events :
              u.events[i].kind = "dividend" /\ u.events[i].ref = d
    <3> SUFFICES ASSUME NEW d \in DOMAIN l.receivables, l.receivables[d].paid # NoDate
                 PROVE  \E i \in 1 .. n + 1 :
                           u.events[i].kind = "dividend" /\ u.events[i].ref = d
      BY <2>4
    <3>1. PICK i \in 1 .. n : l.events[i].kind = "dividend" /\ l.events[i].ref = d
      BY <2>3, <2>4 DEF PaymentsMatchReceivables
    <3> QED BY <2>2, <3>1
  <2> QED BY <2>1, <2>3, <2>4, <2>5 DEF PaymentsMatchReceivables
<1>16. SnapshotsReconcile(u)
  <2>1. ASSUME NEW i \in 1 .. Len(l.snapshots)
        PROVE  SnapshotReconciles(u, l.snapshots[i])
    <3>1. LotsGrow(l, u, l.snapshots[i].date) /\ EventsGrow(l, u, l.snapshots[i].date)
      <4>1. l.snapshots[i].date < day
        BY <1>7
      <4>2. \A k \in 1 .. m + 1 : k > m => k = m + 1
        BY <1>10
      <4>3. \A k \in 1 .. n + 1 : k > n => k = n + 1
        BY <1>10
      <4>4. LotsGrow(l, u, l.snapshots[i].date)
        <5>1. u.lots[m + 1].acquired > l.snapshots[i].date
          BY <1>9, <4>1
        <5>2. \A k \in 1 .. m + 1 : k > m => u.lots[k].acquired > l.snapshots[i].date
          BY <4>2, <5>1
        <5>3. /\ Len(u.lots) = m + 1 /\ Len(l.lots) = m
              /\ \A k \in 1 .. m : u.lots[k] = l.lots[k]
          BY <1>9, <1>10, <1>1
        <5>4. Len(l.lots) <= Len(u.lots)
          BY <1>10, <5>3
        <5>5. \A k \in 1 .. Len(l.lots) : u.lots[k] = l.lots[k]
          BY <5>3
        <5>6. \A k \in 1 .. Len(u.lots) :
                 k > Len(l.lots) => u.lots[k].acquired > l.snapshots[i].date
          BY <5>2, <5>3
        <5> QED BY <5>4, <5>5, <5>6 DEF LotsGrow
      <4>5. EventsGrow(l, u, l.snapshots[i].date)
        BY <1>10, <1>6, <1>8, <4>1, <4>3 DEF EventsGrow
      <4> QED BY <4>4, <4>5
    <3>2. /\ OverdueBy(u, l.snapshots[i].date) => OverdueBy(l, l.snapshots[i].date)
          /\ Outstanding(u, l.snapshots[i].date) = Outstanding(l, l.snapshots[i].date)
      BY <1>1 DEF OverdueBy, Outstanding
    <3>3. SnapshotReconciles(l, l.snapshots[i]) /\ l.snapshots[i].date \in Nat
      BY <1>2 DEF Verified, SnapshotsReconcile
    <3> QED BY <1>1, <3>1, <3>2, <3>3, SnapshotStands
  <2> QED BY <1>1, <1>2, <2>1 DEF Verified, SnapshotsReconcile
<1> QED BY <1>11, <1>12, <1>13, <1>14, <1>15, <1>16 DEF Verified, u

-----------------------------------------------------------------------------
(* register_receivable *)

\* register_receivable: the fields of the ledger it builds, and its type.
LEMMA RegisteredFields ==
    ASSUME NEW l, LedgerType(l), NEW d \in ReceivableIds, NEW r \in Receivable
    PROVE  LET u == Registered(l, d, r)
           IN  /\ LedgerType(u)
               /\ u.initial = l.initial /\ u.cash = l.cash /\ u.lots = l.lots
               /\ u.events = l.events /\ u.snapshots = l.snapshots
               /\ DOMAIN u.receivables = DOMAIN l.receivables \cup {d}
               /\ u.receivables[d] = r
               /\ \A x \in DOMAIN l.receivables : x # d => u.receivables[x] = l.receivables[x]
<1> DEFINE D == DOMAIN l.receivables \cup {d}
           f == [x \in D |-> IF x = d THEN r ELSE l.receivables[x]]
           u == Registered(l, d, r)
<1>1. /\ l \in [initial : Nat, cash : Nat, lots : Seq(Lot), events : Seq(Range(l.events)),
                receivables : [DOMAIN l.receivables -> Receivable],
                snapshots : Seq(Range(l.snapshots))]
      /\ D \subseteq ReceivableIds
      /\ \A i \in DOMAIN l.events :
          /\ l.events[i].kind \in {"fill", "dividend"}
          /\ {l.events[i].date, l.events[i].notional, l.events[i].fees,
              l.events[i].before, l.events[i].after} \subseteq Nat
      /\ \A i \in DOMAIN l.snapshots : l.snapshots[i].date \in Nat
  BY DEF LedgerType
<1>2. f \in [D -> Receivable] /\ DOMAIN f = D
  BY <1>1
<1>3. u = [l EXCEPT !.receivables = f]
  BY DEF Registered
<1> HIDE DEF f, u, D
<1>4. /\ u.initial = l.initial /\ u.cash = l.cash /\ u.lots = l.lots
      /\ u.events = l.events /\ u.snapshots = l.snapshots /\ u.receivables = f
      /\ u \in [initial : Nat, cash : Nat, lots : Seq(Lot), events : Seq(Range(l.events)),
                receivables : [D -> Receivable], snapshots : Seq(Range(l.snapshots))]
  BY <1>1, <1>2, <1>3
<1>5. LedgerType(u)
  BY <1>1, <1>2, <1>4 DEF LedgerType
<1> QED BY <1>2, <1>4, <1>5 DEF f, u, D

\* register_receivable: a registration whose own checks pass always replays.
LEMMA RegisteredVerified ==
    ASSUME NEW l, LedgerType(l), Verified(l),
           NEW d \in ReceivableIds, NEW r \in Receivable, ~RegisterRefused(l, d, r)
    PROVE  Verified(Registered(l, d, r))
<1> DEFINE u == Registered(l, d, r)
<1>1. /\ LedgerType(u)
      /\ u.initial = l.initial /\ u.cash = l.cash /\ u.lots = l.lots
      /\ u.events = l.events /\ u.snapshots = l.snapshots
      /\ DOMAIN u.receivables = DOMAIN l.receivables \cup {d}
      /\ u.receivables[d] = r
      /\ \A x \in DOMAIN l.receivables : x # d => u.receivables[x] = l.receivables[x]
  BY RegisteredFields
<1> HIDE DEF u
<1>2. /\ ReceivableOK(r) /\ r.paid = NoDate /\ d \notin DOMAIN l.receivables
      /\ ~Closed(l, r.registered)
  BY DEF RegisterRefused
<1>3. r.registered \in Nat /\ r.payable \in Nat /\ r.actual \in Nat
  BY DEF Receivable
<1>4. \A x \in DOMAIN l.receivables : x # d /\ u.receivables[x] = l.receivables[x]
  BY <1>1, <1>2
<1>5. EntriesValid(u)
  BY <1>1, <1>2, <1>4 DEF EntriesValid, Verified
<1>6. CashReplays(u) /\ EventsInOrder(u) /\ FillsMatchLots(u)
  BY <1>1 DEF CashReplays, EventsInOrder, FillsMatchLots, Verified
<1>7. PaymentsMatchReceivables(u)
  BY <1>1, <1>2, <1>4 DEF PaymentsMatchReceivables, Verified
<1>8. SnapshotsReconcile(u)
  <2>1. /\ Len(l.snapshots) \in Nat /\ DOMAIN l.snapshots = 1 .. Len(l.snapshots)
        /\ Len(l.lots) \in Nat /\ Len(l.events) \in Nat
        /\ \A i \in 1 .. Len(l.snapshots) : l.snapshots[i].date \in Nat
    BY LedgerFields
  <2>2. \A i \in 1 .. Len(l.snapshots) : l.snapshots[i].date < r.registered
    BY <1>2, <1>3, OpenDate DEF Verified
  <2>3. ASSUME NEW i \in 1 .. Len(l.snapshots)
        PROVE  SnapshotReconciles(u, l.snapshots[i])
    <3> DEFINE day == l.snapshots[i].date
    <3>1. day \in Nat /\ day < r.registered /\ SnapshotReconciles(l, l.snapshots[i])
      BY <2>1, <2>2 DEF Verified, SnapshotsReconcile
    <3>2. LotsGrow(l, u, day) /\ EventsGrow(l, u, day)
      BY <1>1, <2>1 DEF LotsGrow, EventsGrow
    <3>3. OverdueBy(u, day) => OverdueBy(l, day)
      <4>1. r.actual > day
        BY <1>2, <1>3, <3>1 DEF ReceivableOK
      <4> QED BY <1>1, <1>3, <1>4, <3>1, <4>1 DEF OverdueBy
    <3>4. Outstanding(u, day) = Outstanding(l, day)
      <4> DEFINE open(v) == {x \in DOMAIN v.receivables :
                              /\ v.receivables[x].registered <= day
                              /\ \/ v.receivables[x].paid = NoDate
                                 \/ v.receivables[x].paid > day}
      <4>1. open(u) = open(l)
        BY <1>1, <1>3, <1>4, <3>1
      <4>2. \A x \in open(l) : u.receivables[x].amount = l.receivables[x].amount
        BY <1>4
      <4>3. [x \in open(u) |-> u.receivables[x].amount]
            = [x \in open(l) |-> l.receivables[x].amount]
        <5> HIDE DEF open
        <5> QED BY <4>1, <4>2
      <4> QED BY <4>3 DEF Outstanding
    <3> HIDE DEF day
    <3> QED BY <1>1, <3>1, <3>2, <3>3, <3>4, SnapshotStands DEF day
  <2> QED BY <1>1, <2>1, <2>3 DEF Verified, SnapshotsReconcile
<1> QED BY <1>5, <1>6, <1>7, <1>8 DEF Verified, u

-----------------------------------------------------------------------------
(* close_session *)

\* close_session: the fields of the ledger it builds, and its type.
LEMMA ClosedFields ==
    ASSUME NEW l, LedgerType(l), NEW date \in Nat, NEW v
    PROVE  LET u == ClosedWith(l, date, v)
               k == Len(l.snapshots)
           IN  /\ LedgerType(u)
               /\ u.initial = l.initial /\ u.cash = l.cash /\ u.lots = l.lots
               /\ u.events = l.events /\ u.receivables = l.receivables
               /\ DOMAIN u.snapshots = 1 .. k + 1
               /\ u.snapshots[k + 1] = Snapshot(l, date, v)
               /\ \A i \in 1 .. k : u.snapshots[i] = l.snapshots[i]
<1> DEFINE u == ClosedWith(l, date, v)
           s == Snapshot(l, date, v)
           k == Len(l.snapshots)
           a == Append(l.snapshots, s)
<1>1. /\ l \in [initial : Nat, cash : Nat, lots : Seq(Lot), events : Seq(Range(l.events)),
                receivables : [DOMAIN l.receivables -> Receivable],
                snapshots : Seq(Range(l.snapshots))]
      /\ DOMAIN l.receivables \subseteq ReceivableIds
      /\ \A i \in DOMAIN l.events :
          /\ l.events[i].kind \in {"fill", "dividend"}
          /\ {l.events[i].date, l.events[i].notional, l.events[i].fees,
              l.events[i].before, l.events[i].after} \subseteq Nat
      /\ \A i \in DOMAIN l.snapshots : l.snapshots[i].date \in Nat
  BY DEF LedgerType
<1>2. /\ a \in Seq(Range(a)) /\ DOMAIN a = 1 .. k + 1 /\ a[k + 1] = s
      /\ \A i \in 1 .. k : a[i] = l.snapshots[i]
      /\ k \in Nat /\ DOMAIN l.snapshots = 1 .. k
  BY <1>1, AppendToRange, LenProperties
<1>3. s.date = date
  BY DEF Snapshot
<1>4. u = [l EXCEPT !.snapshots = a]
  BY DEF ClosedWith
<1> HIDE DEF u, s, a, k
<1>5. /\ u.initial = l.initial /\ u.cash = l.cash /\ u.lots = l.lots
      /\ u.events = l.events /\ u.receivables = l.receivables /\ u.snapshots = a
      /\ u \in [initial : Nat, cash : Nat, lots : Seq(Lot), events : Seq(Range(l.events)),
                receivables : [DOMAIN l.receivables -> Receivable],
                snapshots : Seq(Range(a))]
  BY <1>1, <1>2, <1>4
<1>6. \A i \in DOMAIN a : a[i].date \in Nat
  <2> SUFFICES ASSUME NEW i \in 1 .. k + 1 PROVE a[i].date \in Nat
    BY <1>2
  <2>1. CASE i = k + 1
    BY <1>2, <1>3, <2>1
  <2>2. CASE i \in 1 .. k
    BY <1>1, <1>2, <2>2
  <2> QED BY <1>2, <2>1, <2>2
<1>7. LedgerType(u)
  BY <1>1, <1>5, <1>6 DEF LedgerType
<1> QED BY <1>2, <1>5, <1>7 DEF u, s, k

\* close_session: a close whose own checks pass always replays.
LEMMA ClosedVerified ==
    ASSUME NEW l, LedgerType(l), Verified(l), NEW date \in Nat, NEW v,
           ~CloseRefused(l, date, v)
    PROVE  Verified(ClosedWith(l, date, v))
<1> DEFINE u == ClosedWith(l, date, v)
           s == Snapshot(l, date, v)
           k == Len(l.snapshots)
<1>1. /\ LedgerType(u)
      /\ u.initial = l.initial /\ u.cash = l.cash /\ u.lots = l.lots
      /\ u.events = l.events /\ u.receivables = l.receivables
      /\ DOMAIN u.snapshots = 1 .. k + 1
      /\ u.snapshots[k + 1] = s
      /\ \A i \in 1 .. k : u.snapshots[i] = l.snapshots[i]
  BY ClosedFields
<1>2. /\ k \in Nat /\ DOMAIN l.snapshots = 1 .. k
      /\ \A i \in 1 .. k : l.snapshots[i].date \in Nat
      /\ Len(l.events) \in Nat /\ DOMAIN l.events = 1 .. Len(l.events)
      /\ l.events = <<>> <=> Len(l.events) = 0
      /\ \A i \in 1 .. Len(l.events) : l.events[i].date \in Nat
  BY LedgerFields
<1>3. /\ ~Closed(l, date) /\ ~OverdueBy(l, date) /\ Sizes(v) = PositionSizes(l, date)
      /\ l.events # <<>> => l.events[Len(l.events)].date <= date
  BY <1>2 DEF CloseRefused
<1>4. /\ s.date = date /\ s.cash = l.cash /\ s.valuations = v
      /\ s.market = MarketValue(v) /\ s.receivable = Outstanding(l, date)
      /\ s.equity = s.cash + s.market + s.receivable
  BY DEF Snapshot
<1> HIDE DEF u, s, k
<1>5. \A x : SnapshotReconciles(l, x) => SnapshotReconciles(u, x)
  BY <1>1 DEF SnapshotReconciles, OverdueBy, PositionSizes, HeldLots, CashAsOf, Outstanding
<1>6. CashAsOf(l, date, l.cash)
  <2>1. CASE l.events = <<>>
    BY <1>2, <2>1 DEF CashAsOf, Verified, CashReplays
  <2>2. CASE l.events # <<>>
    <3>1. /\ Len(l.events) \in DOMAIN l.events
          /\ l.cash = l.events[Len(l.events)].after
      BY <1>2, <2>2 DEF Verified, CashReplays
    <3> QED BY <1>2, <1>3, <2>2, <3>1 DEF CashAsOf
  <2> QED BY <2>1, <2>2
<1>7. SnapshotReconciles(l, s)
  BY <1>3, <1>4, <1>6 DEF SnapshotReconciles
<1>8. SnapshotsReconcile(u)
  <2>1. /\ \A i \in 1 .. k + 1 : i = k + 1 \/ i \in 1 .. k
        /\ k \in Nat
    BY <1>2
  <2>2. ASSUME NEW i \in 1 .. k + 1 PROVE SnapshotReconciles(u, u.snapshots[i])
    <3>1. CASE i = k + 1
      BY <1>1, <1>5, <1>7, <3>1
    <3>2. CASE i \in 1 .. k
      BY <1>1, <1>2, <1>5, <3>2 DEF Verified, SnapshotsReconcile
    <3> QED BY <2>1, <3>1, <3>2
  <2>3. \A i \in 1 .. k : l.snapshots[i].date < date
    BY <1>3, OpenDate DEF Verified, k
  <2>4. \A i, j \in 1 .. k : i < j => l.snapshots[i].date < l.snapshots[j].date
    BY <1>2 DEF Verified, SnapshotsReconcile
  <2>5. ASSUME NEW i \in 1 .. k + 1, NEW j \in 1 .. k + 1, i < j
        PROVE  u.snapshots[i].date < u.snapshots[j].date
    <3>1. i \in 1 .. k /\ u.snapshots[i] = l.snapshots[i]
      BY <1>1, <2>1, <2>5
    <3>2. CASE j = k + 1
      BY <1>1, <1>4, <2>3, <3>1, <3>2
    <3>3. CASE j \in 1 .. k
      BY <1>1, <2>4, <2>5, <3>1, <3>3
    <3> QED BY <2>1, <3>2, <3>3
  <2> QED BY <1>1, <2>2, <2>5 DEF SnapshotsReconcile
<1>9. /\ EntriesValid(u) /\ CashReplays(u) /\ EventsInOrder(u)
      /\ FillsMatchLots(u) /\ PaymentsMatchReceivables(u)
  BY <1>1 DEF Verified, EntriesValid, CashReplays, EventsInOrder, FillsMatchLots,
              PaymentsMatchReceivables
<1> QED BY <1>8, <1>9 DEF Verified, u

-----------------------------------------------------------------------------
(* pay_receivables *)

\* The state in which the loop over the due receivables may pay the next one.
PayReady(l, date) ==
    /\ LedgerType(l) /\ Verified(l) /\ ~OutOfOrder(l, date)
    /\ \A d \in ReceivableIds : IsDue(l, d, date) => CashId(d) \notin EventIds(l)

\* What paying leaves alone.
OnlyPays(l, u) ==
    /\ u.initial = l.initial /\ u.lots = l.lots /\ u.snapshots = l.snapshots
    /\ \A i \in DOMAIN l.events : i \in DOMAIN u.events /\ u.events[i] = l.events[i]
    /\ \A i \in DOMAIN u.events : u.events[i].kind = "fill" => i \in DOMAIN l.events

\* pay_receivables: the fields after the payment of one receivable.
LEMMA PaidFields ==
    ASSUME NEW l, LedgerType(l), NEW date \in Nat, NEW d, IsDue(l, d, date)
    PROVE  LET u == PayOne(l, d, date)
               n == Len(l.events)
           IN  /\ LedgerType(u)
               /\ u.initial = l.initial /\ u.cash = l.cash + l.receivables[d].amount
               /\ u.lots = l.lots /\ u.snapshots = l.snapshots
               /\ Len(u.events) = n + 1 /\ DOMAIN u.events = 1 .. n + 1
               /\ u.events[n + 1] = Payment(l, d, date)
               /\ \A i \in 1 .. n : u.events[i] = l.events[i]
               /\ DOMAIN u.receivables = DOMAIN l.receivables
               /\ u.receivables[d] = [l.receivables[d] EXCEPT !.paid = date]
               /\ \A x \in DOMAIN l.receivables : x # d => u.receivables[x] = l.receivables[x]
<1> DEFINE u == PayOne(l, d, date)
           e == Payment(l, d, date)
           n == Len(l.events)
           a == Append(l.events, e)
           f == [l.receivables EXCEPT ![d] = [l.receivables[d] EXCEPT !.paid = date]]
           c == l.cash + l.receivables[d].amount
<1>1. /\ l \in [initial : Nat, cash : Nat, lots : Seq(Lot), events : Seq(Range(l.events)),
                receivables : [DOMAIN l.receivables -> Receivable],
                snapshots : Seq(Range(l.snapshots))]
      /\ DOMAIN l.receivables \subseteq ReceivableIds
      /\ \A i \in DOMAIN l.events :
          /\ l.events[i].kind \in {"fill", "dividend"}
          /\ {l.events[i].date, l.events[i].notional, l.events[i].fees,
              l.events[i].before, l.events[i].after} \subseteq Nat
      /\ \A i \in DOMAIN l.snapshots : l.snapshots[i].date \in Nat
  BY DEF LedgerType
<1>2. d \in DOMAIN l.receivables /\ l.receivables[d] \in Receivable
  BY <1>1 DEF IsDue
<1>3. /\ f \in [DOMAIN l.receivables -> Receivable] /\ DOMAIN f = DOMAIN l.receivables
      /\ f[d] = [l.receivables[d] EXCEPT !.paid = date]
      /\ \A x \in DOMAIN l.receivables : x # d => f[x] = l.receivables[x]
  BY <1>1, <1>2 DEF Receivable
<1>4. c \in Nat /\ l.receivables[d].amount \in Nat /\ l.cash \in Nat
  BY <1>1, <1>2 DEF Receivable
<1>5. /\ a \in Seq(Range(a)) /\ DOMAIN a = 1 .. n + 1 /\ Len(a) = n + 1 /\ a[n + 1] = e
      /\ \A i \in 1 .. n : a[i] = l.events[i]
      /\ n \in Nat /\ DOMAIN l.events = 1 .. n
  BY <1>1, AppendToRange, LenProperties
<1>6. /\ e.kind = "dividend" /\ e.date = date /\ e.notional = l.receivables[d].amount
      /\ e.fees = 0 /\ e.before = l.cash /\ e.after = c
  BY DEF Payment
<1>7. u = [l EXCEPT !.cash = c, !.events = a, !.receivables = f]
  <2>1. u = [l EXCEPT !.cash = e.after, !.events = a, !.receivables = f]
    BY DEF PayOne
  <2> HIDE DEF u, a, f, c, e
  <2> QED BY <1>6, <2>1
<1> HIDE DEF u, e, n, a, f, c
<1>8. /\ u.initial = l.initial /\ u.cash = c /\ u.lots = l.lots
      /\ u.events = a /\ u.receivables = f /\ u.snapshots = l.snapshots
      /\ u \in [initial : Nat, cash : Nat, lots : Seq(Lot), events : Seq(Range(a)),
                receivables : [DOMAIN l.receivables -> Receivable],
                snapshots : Seq(Range(l.snapshots))]
  BY <1>1, <1>3, <1>4, <1>5, <1>7
<1>9. \A i \in DOMAIN a :
          /\ a[i].kind \in {"fill", "dividend"}
          /\ {a[i].date, a[i].notional, a[i].fees, a[i].before, a[i].after} \subseteq Nat
  <2> SUFFICES ASSUME NEW i \in 1 .. n + 1
               PROVE /\ a[i].kind \in {"fill", "dividend"}
                     /\ {a[i].date, a[i].notional, a[i].fees, a[i].before, a[i].after}
                           \subseteq Nat
    BY <1>5
  <2>1. CASE i = n + 1
    BY <1>4, <1>5, <1>6, <2>1
  <2>2. CASE i \in 1 .. n
    BY <1>1, <1>5, <2>2, SMTT(30)
  <2> QED BY <1>5, <2>1, <2>2
<1>10. LedgerType(u)
  BY <1>1, <1>3, <1>8, <1>9 DEF LedgerType
<1> QED BY <1>3, <1>5, <1>8, <1>10 DEF u, e, n, c

\* pay_receivables: one payment keeps the ledger typed and only adds to it.
LEMMA PayOneTyped ==
    ASSUME NEW l, LedgerType(l), NEW date \in Nat, NEW d, IsDue(l, d, date)
    PROVE  LedgerType(PayOne(l, d, date)) /\ OnlyPays(l, PayOne(l, d, date))
<1> DEFINE u == PayOne(l, d, date)
           e == Payment(l, d, date)
           n == Len(l.events)
           r == l.receivables[d]
<1>1. /\ LedgerType(u)
      /\ u.initial = l.initial /\ u.cash = l.cash + r.amount
      /\ u.lots = l.lots /\ u.snapshots = l.snapshots
      /\ Len(u.events) = n + 1 /\ DOMAIN u.events = 1 .. n + 1
      /\ u.events[n + 1] = e
      /\ \A i \in 1 .. n : u.events[i] = l.events[i]
      /\ DOMAIN u.receivables = DOMAIN l.receivables
      /\ u.receivables[d] = [r EXCEPT !.paid = date]
      /\ \A x \in DOMAIN l.receivables : x # d => u.receivables[x] = l.receivables[x]
  BY PaidFields
<1>2. n \in Nat /\ DOMAIN l.events = 1 .. n
  BY LedgerFields
<1>3. e.kind = "dividend"
  BY DEF Payment
<1> HIDE DEF u, n, e
<1>4. \A i \in 1 .. n : i \in 1 .. n + 1
  BY <1>2
<1>5. \A i \in 1 .. n + 1 : i \in 1 .. n \/ i = n + 1
  BY <1>2
<1>6. \A i \in DOMAIN u.events : u.events[i].kind = "fill" => i \in DOMAIN l.events
  BY <1>1, <1>2, <1>3, <1>5
<1> QED BY <1>1, <1>2, <1>4, <1>6 DEF OnlyPays, u

\* pay_receivables: one payment in order leaves a ledger that replays and is
\* ready for the next payment of the same date.
LEMMA PayOneReady ==
    ASSUME NEW l, NEW date \in Nat, PayReady(l, date), NEW d, IsDue(l, d, date)
    PROVE  PayReady(PayOne(l, d, date), date)
<1> DEFINE u == PayOne(l, d, date)
           e == Payment(l, d, date)
           n == Len(l.events)
           r == l.receivables[d]
<1>1. LedgerType(l) /\ Verified(l) /\ ~OutOfOrder(l, date)
  BY DEF PayReady
<1>2. /\ LedgerType(u)
      /\ u.initial = l.initial /\ u.cash = l.cash + r.amount
      /\ u.lots = l.lots /\ u.snapshots = l.snapshots
      /\ Len(u.events) = n + 1 /\ DOMAIN u.events = 1 .. n + 1
      /\ u.events[n + 1] = e
      /\ \A i \in 1 .. n : u.events[i] = l.events[i]
      /\ DOMAIN u.receivables = DOMAIN l.receivables
      /\ u.receivables[d] = [r EXCEPT !.paid = date]
      /\ \A x \in DOMAIN l.receivables : x # d => u.receivables[x] = l.receivables[x]
  BY <1>1, PaidFields
<1>3. /\ n \in Nat /\ DOMAIN l.events = 1 .. n
      /\ l.events = <<>> <=> n = 0
      /\ l.cash \in Nat /\ Len(l.lots) \in Nat
      /\ \A i \in 1 .. n : l.events[i].date \in Nat
      /\ DOMAIN l.snapshots = 1 .. Len(l.snapshots)
      /\ \A i \in 1 .. Len(l.snapshots) : l.snapshots[i].date \in Nat
      /\ \A i \in 1 .. n + 1 : i = n + 1 \/ i \in 1 .. n
      /\ n + 1 \in 1 .. n + 1
      /\ \A i \in 1 .. n : i \in 1 .. n + 1
      /\ u.events # <<>>
  BY <1>1, <1>2, LedgerFields
<1>4. /\ d \in DOMAIN l.receivables /\ r.paid = NoDate /\ r.actual = date
      /\ d \in ReceivableIds /\ r \in Receivable
  BY <1>1 DEF IsDue, LedgerType
<1>5. /\ u.receivables[d].symbol = r.symbol /\ u.receivables[d].registered = r.registered
      /\ u.receivables[d].payable = r.payable /\ u.receivables[d].actual = r.actual
      /\ u.receivables[d].amount = r.amount /\ u.receivables[d].paid = date
      /\ r.amount \in Nat /\ r.registered \in Nat
  BY <1>2, <1>4 DEF Receivable
<1>6. /\ e.id = CashId(d) /\ e.kind = "dividend" /\ e.date = date /\ e.symbol = r.symbol
      /\ e.ref = d /\ e.notional = r.amount /\ e.before = l.cash /\ e.fees = 0
      /\ e.after = l.cash + r.amount
  BY DEF Payment
<1>7. /\ \A i \in 1 .. n : l.events[i].date <= date
      /\ \A i \in 1 .. Len(l.snapshots) : l.snapshots[i].date < date
  BY <1>1, InOrder
<1>8. date # NoDate
  <2>1. r.registered <= r.payable /\ r.payable <= r.actual /\ ReceivableOK(r)
    BY <1>1, <1>4 DEF Verified, EntriesValid, ReceivableOK
  <2> QED BY <1>4, <2>1 DEF NoDate, Receivable
<1> HIDE DEF u, e, n, r
<1>9. /\ n \in Nat /\ DOMAIN u.events = 1 .. n + 1 /\ DOMAIN l.events = 1 .. n
      /\ u.events[n + 1] = e
      /\ \A i \in 1 .. n : u.events[i] = l.events[i]
      /\ \A i \in 1 .. n + 1 : i = n + 1 \/ i \in 1 .. n
      /\ n + 1 \in 1 .. n + 1
      /\ \A i \in 1 .. n : i \in 1 .. n + 1
  BY <1>2, <1>3
<1>10. EntriesValid(u)
  <2>1. \A k \in DOMAIN u.lots : LotOK(u.lots[k])
    BY <1>1, <1>2 DEF EntriesValid, Verified
  <2>2. ReceivableOK(r)
    BY <1>1, <1>4 DEF EntriesValid, Verified, r
  <2>3. \A x \in DOMAIN u.receivables : ReceivableOK(u.receivables[x])
    BY <1>1, <1>2, <1>4, <1>5, <2>2 DEF EntriesValid, Verified, ReceivableOK
  <2>4. \A i \in 1 .. n + 1 : u.events[i].notional > 0
    BY <1>1, <1>2, <1>3, <1>6, <2>2 DEF EntriesValid, Verified, ReceivableOK
  <2> QED BY <1>2, <2>1, <2>3, <2>4 DEF EntriesValid
<1>11. CashReplays(u)
  <2>1. l.cash = IF n = 0 THEN l.initial ELSE l.events[n].after
    BY <1>1, <1>3 DEF Verified, CashReplays, n
  <2>2. ASSUME NEW i \in 1 .. n + 1
        PROVE  /\ u.events[i].before = IF i = 1 THEN u.initial ELSE u.events[i-1].after
               /\ u.events[i].after = Settled(u.events[i])
               /\ u.events[i].after >= 0
    <3>1. CASE i = n + 1
      <4>1. u.events[i] = e /\ e.after = Settled(e) /\ e.after >= 0
        BY <1>2, <1>3, <1>5, <1>6, <3>1 DEF Settled
      <4>2. e.before = IF i = 1 THEN u.initial ELSE u.events[i-1].after
        BY <1>2, <1>3, <1>6, <2>1, <3>1, SMTT(30)
      <4> QED BY <4>1, <4>2
    <3>2. CASE i \in 1 .. n
      <4>1. u.events[i] = l.events[i] /\ (i # 1 => u.events[i-1] = l.events[i-1])
        BY <1>9, <3>2
      <4> QED BY <1>1, <1>2, <1>3, <3>2, <4>1 DEF Verified, CashReplays
    <3> QED BY <1>3, <3>1, <3>2
  <2> QED BY <1>2, <1>3, <1>6, <2>2 DEF CashReplays
<1>12. EventsInOrder(u)
  <2>1. \A i \in 1 .. n : l.events[i].id # CashId(d)
    BY <1>3, <1>4 DEF EventIds, PayReady
  <2>2. \A i, j \in 1 .. n : i < j =>
           l.events[i].date <= l.events[j].date /\ l.events[i].id # l.events[j].id
    BY <1>1, <1>3 DEF EventsInOrder, Verified
  <2>3. \A i, j \in 1 .. n + 1 : i < j => i \in 1 .. n
    BY <1>9
  <2> QED BY <1>6, <1>7, <1>9, <2>1, <2>2, <2>3 DEF EventsInOrder
<1>13. FillsMatchLots(u)
  <2>1. \A i \in 1 .. n + 1 : u.events[i].kind = "fill" =>
           i \in 1 .. n /\ u.events[i] = l.events[i]
    BY <1>2, <1>3, <1>6
  <2>2. FillsMatchLots(l)
    BY <1>1 DEF Verified
  <2>3. \A k \in DOMAIN u.lots : \E i \in DOMAIN u.events :
           u.events[i].kind = "fill" /\ u.events[i].ref = u.lots[k].id
    <3> SUFFICES ASSUME NEW k \in DOMAIN l.lots
                 PROVE  \E i \in 1 .. n + 1 :
                           u.events[i].kind = "fill" /\ u.events[i].ref = l.lots[k].id
      BY <1>2
    <3>1. PICK i \in 1 .. n : l.events[i].kind = "fill" /\ l.events[i].ref = l.lots[k].id
      BY <1>3, <2>2 DEF FillsMatchLots
    <3> QED BY <1>9, <3>1
  <2>4. \A i, j \in 1 .. n + 1 :
           /\ u.events[i].kind = "fill" /\ u.events[j].kind = "fill"
           /\ u.events[i].ref = u.events[j].ref
           => i = j
    BY <1>9, <2>1, <2>2, SMTT(30) DEF FillsMatchLots
  <2>5. \A i \in 1 .. n + 1 : u.events[i].kind = "fill" =>
           \E k \in DOMAIN l.lots : FillMatches(u.events[i], l.lots[k])
    BY <1>9, <2>1, <2>2 DEF FillsMatchLots
  <2>6. \A i, j \in DOMAIN u.lots : u.lots[i].id = u.lots[j].id => i = j
    BY <1>2, <2>2 DEF FillsMatchLots
  <2> QED BY <1>2, <2>3, <2>4, <2>5, <2>6 DEF FillsMatchLots
<1>14. PaymentsMatchReceivables(u)
  <2>1. \A i \in 1 .. n : l.events[i].kind = "dividend" => l.events[i].ref # d
    BY <1>1, <1>3, <1>4 DEF Verified, PaymentsMatchReceivables, r
  <2>2. \A i, j \in 1 .. n + 1 :
           /\ u.events[i].kind = "dividend" /\ u.events[j].kind = "dividend"
           /\ u.events[i].ref = u.events[j].ref
           => i = j
    <3>1. \A i, j \in 1 .. n :
             /\ l.events[i].kind = "dividend" /\ l.events[j].kind = "dividend"
             /\ l.events[i].ref = l.events[j].ref
             => i = j
      BY <1>1, <1>3 DEF Verified, PaymentsMatchReceivables
    <3> QED BY <1>6, <1>9, <2>1, <3>1, SMTT(30)
  <2>3. ASSUME NEW i \in 1 .. n + 1, u.events[i].kind = "dividend"
        PROVE  /\ u.events[i].ref \in DOMAIN u.receivables
               /\ u.receivables[u.events[i].ref].paid # NoDate
               /\ PaymentMatches(u.events[i], u.receivables[u.events[i].ref])
    <3>1. CASE i = n + 1
      BY <1>2, <1>4, <1>5, <1>6, <1>8, <3>1 DEF PaymentMatches
    <3>2. CASE i \in 1 .. n
      <4>1. u.events[i] = l.events[i] /\ l.events[i].ref # d
        BY <1>2, <2>1, <2>3, <3>2
      <4>2. /\ l.events[i].ref \in DOMAIN l.receivables
            /\ l.receivables[l.events[i].ref].paid # NoDate
            /\ PaymentMatches(l.events[i], l.receivables[l.events[i].ref])
        BY <1>1, <1>3, <2>3, <3>2, <4>1 DEF Verified, PaymentsMatchReceivables
      <4> QED BY <1>2, <4>1, <4>2
    <3> QED BY <1>3, <3>1, <3>2
  <2>4. ASSUME NEW x \in DOMAIN l.receivables, u.receivables[x].paid # NoDate
        PROVE  \E i \in 1 .. n + 1 :
                  u.events[i].kind = "dividend" /\ u.events[i].ref = x
    <3>1. CASE x = d
      BY <1>2, <1>3, <1>6, <3>1
    <3>2. CASE x # d
      <4>1. l.receivables[x].paid # NoDate
        BY <1>2, <2>4, <3>2
      <4>2. PICK i \in 1 .. n : l.events[i].kind = "dividend" /\ l.events[i].ref = x
        BY <1>1, <1>3, <4>1 DEF Verified, PaymentsMatchReceivables
      <4> QED BY <1>2, <1>3, <4>2
    <3> QED BY <3>1, <3>2
  <2> QED BY <1>2, <2>2, <2>3, <2>4 DEF PaymentsMatchReceivables
<1>15. SnapshotsReconcile(u)
  <2>1. ASSUME NEW i \in 1 .. Len(l.snapshots)
        PROVE  SnapshotReconciles(u, l.snapshots[i])
    <3> DEFINE day == l.snapshots[i].date
    <3>1. day \in Nat /\ day < date /\ SnapshotReconciles(l, l.snapshots[i])
      BY <1>1, <1>3, <1>7 DEF Verified, SnapshotsReconcile
    <3> HIDE DEF day
    <3>2. LotsGrow(l, u, day) /\ EventsGrow(l, u, day)
      <4>1. Len(l.events) = n /\ Len(u.events) = n + 1 /\ u.lots = l.lots
        BY <1>2, <1>3 DEF n
      <4>2. \A j \in 1 .. n + 1 : j > n => u.events[j].date > day
        <5>1. \A j \in 1 .. n + 1 : j > n => j = n + 1
          BY <1>3
        <5>2. u.events[n + 1].date > day
          BY <1>6, <1>9, <3>1
        <5> QED BY <5>1, <5>2
      <4>3. EventsGrow(l, u, day)
        BY <1>3, <1>9, <4>1, <4>2 DEF EventsGrow
      <4>4. LotsGrow(l, u, day)
        BY <1>3, <4>1 DEF LotsGrow
      <4> QED BY <4>3, <4>4
    <3> USE DEF day
    <3>3. OverdueBy(u, day) => OverdueBy(l, day)
      BY <1>2, <1>4, <1>5, <1>8 DEF OverdueBy
    <3>4. Outstanding(u, day) = Outstanding(l, day)
      <4> DEFINE open(v) == {x \in DOMAIN v.receivables :
                              /\ v.receivables[x].registered <= day
                              /\ \/ v.receivables[x].paid = NoDate
                                 \/ v.receivables[x].paid > day}
      <4>1. open(u) = open(l)
        BY <1>2, <1>4, <1>5, <3>1 DEF r
      <4>2. \A x \in open(l) : u.receivables[x].amount = l.receivables[x].amount
        BY <1>2, <1>5 DEF r
      <4>3. [x \in open(u) |-> u.receivables[x].amount]
            = [x \in open(l) |-> l.receivables[x].amount]
        <5> HIDE DEF open
        <5> QED BY <4>1, <4>2
      <4> QED BY <4>3 DEF Outstanding
    <3> HIDE DEF day
    <3> QED BY <1>1, <1>2, <3>1, <3>2, <3>3, <3>4, SnapshotStands DEF day
  <2> QED BY <1>1, <1>2, <1>3, <2>1 DEF Verified, SnapshotsReconcile
<1>16. Verified(u)
  BY <1>10, <1>11, <1>12, <1>13, <1>14, <1>15 DEF Verified
<1>17. ~OutOfOrder(u, date)
  BY <1>1, <1>2, <1>6 DEF OutOfOrder, Closed
<1>18. ASSUME NEW x \in ReceivableIds, IsDue(u, x, date)
       PROVE  CashId(x) \notin EventIds(u)
  <2>1. x # d
    BY <1>5, <1>8, <1>18 DEF IsDue
  <2>2. IsDue(l, x, date)
    BY <1>2, <1>18, <2>1 DEF IsDue
  <2>3. CashId(x) \notin EventIds(l) /\ CashId(x) # CashId(d)
    BY <2>1, <2>2 DEF PayReady, CashId
  <2>4. \A i \in 1 .. n + 1 : u.events[i].id # CashId(x)
    BY <1>2, <1>3, <1>6, <2>3, SMTT(30) DEF EventIds
  <2> QED BY <1>2, <2>4 DEF EventIds
<1> QED BY <1>2, <1>16, <1>17, <1>18 DEF PayReady, u

\* One turn of the loop: the k-th receivable is paid if it is due.
PayTurn(x, k, date) ==
    IF IsDue(x, PayOrder[k], date) THEN PayOne(x, PayOrder[k], date) ELSE x

\* The recursive function of PaidUpTo exists and satisfies its equation.
LEMMA PaidUpToDef ==
    ASSUME NEW l, NEW date
    PROVE  PaidUpTo(l, date) =
              [k \in 0 .. Len(PayOrder) |->
                 IF k = 0 THEN l ELSE PayTurn(PaidUpTo(l, date)[k-1], k, date)]
<1> DEFINE Body(f, n) == [k \in 0 .. n |-> IF k = 0 THEN l ELSE PayTurn(f[k-1], k, date)]
           T == {n \in Nat : ~\E f : f = Body(f, n)}
<1>1. \E f : f = Body(f, 0)
  <2> DEFINE g == [k \in 0 .. 0 |-> l]
  <2>1. \A k \in 0 .. 0 : k = 0
    OBVIOUS
  <2>2. g = Body(g, 0)
    BY <2>1
  <2> QED BY <2>2
<1>2. ASSUME NEW n \in Nat, NEW f, f = Body(f, n)
      PROVE  \E g : g = Body(g, n + 1)
  <2> DEFINE g == [k \in 0 .. n + 1 |-> IF k = n + 1 THEN PayTurn(f[n], n + 1, date) ELSE f[k]]
             h == Body(g, n + 1)
  <2>1. \A k \in 0 .. n : f[k] = IF k = 0 THEN l ELSE PayTurn(f[k-1], k, date)
    <3> DEFINE b == Body(f, n)
    <3>1. \A k \in 0 .. n : b[k] = IF k = 0 THEN l ELSE PayTurn(f[k-1], k, date)
      OBVIOUS
    <3> HIDE DEF b
    <3> QED BY <1>2, <3>1 DEF b
  <2>2. \A k \in 0 .. n + 1 : g[k] = h[k]
    <3> SUFFICES ASSUME NEW k \in 0 .. n + 1 PROVE g[k] = h[k]
      OBVIOUS
    <3>1. CASE k = n + 1
      <4>1. g[k] = PayTurn(f[n], n + 1, date) /\ g[n] = f[n]
        BY <3>1
      <4>2. h[k] = PayTurn(g[n], n + 1, date)
        BY <3>1
      <4> QED BY <4>1, <4>2
    <3>2. CASE k = 0
      BY <2>1, <3>2
    <3>3. CASE k \in 1 .. n
      <4>1. g[k] = f[k] /\ g[k-1] = f[k-1]
        BY <3>3
      <4>2. h[k] = PayTurn(g[k-1], k, date)
        BY <3>3
      <4> QED BY <2>1, <3>3, <4>1, <4>2
    <3> QED BY <3>1, <3>2, <3>3
  <2>3. g = h
    <3> g = [k \in 0 .. n + 1 |-> g[k]] /\ h = [k \in 0 .. n + 1 |-> h[k]]
      OBVIOUS
    <3> HIDE DEF g, h
    <3> QED BY <2>2
  <2> HIDE DEF g
  <2> QED BY <2>3
<1>3. T = {}
  <2> SUFFICES ASSUME T # {} PROVE FALSE
    OBVIOUS
  <2>1. T \subseteq Nat
    OBVIOUS
  <2>2. PICK m \in T : \A k \in T : m <= k
    <3> HIDE DEF T
    <3> QED BY <2>1, NatMin
  <2>3. m # 0
    BY <1>1, <2>2
  <2>4. m - 1 \in Nat /\ m - 1 \notin T
    <3>1. m \in Nat
      BY <2>2
    <3>2. m - 1 \in Nat /\ ~(m <= m - 1)
      BY <2>3, <3>1
    <3> HIDE DEF T
    <3> QED BY <2>2, <3>2
  <2>5. PICK f : f = Body(f, m - 1)
    BY <2>4
  <2>6. \E g : g = Body(g, m - 1 + 1)
    <3> HIDE DEF Body
    <3> QED BY <1>2, <2>4, <2>5
  <2>7. m - 1 + 1 = m
    BY <2>2
  <2> HIDE DEF Body
  <2> QED BY <2>2, <2>6, <2>7
<1>4. Len(PayOrder) \in Nat
  BY PayOrderAssumption, LenProperties
<1>5. \E f : f = Body(f, Len(PayOrder))
  <2> HIDE DEF Body
  <2> QED BY <1>3, <1>4
<1>6. PaidUpTo(l, date) = CHOOSE f : f = Body(f, Len(PayOrder))
  BY DEF PaidUpTo, PayTurn
<1>7. PaidUpTo(l, date) = Body(PaidUpTo(l, date), Len(PayOrder))
  <2> HIDE DEF Body
  <2> QED BY <1>5, <1>6
<1> QED BY <1>7

\* pay_receivables: by induction over PayOrder, the whole loop keeps the ledger
\* typed, and keeps it replaying when the call is in order.
LEMMA PaidReady ==
    ASSUME NEW l, NEW date \in Nat, LedgerType(l)
    PROVE  /\ LedgerType(Paid(l, date)) /\ OnlyPays(l, Paid(l, date))
           /\ PayReady(l, date) => PayReady(Paid(l, date), date)
<1> DEFINE f == PaidUpTo(l, date)
           N == Len(PayOrder)
           Good(x) == /\ LedgerType(x) /\ OnlyPays(l, x)
                      /\ PayReady(l, date) => PayReady(x, date)
           T == {k \in 0 .. N : ~Good(f[k])}
<1>1. N \in Nat
  BY PayOrderAssumption, LenProperties
<1>2. /\ f[0] = l
      /\ \A k \in 1 .. N : f[k] = PayTurn(f[k-1], k, date)
  BY <1>1, PaidUpToDef
<1>3. Good(l)
  BY DEF OnlyPays
<1>4. ASSUME NEW x, NEW k, Good(x) PROVE Good(PayTurn(x, k, date))
  <2>1. CASE IsDue(x, PayOrder[k], date)
    <3>1. /\ LedgerType(PayOne(x, PayOrder[k], date))
          /\ OnlyPays(x, PayOne(x, PayOrder[k], date))
      BY <1>4, <2>1, PayOneTyped
    <3>2. PayReady(x, date) => PayReady(PayOne(x, PayOrder[k], date), date)
      BY <2>1, PayOneReady
    <3>3. OnlyPays(l, PayOne(x, PayOrder[k], date))
      BY <1>4, <3>1 DEF OnlyPays
    <3> QED BY <1>4, <2>1, <3>1, <3>3, <3>2 DEF PayTurn
  <2>2. CASE ~IsDue(x, PayOrder[k], date)
    BY <1>4, <2>2 DEF PayTurn
  <2> QED BY <2>1, <2>2
<1> HIDE DEF f, Good, N
<1>5. T = {}
  <2> SUFFICES ASSUME T # {} PROVE FALSE
    OBVIOUS
  <2>1. T \subseteq Nat
    BY <1>1
  <2>2. PICK m \in T : \A k \in T : m <= k
    <3> HIDE DEF T
    <3> QED BY <2>1, NatMin
  <2>3. m \in 0 .. N /\ ~Good(f[m])
    BY <2>2
  <2>4. m # 0
    BY <1>2, <1>3, <2>3
  <2>5. m \in 1 .. N /\ m - 1 \in 0 .. N /\ ~(m <= m - 1)
    BY <1>1, <2>3, <2>4
  <2>6. Good(f[m-1])
    BY <2>2, <2>5
  <2> QED BY <1>2, <1>4, <2>3, <2>5, <2>6
<1>6. Good(f[N])
  BY <1>1, <1>5
<1> QED BY <1>6 DEF Good, Paid, f, N

-----------------------------------------------------------------------------
(* The steps *)

\* What one call does to the past: it keeps every snapshot and every event.
KeepsHistory(l, u) ==
    /\ \A i \in DOMAIN l.snapshots : i \in DOMAIN u.snapshots /\ u.snapshots[i] = l.snapshots[i]
    /\ \A i \in DOMAIN l.events : i \in DOMAIN u.events /\ u.events[i] = l.events[i]

\* A refused call changes nothing.
LEMMA RefuseStep ==
    ASSUME LedgerInv, NEW date \in Nat, Refuse(date)
    PROVE  LedgerInv' /\ ReplayOnlyCatchesOutOfOrder' /\ KeepsHistory(ledger, ledger')
<1>1. ledger' = ledger /\ reply' = "refused" /\ asOf' = date
  BY DEF Refuse
<1>2. LedgerInv'
  BY <1>1 DEF LedgerInv, TypeOK
<1> QED BY <1>1, <1>2 DEF ReplayOnlyCatchesOutOfOrder, KeepsHistory

\* The end every operation shares: the replay, and the ledger handed back.
LEMMA AnswerStep ==
    ASSUME LedgerInv, NEW date \in Nat, NEW u, Answer(u, date), LedgerType(u),
           KeepsHistory(ledger, u), ~OutOfOrder(ledger, date) => Verified(u)
    PROVE  LedgerInv' /\ ReplayOnlyCatchesOutOfOrder' /\ KeepsHistory(ledger, ledger')
<1>1. asOf' = date
  BY DEF Answer
<1>2. CASE Verified(u) /\ ledger' = u /\ reply' = "ok"
  <2>1. LedgerInv'
    BY <1>1, <1>2 DEF LedgerInv, TypeOK
  <2> QED BY <1>2, <2>1 DEF ReplayOnlyCatchesOutOfOrder
<1>3. CASE ~Verified(u) /\ ledger' = ledger /\ reply' = "unreconciled"
  <2>1. LedgerInv'
    BY <1>1, <1>3 DEF LedgerInv, TypeOK
  <2>2. OutOfOrder(ledger', asOf')
    BY <1>1, <1>3
  <2> QED BY <1>3, <2>1, <2>2 DEF ReplayOnlyCatchesOutOfOrder, KeepsHistory
<1> QED BY <1>2, <1>3 DEF Answer

\* post_buy keeps the three invariants.
LEMMA BuyStep ==
    ASSUME LedgerInv, NEW p \in Postings, PostBuy(p)
    PROVE  LedgerInv' /\ ReplayOnlyCatchesOutOfOrder' /\ KeepsHistory(ledger, ledger')
<1>1. /\ LedgerType(ledger) /\ Verified(ledger)
      /\ p.lot \in Lot /\ p.fees \in Nat /\ p.lot.acquired \in Nat
  BY PostingsAssumption DEF LedgerInv, TypeOK, Lot
<1>2. CASE BuyRefused(ledger, p) /\ Refuse(p.lot.acquired)
  BY <1>1, <1>2, RefuseStep
<1>3. CASE ~BuyRefused(ledger, p) /\ Answer(Bought(ledger, p), p.lot.acquired)
  <2> DEFINE u == Bought(ledger, p)
  <2>1. /\ LedgerType(u) /\ u.snapshots = ledger.snapshots
        /\ Len(u.events) = Len(ledger.events) + 1
        /\ \A i \in 1 .. Len(ledger.events) : u.events[i] = ledger.events[i]
    BY <1>1, <1>3, BoughtFields
  <2> HIDE DEF u
  <2>2. KeepsHistory(ledger, u)
    <3>1. /\ Len(ledger.events) \in Nat /\ DOMAIN ledger.events = 1 .. Len(ledger.events)
          /\ DOMAIN u.events = 1 .. Len(u.events)
      BY <1>1, <2>1, LedgerFields
    <3> QED BY <2>1, <3>1 DEF KeepsHistory
  <2>3. ~OutOfOrder(ledger, p.lot.acquired) => Verified(u)
    BY <1>1, <1>3, BoughtVerified DEF u
  <2>4. Answer(u, p.lot.acquired)
    BY <1>3 DEF u
  <2> QED BY <1>1, <2>1, <2>2, <2>3, <2>4, AnswerStep
<1> QED BY <1>2, <1>3 DEF PostBuy

\* register_receivable keeps them.
LEMMA RegisterStep ==
    ASSUME LedgerInv, NEW d \in ReceivableIds, NEW r \in Receivable, RegisterReceivable(d, r)
    PROVE  LedgerInv' /\ ReplayOnlyCatchesOutOfOrder' /\ KeepsHistory(ledger, ledger')
<1>1. LedgerType(ledger) /\ Verified(ledger) /\ r.registered \in Nat
  BY DEF LedgerInv, TypeOK, Receivable
<1>2. CASE RegisterRefused(ledger, d, r) /\ Refuse(r.registered)
  BY <1>1, <1>2, RefuseStep
<1>3. CASE ~RegisterRefused(ledger, d, r)
           /\ Answer(Registered(ledger, d, r), r.registered)
  <2>1. /\ LedgerType(Registered(ledger, d, r))
        /\ Registered(ledger, d, r).snapshots = ledger.snapshots
        /\ Registered(ledger, d, r).events = ledger.events
    BY <1>1, RegisteredFields
  <2>2. KeepsHistory(ledger, Registered(ledger, d, r))
    BY <2>1 DEF KeepsHistory
  <2>3. Verified(Registered(ledger, d, r))
    BY <1>1, <1>3, RegisteredVerified
  <2> QED BY <1>1, <1>3, <2>1, <2>2, <2>3, AnswerStep
<1> QED BY <1>2, <1>3 DEF RegisterReceivable

\* pay_receivables keeps them.
LEMMA PayStep ==
    ASSUME LedgerInv, NEW date \in Nat, PayReceivables(date)
    PROVE  LedgerInv' /\ ReplayOnlyCatchesOutOfOrder' /\ KeepsHistory(ledger, ledger')
<1>1. LedgerType(ledger) /\ Verified(ledger)
  BY DEF LedgerInv, TypeOK
<1>2. CASE PayRefused(ledger, date) /\ Refuse(date)
  BY <1>2, RefuseStep
<1>3. CASE ~PayRefused(ledger, date) /\ Answer(Paid(ledger, date), date)
  <2>1. LedgerType(Paid(ledger, date)) /\ OnlyPays(ledger, Paid(ledger, date))
    BY <1>1, PaidReady
  <2>2. KeepsHistory(ledger, Paid(ledger, date))
    BY <2>1 DEF OnlyPays, KeepsHistory
  <2>3. ~OutOfOrder(ledger, date) => Verified(Paid(ledger, date))
    <3> SUFFICES ASSUME ~OutOfOrder(ledger, date) PROVE Verified(Paid(ledger, date))
      OBVIOUS
    <3>1. PayReady(ledger, date)
      BY <1>1, <1>3 DEF PayReady, PayRefused
    <3> QED BY <1>1, <3>1, PaidReady DEF PayReady
  <2> QED BY <1>3, <2>1, <2>2, <2>3, AnswerStep
<1> QED BY <1>2, <1>3 DEF PayReceivables

\* close_session keeps them.
LEMMA CloseStep ==
    ASSUME LedgerInv, NEW date \in Nat, NEW v, CloseSession(date, v)
    PROVE  LedgerInv' /\ ReplayOnlyCatchesOutOfOrder' /\ KeepsHistory(ledger, ledger')
<1>1. LedgerType(ledger) /\ Verified(ledger)
  BY DEF LedgerInv, TypeOK
<1>2. CASE CloseRefused(ledger, date, v) /\ Refuse(date)
  BY <1>2, RefuseStep
<1>3. CASE ~CloseRefused(ledger, date, v) /\ Answer(ClosedWith(ledger, date, v), date)
  <2> DEFINE u == ClosedWith(ledger, date, v)
             k == Len(ledger.snapshots)
  <2>1. /\ LedgerType(u) /\ u.events = ledger.events
        /\ DOMAIN u.snapshots = 1 .. k + 1
        /\ \A i \in 1 .. k : u.snapshots[i] = ledger.snapshots[i]
    BY <1>1, ClosedFields
  <2> HIDE DEF u
  <2>2. KeepsHistory(ledger, u)
    <3>1. k \in Nat /\ DOMAIN ledger.snapshots = 1 .. k
      BY <1>1, LedgerFields
    <3> HIDE DEF k
    <3> QED BY <2>1, <3>1 DEF KeepsHistory
  <2>3. Verified(u) /\ Answer(u, date)
    BY <1>1, <1>3, ClosedVerified DEF u
  <2> QED BY <2>1, <2>2, <2>3, AnswerStep
<1> QED BY <1>2, <1>3 DEF CloseSession

-----------------------------------------------------------------------------
(* The theorems *)

\* Every call keeps them.
LEMMA NextStep ==
    ASSUME LedgerInv, Next
    PROVE  LedgerInv' /\ ReplayOnlyCatchesOutOfOrder' /\ KeepsHistory(ledger, ledger')
<1>1. CASE \E p \in Postings : PostBuy(p)
  BY <1>1, BuyStep
<1>2. CASE \E g \in Registrations : RegisterReceivable(g[1], g[2])
  BY <1>2, RegisterStep, RegistrationsAssumption
<1>3. CASE \E date \in Dates : PayReceivables(date)
  BY <1>3, PayStep, DatesAssumption
<1>4. CASE \E date, view \in Dates, mark \in [Symbols -> Marks] :
              CloseSession(date, ValuationsAt(ledger, view, mark))
  BY <1>4, CloseStep, DatesAssumption
<1> QED BY <1>1, <1>2, <1>3, <1>4 DEF Next

\* The ledger create_portfolio_ledger returns replays.
LEMMA InitReplays == Init => LedgerInv /\ ReplayOnlyCatchesOutOfOrder
<1> SUFFICES ASSUME Init PROVE LedgerInv /\ ReplayOnlyCatchesOutOfOrder
  OBVIOUS
<1> DEFINE l == CreateLedger(InitialCash)
<1>1. ledger = l /\ reply = "ok" /\ asOf = 0
  BY DEF Init, NoDate
<1>2. /\ l.initial = InitialCash /\ l.cash = InitialCash /\ InitialCash \in Nat
      /\ l.lots = <<>> /\ l.events = <<>> /\ l.receivables = <<>> /\ l.snapshots = <<>>
  BY InitialCashAssumption DEF CreateLedger
<1>3. DOMAIN <<>> = {} /\ Range(<<>>) = {}
  BY DEF Range
<1>4. LedgerType(l)
  <2>1. <<>> \in [DOMAIN <<>> -> Receivable]
    BY <1>3
  <2>2. l \in [initial : Nat, cash : Nat, lots : Seq(Lot), events : Seq(Range(<<>>)),
               receivables : [DOMAIN <<>> -> Receivable], snapshots : Seq(Range(<<>>))]
    BY <1>2, <1>3, <2>1, EmptySeq DEF CreateLedger
  <2> QED BY <1>2, <1>3, <2>2 DEF LedgerType
<1>5. Verified(l)
  BY <1>2, <1>3 DEF Verified, EntriesValid, CashReplays, EventsInOrder, FillsMatchLots,
                    PaymentsMatchReceivables, SnapshotsReconcile
<1> QED BY <1>1, <1>4, <1>5 DEF LedgerInv, TypeOK, ReplayOnlyCatchesOutOfOrder

\* Whatever sequence of calls a caller makes, the ledger it holds is well typed
\* and replays.
THEOREM LedgerAlwaysReplays == Spec => []LedgerInv
<1>1. Init => LedgerInv
  BY InitReplays
<1>2. LedgerInv /\ [Next]_ledgerVars => LedgerInv'
  <2> SUFFICES ASSUME LedgerInv, [Next]_ledgerVars PROVE LedgerInv'
    OBVIOUS
  <2>1. CASE Next
    BY <2>1, NextStep
  <2>2. CASE UNCHANGED ledgerVars
    BY <2>2 DEF ledgerVars, LedgerInv, TypeOK
  <2> QED BY <2>1, <2>2
<1> QED BY <1>1, <1>2, PTL DEF Spec

\* The checks at the head of post_buy, register_receivable, pay_receivables and
\* close_session are complete for an in-order caller: the replay each of them
\* ends with can fail only for a date before something already recorded.
THEOREM InOrderCallsReplay == Spec => []ReplayOnlyCatchesOutOfOrder
<1>1. Init => ReplayOnlyCatchesOutOfOrder
  BY InitReplays
<1>2. LedgerInv /\ ReplayOnlyCatchesOutOfOrder /\ [Next]_ledgerVars
      => ReplayOnlyCatchesOutOfOrder'
  <2> SUFFICES ASSUME LedgerInv, ReplayOnlyCatchesOutOfOrder, [Next]_ledgerVars
               PROVE  ReplayOnlyCatchesOutOfOrder'
    OBVIOUS
  <2>1. CASE Next
    BY <2>1, NextStep
  <2>2. CASE UNCHANGED ledgerVars
    BY <2>2 DEF ledgerVars, ReplayOnlyCatchesOutOfOrder
  <2> QED BY <2>1, <2>2
<1> QED BY <1>1, <1>2, LedgerAlwaysReplays, PTL DEF Spec

\* A snapshot pins its day: two ledgers that both replay and share the snapshot
\* have the same positions and the same outstanding receivables on that day.
LEMMA SnapshotPinsDay ==
    ASSUME NEW l, NEW u, Verified(l), Verified(u), KeepsHistory(l, u),
           NEW i \in DOMAIN l.snapshots
    PROVE  LET day == l.snapshots[i].date
           IN  /\ PositionSizes(u, day) = PositionSizes(l, day)
               /\ Outstanding(u, day) = Outstanding(l, day)
<1>1. i \in DOMAIN u.snapshots /\ u.snapshots[i] = l.snapshots[i]
  BY DEF KeepsHistory
<1>2. SnapshotReconciles(l, l.snapshots[i]) /\ SnapshotReconciles(u, l.snapshots[i])
  BY <1>1 DEF Verified, SnapshotsReconcile
<1> QED BY <1>2 DEF SnapshotReconciles

\* No call, however it is dated, changes what a closed day said.
THEOREM ClosedDaysNeverChange == Spec => ClosedDaysStand
<1> DEFINE Stands ==
             /\ \A i \in DOMAIN ledger.snapshots :
                   LET day == ledger.snapshots[i].date
                   IN  /\ PositionSizes(ledger', day) = PositionSizes(ledger, day)
                       /\ Outstanding(ledger', day) = Outstanding(ledger, day)
                       /\ i \in DOMAIN ledger'.snapshots
                       /\ ledger'.snapshots[i] = ledger.snapshots[i]
             /\ \A i \in DOMAIN ledger.events :
                   i \in DOMAIN ledger'.events /\ ledger'.events[i] = ledger.events[i]
<1>1. LedgerInv /\ [Next]_ledgerVars => [Stands]_ledgerVars
  <2> SUFFICES ASSUME LedgerInv, Next PROVE Stands
    OBVIOUS
  <2>1. LedgerInv' /\ KeepsHistory(ledger, ledger')
    BY NextStep
  <2>2. Verified(ledger) /\ Verified(ledger')
    BY <2>1 DEF LedgerInv
  <2> QED BY <2>1, <2>2, SnapshotPinsDay DEF KeepsHistory
<1>2. ClosedDaysStand <=> [][Stands]_ledgerVars
  BY DEF ClosedDaysStand
<1> HIDE DEF Stands
<1> QED BY <1>1, <1>2, LedgerAlwaysReplays, PTL DEF Spec

-----------------------------------------------------------------------------
(* Cash is conserved *)

\* The sum of f over its domain up to k.
SumUpTo(f, k) == SumFunction([i \in {x \in DOMAIN f : x <= k} |-> f[i]])

\* A sum over numbered things grows by the value of each.
LEMMA SumUpToSteps ==
    ASSUME NEW f, Counts(f), NEW n \in Nat, DOMAIN f \subseteq 1 .. n
    PROVE  /\ SumUpTo(f, 0) = 0
           /\ SumUpTo(f, n) = SumFunction(f)
           /\ \A k \in 1 .. n : /\ SumUpTo(f, k - 1) \in Nat
                                /\ k \in DOMAIN f => SumUpTo(f, k) = f[k] + SumUpTo(f, k - 1)
                                /\ k \notin DOMAIN f => SumUpTo(f, k) = SumUpTo(f, k - 1)
<1> DEFINE P(k) == {x \in DOMAIN f : x <= k}
<1>1. \A k : SumUpTo(f, k) = Cardinality(Area(f, P(k))) /\ P(k) \in SUBSET DOMAIN f
  <2> SUFFICES ASSUME NEW k
               PROVE  SumUpTo(f, k) = Cardinality(Area(f, P(k))) /\ P(k) \in SUBSET DOMAIN f
    OBVIOUS
  <2>1. P(k) \in SUBSET DOMAIN f
    OBVIOUS
  <2> HIDE DEF P
  <2>2. SumFunction([i \in P(k) |-> f[i]]) = Cardinality(Area(f, P(k)))
    BY <2>1, SumOfPart
  <2> QED BY <2>1, <2>2 DEF SumUpTo, P
<1>2. P(0) = {} /\ P(n) = DOMAIN f
  OBVIOUS
<1>3. ASSUME NEW k \in 1 .. n
      PROVE  /\ k \in DOMAIN f => P(k - 1) = P(k) \ {k} /\ k \in P(k)
             /\ k \notin DOMAIN f => P(k - 1) = P(k)
  OBVIOUS
<1> HIDE DEF P
<1>4. SumUpTo(f, 0) = 0
  BY <1>1, <1>2, AreaOfNothing, FS_EmptySet
<1>5. SumUpTo(f, n) = SumFunction(f)
  BY <1>1, <1>2, SumIsArea
<1>6. \A k : SumUpTo(f, k) \in Nat
  BY <1>1, AreaFinite, FS_CardinalityType
<1>7. ASSUME NEW k \in 1 .. n, k \in DOMAIN f
      PROVE  SumUpTo(f, k) = f[k] + SumUpTo(f, k - 1)
  <2>1. Cardinality(Area(f, P(k))) = f[k] + Cardinality(Area(f, P(k) \ {k}))
    BY <1>1, <1>3, <1>7, AreaGrows
  <2> QED BY <1>1, <1>3, <1>7, <2>1
<1>8. ASSUME NEW k \in 1 .. n, k \notin DOMAIN f
      PROVE  SumUpTo(f, k) = SumUpTo(f, k - 1)
  BY <1>1, <1>3, <1>8
<1> QED BY <1>4, <1>5, <1>6, <1>7, <1>8

\* The cash events by kind, the paid receivables, and the money in each.
FillsOf(l)    == {i \in DOMAIN l.events : l.events[i].kind = "fill"}
PaymentsOf(l) == {i \in DOMAIN l.events : l.events[i].kind = "dividend"}
PaidOf(l)     == {d \in DOMAIN l.receivables : l.receivables[d].paid # NoDate}
FeesOf(l)     == [i \in FillsOf(l) |-> l.events[i].fees]
CostsOf(l)    == [i \in FillsOf(l) |-> l.events[i].notional]
CreditsOf(l)  == [i \in PaymentsOf(l) |-> l.events[i].notional]

\* They are finite sets of numbers, so they can be added up.
LEMMA FlowsCount ==
    ASSUME NEW l, LedgerType(l)
    PROVE  /\ Counts(FeesOf(l)) /\ Counts(CostsOf(l)) /\ Counts(CreditsOf(l))
           /\ DOMAIN FeesOf(l) \subseteq 1 .. Len(l.events)
           /\ DOMAIN CostsOf(l) \subseteq 1 .. Len(l.events)
           /\ DOMAIN CreditsOf(l) \subseteq 1 .. Len(l.events)
<1>1. /\ Len(l.events) \in Nat /\ DOMAIN l.events = 1 .. Len(l.events)
      /\ \A i \in 1 .. Len(l.events) : l.events[i].notional \in Nat /\ l.events[i].fees \in Nat
  BY LedgerFields
<1>2. IsFiniteSet(1 .. Len(l.events))
  BY <1>1, PrefixFinite
<1>3. /\ FillsOf(l) \subseteq 1 .. Len(l.events) /\ PaymentsOf(l) \subseteq 1 .. Len(l.events)
  BY <1>1 DEF FillsOf, PaymentsOf
<1>4. IsFiniteSet(FillsOf(l)) /\ IsFiniteSet(PaymentsOf(l))
  BY <1>2, <1>3, FS_Subset
<1> QED BY <1>1, <1>3, <1>4 DEF Counts, FeesOf, CostsOf, CreditsOf

\* The chained cash of the events adds up to what flowed in and out.
LEMMA ChainAddsUp ==
    ASSUME NEW l, LedgerType(l), CashReplays(l)
    PROVE  l.cash + SumFunction(FeesOf(l)) + SumFunction(CostsOf(l))
           = l.initial + SumFunction(CreditsOf(l))
<1> DEFINE n == Len(l.events)
           cash(k) == IF k = 0 THEN l.initial ELSE l.events[k].after
           F(k) == SumUpTo(FeesOf(l), k)
           C(k) == SumUpTo(CostsOf(l), k)
           D(k) == SumUpTo(CreditsOf(l), k)
           Bad == {k \in 0 .. n : cash(k) + F(k) + C(k) # l.initial + D(k)}
<1>1. /\ l.initial \in Nat /\ l.cash \in Nat
      /\ n \in Nat /\ DOMAIN l.events = 1 .. n /\ (l.events = <<>> <=> n = 0)
      /\ \A i \in 1 .. n : /\ l.events[i].date \in Nat /\ l.events[i].before \in Nat
                           /\ l.events[i].after \in Nat /\ l.events[i].notional \in Nat
                           /\ l.events[i].fees \in Nat
  BY LedgerFields
<1>2. \A i \in 1 .. n : l.events[i].kind \in {"fill", "dividend"}
  BY <1>1 DEF LedgerType
<1>3. /\ F(0) = 0 /\ F(n) = SumFunction(FeesOf(l))
      /\ \A k \in 1 .. n : /\ F(k - 1) \in Nat
                           /\ l.events[k].kind = "fill" => F(k) = l.events[k].fees + F(k - 1)
                           /\ l.events[k].kind # "fill" => F(k) = F(k - 1)
  <2>1. \A k \in 1 .. n : k \in DOMAIN FeesOf(l) <=> l.events[k].kind = "fill"
    BY <1>1 DEF FeesOf, FillsOf
  <2>2. \A k \in DOMAIN FeesOf(l) : FeesOf(l)[k] = l.events[k].fees
    BY DEF FeesOf
  <2> QED BY <1>1, <2>1, <2>2, FlowsCount, SumUpToSteps
<1>4. /\ C(0) = 0 /\ C(n) = SumFunction(CostsOf(l))
      /\ \A k \in 1 .. n : /\ C(k - 1) \in Nat
                           /\ l.events[k].kind = "fill" => C(k) = l.events[k].notional + C(k - 1)
                           /\ l.events[k].kind # "fill" => C(k) = C(k - 1)
  <2>1. \A k \in 1 .. n : k \in DOMAIN CostsOf(l) <=> l.events[k].kind = "fill"
    BY <1>1 DEF CostsOf, FillsOf
  <2>2. \A k \in DOMAIN CostsOf(l) : CostsOf(l)[k] = l.events[k].notional
    BY DEF CostsOf
  <2> QED BY <1>1, <2>1, <2>2, FlowsCount, SumUpToSteps, SMTT(30)
<1>5. /\ D(0) = 0 /\ D(n) = SumFunction(CreditsOf(l))
      /\ \A k \in 1 .. n : /\ D(k - 1) \in Nat
                           /\ l.events[k].kind = "dividend" => D(k) = l.events[k].notional + D(k - 1)
                           /\ l.events[k].kind # "dividend" => D(k) = D(k - 1)
  <2>1. \A k \in 1 .. n : k \in DOMAIN CreditsOf(l) <=> l.events[k].kind = "dividend"
    BY <1>1 DEF CreditsOf, PaymentsOf
  <2>2. \A k \in DOMAIN CreditsOf(l) : CreditsOf(l)[k] = l.events[k].notional
    BY DEF CreditsOf
  <2> QED BY <1>1, <2>1, <2>2, FlowsCount, SumUpToSteps
<1>6. ASSUME NEW k \in 1 .. n, k - 1 \notin Bad
      PROVE  k \notin Bad
  <2>1. k - 1 \in 0 .. n /\ cash(k - 1) + F(k - 1) + C(k - 1) = l.initial + D(k - 1)
    BY <1>1, <1>6
  <2>2. l.events[k].before = cash(k - 1)
    <3>1. k \in DOMAIN l.events /\ (k = 1 <=> k - 1 = 0)
      BY <1>1
    <3>2. l.events[k].before = IF k = 1 THEN l.initial ELSE l.events[k - 1].after
      BY <3>1 DEF CashReplays
    <3> QED BY <3>1, <3>2
  <2>3. l.events[k].after = Settled(l.events[k]) /\ cash(k) = l.events[k].after
    BY <1>1 DEF CashReplays
  <2> HIDE DEF F, C, D, n
  <2>4. F(k - 1) \in Nat /\ C(k - 1) \in Nat /\ D(k - 1) \in Nat /\ l.initial \in Nat
    BY <1>1, <1>3, <1>4, <1>5
  <2> DEFINE e == l.events[k]
  <2>5. /\ e.before \in Nat /\ e.after \in Nat /\ e.notional \in Nat /\ e.fees \in Nat
        /\ e.kind \in {"fill", "dividend"}
    BY <1>1, <1>2
  <2>6. e.before + F(k - 1) + C(k - 1) = l.initial + D(k - 1)
    BY <2>1, <2>2
  <2>7. CASE e.kind = "fill"
    <3>1. e.after = e.before - e.notional - e.fees
      BY <2>3, <2>7 DEF Settled, CashAfterFill
    <3>2. F(k) = e.fees + F(k - 1) /\ C(k) = e.notional + C(k - 1) /\ D(k) = D(k - 1)
      BY <1>3, <1>4, <1>5, <2>7
    <3> HIDE DEF e, cash
    <3>3. e.after + F(k) + C(k) = l.initial + D(k)
      BY <2>4, <2>5, <2>6, <3>1, <3>2
    <3>4. cash(k) + F(k) + C(k) = l.initial + D(k)
      BY <2>3, <3>3 DEF e
    <3> QED BY <3>4 DEF e
  <2>8. CASE e.kind = "dividend"
    <3>1. e.after = e.before + e.notional
      BY <2>3, <2>8 DEF Settled
    <3>2. F(k) = F(k - 1) /\ C(k) = C(k - 1) /\ D(k) = e.notional + D(k - 1)
      BY <1>3, <1>4, <1>5, <2>8
    <3> HIDE DEF e, cash
    <3>3. e.after + F(k) + C(k) = l.initial + D(k)
      BY <2>4, <2>5, <2>6, <3>1, <3>2
    <3>4. cash(k) + F(k) + C(k) = l.initial + D(k)
      BY <2>3, <3>3 DEF e
    <3> QED BY <3>4 DEF e
  <2> QED BY <2>5, <2>7, <2>8
<1>7. 0 \notin Bad
  <2> HIDE DEF F, C, D, n
  <2> QED BY <1>1, <1>3, <1>4, <1>5
<1>8. Bad = {}
  <2> SUFFICES ASSUME Bad # {} PROVE FALSE
    OBVIOUS
  <2>1. Bad \subseteq 0 .. n
    OBVIOUS
  <2> HIDE DEF Bad, n
  <2>2. Bad \subseteq Nat
    BY <1>1, <2>1
  <2>3. PICK m \in Bad : \A k \in Bad : m <= k
    BY <2>2, NatMin
  <2>4. m \in 1 .. n /\ m - 1 \notin Bad
    BY <1>1, <1>7, <2>1, <2>3
  <2> QED BY <1>6, <2>3, <2>4
<1>9. cash(n) + F(n) + C(n) = l.initial + D(n)
  <2>1. n \in 0 .. n
    BY <1>1
  <2> HIDE DEF cash, F, C, D, n
  <2> QED BY <1>8, <2>1
<1>10. cash(n) = l.cash
  BY <1>1 DEF CashReplays
<1> HIDE DEF cash, F, C, D, n
<1> QED BY <1>3, <1>4, <1>5, <1>9, <1>10

\* Fills and lots correspond, so what the fills cost is what the lots cost.
LEMMA CostsAreLots ==
    ASSUME NEW l, LedgerType(l), FillsMatchLots(l)
    PROVE  SumFunction(CostsOf(l)) = SumFunction([k \in DOMAIN l.lots |->
                                        NotionalFen(l.lots[k].cost, l.lots[k].remaining)])
<1> DEFINE f == CostsOf(l)
           g == [k \in DOMAIN l.lots |-> NotionalFen(l.lots[k].cost, l.lots[k].remaining)]
           b == [i \in FillsOf(l) |-> CHOOSE k \in DOMAIN l.lots : l.lots[k].id = l.events[i].ref]
<1>1. /\ DOMAIN f = FillsOf(l) /\ DOMAIN g = DOMAIN l.lots
      /\ \A i \in FillsOf(l) : f[i] = l.events[i].notional
      /\ \A k \in DOMAIN l.lots : g[k] = LotCost(l.lots[k])
  BY DEF CostsOf, LotCost
<1>2. Counts(f)
  BY FlowsCount
<1>3. ASSUME NEW i \in FillsOf(l)
      PROVE  /\ b[i] \in DOMAIN l.lots /\ l.lots[b[i]].id = l.events[i].ref
             /\ f[i] = g[b[i]]
  <2>1. i \in DOMAIN l.events /\ l.events[i].kind = "fill"
    BY DEF FillsOf
  <2>2. PICK k \in DOMAIN l.lots : FillMatches(l.events[i], l.lots[k])
    BY <2>1 DEF FillsMatchLots
  <2>3. l.lots[k].id = l.events[i].ref /\ l.events[i].notional = LotCost(l.lots[k])
    BY <2>2 DEF FillMatches
  <2>4. b[i] \in DOMAIN l.lots /\ l.lots[b[i]].id = l.events[i].ref
    BY <2>3
  <2> HIDE DEF b, f, g
  <2>5. b[i] = k
    BY <2>3, <2>4 DEF FillsMatchLots
  <2> QED BY <1>1, <2>3, <2>4, <2>5
<1>4. DOMAIN b = FillsOf(l)
  OBVIOUS
<1> HIDE DEF f, g
<1>5. b \in [DOMAIN f -> DOMAIN g]
  BY <1>1, <1>3
<1> HIDE DEF b
<1>6. \A i, j \in FillsOf(l) : b[i] = b[j] => i = j
  <2>1. \A i, j \in FillsOf(l) : b[i] = b[j] => l.events[i].ref = l.events[j].ref
    BY <1>3
  <2>2. \A i, j \in FillsOf(l) : l.events[i].ref = l.events[j].ref => i = j
    BY DEF FillsMatchLots, FillsOf
  <2> QED BY <2>1, <2>2
<1>7. \A k \in DOMAIN l.lots : \E i \in FillsOf(l) : b[i] = k
  <2> SUFFICES ASSUME NEW k \in DOMAIN l.lots PROVE \E i \in FillsOf(l) : b[i] = k
    OBVIOUS
  <2>1. PICK i \in FillsOf(l) : l.events[i].ref = l.lots[k].id
    BY DEF FillsMatchLots, FillsOf
  <2>2. b[i] = k
    BY <1>3, <2>1 DEF FillsMatchLots
  <2> QED BY <2>2
<1>8. Counts(g)
  <2>1. \A k \in DOMAIN g : g[k] \in Nat
    <3> SUFFICES ASSUME NEW k \in DOMAIN g PROVE g[k] \in Nat
      OBVIOUS
    <3>1. PICK i \in FillsOf(l) : b[i] = k
      BY <1>1, <1>7
    <3> QED BY <1>1, <1>2, <1>3, <3>1 DEF Counts
  <2>2. IsFiniteSet(DOMAIN g)
    <3>1. Len(l.lots) \in Nat /\ DOMAIN l.lots = 1 .. Len(l.lots)
      BY LedgerFields
    <3> QED BY <1>1, <3>1, PrefixFinite
  <2> QED BY <2>1, <2>2 DEF Counts
<1>9. SumFunction(f) = SumFunction(g)
  <2>1. \A i \in DOMAIN f : f[i] = g[b[i]]
    BY <1>1, <1>3
  <2>2. \A i, j \in DOMAIN f : b[i] = b[j] => i = j
    BY <1>1, <1>6
  <2>3. \A k \in DOMAIN g : \E i \in DOMAIN f : b[i] = k
    BY <1>1, <1>7
  <2> QED BY <1>2, <1>5, <1>8, <2>1, <2>2, <2>3, SumOfRenamed
<1> QED BY <1>9 DEF f, g

\* Payments and paid receivables correspond, so do their amounts.
LEMMA CreditsArePaid ==
    ASSUME NEW l, LedgerType(l), PaymentsMatchReceivables(l)
    PROVE  SumFunction(CreditsOf(l))
           = SumFunction([d \in PaidOf(l) |-> l.receivables[d].amount])
<1> DEFINE f == CreditsOf(l)
           g == [d \in PaidOf(l) |-> l.receivables[d].amount]
           b == [i \in PaymentsOf(l) |-> l.events[i].ref]
<1>1. /\ DOMAIN f = PaymentsOf(l) /\ DOMAIN g = PaidOf(l) /\ DOMAIN b = PaymentsOf(l)
      /\ \A i \in PaymentsOf(l) : f[i] = l.events[i].notional /\ b[i] = l.events[i].ref
      /\ \A d \in PaidOf(l) : g[d] = l.receivables[d].amount
  BY DEF CreditsOf
<1>2. Counts(f)
  BY FlowsCount
<1>3. b \in [PaymentsOf(l) -> PaidOf(l)]
  BY DEF PaymentsOf, PaidOf, PaymentsMatchReceivables
<1> HIDE DEF f, g, b
<1>4. \A i \in PaymentsOf(l) : f[i] = g[b[i]]
  <2> SUFFICES ASSUME NEW i \in PaymentsOf(l) PROVE f[i] = g[b[i]]
    OBVIOUS
  <2>1. i \in DOMAIN l.events /\ l.events[i].kind = "dividend"
    BY DEF PaymentsOf
  <2>2. PaymentMatches(l.events[i], l.receivables[l.events[i].ref])
    BY <2>1 DEF PaymentsMatchReceivables
  <2>3. l.events[i].notional = l.receivables[l.events[i].ref].amount
    BY <2>2 DEF PaymentMatches
  <2> QED BY <1>1, <1>3, <2>3
<1>5. \A i, j \in PaymentsOf(l) : b[i] = b[j] => i = j
  BY <1>1 DEF PaymentsMatchReceivables, PaymentsOf
<1>6. \A d \in PaidOf(l) : \E i \in PaymentsOf(l) : b[i] = d
  BY <1>1 DEF PaymentsMatchReceivables, PaymentsOf, PaidOf
<1>7. Counts(g)
  <2>1. \A d \in PaidOf(l) : g[d] \in Nat
    BY <1>1, <1>2, <1>4, <1>6 DEF Counts
  <2>2. b \in Surjection(PaymentsOf(l), PaidOf(l))
    BY <1>3, <1>6 DEF Surjection
  <2>3. IsFiniteSet(PaymentsOf(l))
    BY <1>1, <1>2 DEF Counts
  <2>4. IsFiniteSet(PaidOf(l))
    BY <2>2, <2>3, FS_Surjection
  <2> QED BY <1>1, <2>1, <2>4 DEF Counts
<1>8. SumFunction(f) = SumFunction(g)
  BY <1>1, <1>2, <1>3, <1>4, <1>5, <1>6, <1>7, SumOfRenamed
<1> QED BY <1>8 DEF f, g

\* Cash is the initial cash less the cost and the fees of the fills, plus
\* exactly the dividends marked paid: of any ledger that replays, so of every
\* ledger a caller can hold.
THEOREM CashIsConserved == Spec => []CashConserved
<1>1. LedgerInv => CashConserved
  <2> SUFFICES ASSUME LedgerInv PROVE CashConserved
    OBVIOUS
  <2> DEFINE l == ledger
             fees == SumFunction(FeesOf(l))
             costs == SumFunction(CostsOf(l))
  <2>1. LedgerType(l) /\ CashReplays(l) /\ FillsMatchLots(l) /\ PaymentsMatchReceivables(l)
    BY DEF LedgerInv, TypeOK, Verified
  <2>2. l.cash + fees + costs = l.initial + SumFunction(CreditsOf(l))
    BY <2>1, ChainAddsUp
  <2>3. costs = SumFunction([k \in DOMAIN l.lots |->
                               NotionalFen(l.lots[k].cost, l.lots[k].remaining)])
    BY <2>1, CostsAreLots
  <2>4. SumFunction(CreditsOf(l)) = SumFunction([d \in PaidOf(l) |-> l.receivables[d].amount])
    BY <2>1, CreditsArePaid
  <2>5. CashConserved <=>
          l.cash + fees + SumFunction([k \in DOMAIN l.lots |->
                               NotionalFen(l.lots[k].cost, l.lots[k].remaining)])
          = l.initial + SumFunction([d \in PaidOf(l) |-> l.receivables[d].amount])
    BY DEF CashConserved, FeesOf, FillsOf, PaidOf
  <2> HIDE DEF l, fees, costs
  <2> QED BY <2>2, <2>3, <2>4, <2>5
<1> QED BY <1>1, LedgerAlwaysReplays, PTL

-----------------------------------------------------------------------------
(* The rolling ledger: its type, and what it and its caller keep *)

\* A lot of a rolling ledger.
RollingLot == [id : LotNames, symbol : Symbols, acquired : Nat, available : Nat,
               original : Nat, remaining : Nat, cost : Nat]

\* A sell names lots of the ledger and takes a number of shares of each.
RollingEventType(l, e) ==
    /\ e.kind \in {"fill", "dividend", "sell"}
    /\ {e.date, e.notional, e.fees, e.before, e.after} \subseteq Nat
    /\ e.kind = "sell" =>
          /\ e.size \in Nat
          /\ DOMAIN e.consumed \subseteq DOMAIN l.lots
          /\ \A k \in DOMAIN e.consumed : e.consumed[k] \in Nat

\* The type of a rolling ledger.
RollingType(l) ==
    /\ l \in [initial : Nat, cash : Nat, lots : Seq(RollingLot),
              events : Seq(Range(l.events)),
              receivables : [DOMAIN l.receivables -> Receivable],
              snapshots : Seq(Range(l.snapshots))]
    /\ DOMAIN l.receivables \subseteq ReceivableIds
    /\ \A i \in DOMAIN l.events : RollingEventType(l, l.events[i])
    /\ \A i \in DOMAIN l.snapshots : l.snapshots[i].date \in Nat

\* The inductive invariant.  A portfolio ledger also keeps its lots in the
\* order of their fills, which its own replay does not look at and the rolling
\* one does.
LegacyInv == LedgerInv /\ LotsInBuyOrder(ledger)
HeldInv   == RollingType(ledger) /\ RollingVerified(ledger)
RollingInv ==
    /\ schema \in {"legacy", "rolling"}
    /\ reply \in {"ok", "refused", "unreconciled"}
    /\ asOf \in Nat
    /\ asked = <<>> \/ \E p \in RollingPostings : asked = <<p.event, p.lot.id>>
    /\ schema = "legacy" => LegacyInv
    /\ schema = "rolling" => HeldInv

\* The fields of a typed rolling ledger.
LEMMA RollingFields ==
    ASSUME NEW l, RollingType(l)
    PROVE  /\ l.initial \in Nat /\ l.cash \in Nat
           /\ l.lots \in Seq(RollingLot) /\ Len(l.lots) \in Nat
           /\ DOMAIN l.lots = 1 .. Len(l.lots)
           /\ \A i \in 1 .. Len(l.lots) : l.lots[i] \in RollingLot
           /\ l.events \in Seq(Range(l.events)) /\ Len(l.events) \in Nat
           /\ DOMAIN l.events = 1 .. Len(l.events)
           /\ l.snapshots \in Seq(Range(l.snapshots)) /\ Len(l.snapshots) \in Nat
           /\ DOMAIN l.snapshots = 1 .. Len(l.snapshots)
           /\ l.events = <<>> <=> Len(l.events) = 0
           /\ l.snapshots = <<>> <=> Len(l.snapshots) = 0
           /\ \A i \in 1 .. Len(l.events) : RollingEventType(l, l.events[i])
           /\ \A i \in 1 .. Len(l.snapshots) : l.snapshots[i].date \in Nat
           /\ \A d \in DOMAIN l.receivables : l.receivables[d] \in Receivable
<1>1. /\ l.initial \in Nat /\ l.cash \in Nat /\ l.lots \in Seq(RollingLot)
      /\ l.events \in Seq(Range(l.events)) /\ l.snapshots \in Seq(Range(l.snapshots))
      /\ \A d \in DOMAIN l.receivables : l.receivables[d] \in Receivable
  BY DEF RollingType
<1>2. /\ Len(l.lots) \in Nat /\ DOMAIN l.lots = 1 .. Len(l.lots)
      /\ \A i \in 1 .. Len(l.lots) : l.lots[i] \in RollingLot
  BY <1>1, LenProperties, ElementOfSeq
<1>3. /\ Len(l.events) \in Nat /\ DOMAIN l.events = 1 .. Len(l.events)
      /\ Len(l.snapshots) \in Nat /\ DOMAIN l.snapshots = 1 .. Len(l.snapshots)
  BY <1>1, LenProperties
<1>4. /\ l.events = <<>> <=> Len(l.events) = 0
      /\ l.snapshots = <<>> <=> Len(l.snapshots) = 0
  BY <1>1, EmptySeq
<1>5. /\ \A i \in 1 .. Len(l.events) : RollingEventType(l, l.events[i])
      /\ \A i \in 1 .. Len(l.snapshots) : l.snapshots[i].date \in Nat
  BY <1>3 DEF RollingType
<1> QED BY <1>1, <1>2, <1>3, <1>4, <1>5

\* What was sold of a lot adds up over any part of the events.
LEMMA SoldAddsUp ==
    ASSUME NEW l, RollingType(l), NEW k, NEW J \in SUBSET DOMAIN l.events
    PROVE  /\ SoldOf(l, k, J) \in Nat
           /\ \A I \in SUBSET J : SoldOf(l, k, I) <= SoldOf(l, k, J)
           /\ \A I \in SUBSET J : \A i \in SellsIn(l, J) \ I : k \in DOMAIN l.events[i].consumed =>
                 SoldOf(l, k, I) + l.events[i].consumed[k] <= SoldOf(l, k, J)
<1> DEFINE D(I) == {x \in SellsIn(l, I) : k \in DOMAIN l.events[x].consumed}
           f == [i \in D(DOMAIN l.events) |-> l.events[i].consumed[k]]
<1>1. /\ DOMAIN f = D(DOMAIN l.events)
      /\ \A i \in D(DOMAIN l.events) : f[i] = l.events[i].consumed[k]
  OBVIOUS
<1>2. \A i \in D(DOMAIN l.events) : /\ i \in DOMAIN l.events /\ l.events[i].kind = "sell"
                                    /\ k \in DOMAIN l.events[i].consumed
  BY DEF SellsIn
<1>3. \A I \in SUBSET DOMAIN l.events : D(I) \in SUBSET D(DOMAIN l.events)
  BY DEF SellsIn
<1>4. \A I : SoldOf(l, k, I) = SumFunction([i \in D(I) |-> l.events[i].consumed[k]])
  BY DEF SoldOf
<1>5. Counts(f)
  <2>1. IsFiniteSet(DOMAIN l.events)
    <3>1. Len(l.events) \in Nat /\ DOMAIN l.events = 1 .. Len(l.events)
      BY RollingFields
    <3> QED BY <3>1, PrefixFinite
  <2>2. IsFiniteSet(DOMAIN f)
    <3>1. DOMAIN f \subseteq DOMAIN l.events
      BY <1>1, <1>2
    <3> QED BY <2>1, <3>1, FS_Subset
  <2>3. \A i \in D(DOMAIN l.events) : l.events[i].consumed[k] \in Nat
    <3> SUFFICES ASSUME NEW i \in D(DOMAIN l.events) PROVE l.events[i].consumed[k] \in Nat
      OBVIOUS
    <3>1. RollingEventType(l, l.events[i])
      BY <1>2 DEF RollingType
    <3> QED BY <1>2, <3>1 DEF RollingEventType
  <2> HIDE DEF f, D
  <2> QED BY <1>1, <2>2, <2>3 DEF Counts
<1>6. ASSUME NEW I \in SUBSET J, NEW i \in SellsIn(l, J) \ I, k \in DOMAIN l.events[i].consumed
      PROVE  i \in D(J) \ D(I) /\ f[i] = l.events[i].consumed[k]
  BY <1>6 DEF SellsIn
<1>7. \A I \in SUBSET J : D(I) \in SUBSET D(J)
  BY DEF SellsIn
<1> HIDE DEF f, D
<1>8. \A I \in SUBSET DOMAIN l.events : SoldOf(l, k, I) = SumFunction([i \in D(I) |-> f[i]])
  <2> SUFFICES ASSUME NEW I \in SUBSET DOMAIN l.events
               PROVE  SoldOf(l, k, I) = SumFunction([i \in D(I) |-> f[i]])
    OBVIOUS
  <2>1. [i \in D(I) |-> f[i]] = [i \in D(I) |-> l.events[i].consumed[k]]
    BY <1>1, <1>3
  <2> QED BY <1>4, <2>1
<1>9. SoldOf(l, k, J) \in Nat
  <2>1. Counts([x \in D(J) |-> f[x]])
    BY <1>1, <1>3, <1>5, SumOfPart
  <2> QED BY <1>8, <2>1, SumIsNat
<1>10. ASSUME NEW I \in SUBSET J
       PROVE  /\ SoldOf(l, k, I) <= SoldOf(l, k, J)
              /\ \A i \in SellsIn(l, J) \ I : k \in DOMAIN l.events[i].consumed =>
                    SoldOf(l, k, I) + l.events[i].consumed[k] <= SoldOf(l, k, J)
  <2>1. I \in SUBSET DOMAIN l.events /\ D(J) \in SUBSET DOMAIN f /\ D(I) \in SUBSET D(J)
    BY <1>1, <1>3, <1>7
  <2>2. /\ SumFunction([x \in D(I) |-> f[x]]) <= SumFunction([x \in D(J) |-> f[x]])
        /\ \A y \in D(J) \ D(I) :
              SumFunction([x \in D(I) |-> f[x]]) + f[y] <= SumFunction([x \in D(J) |-> f[x]])
    BY <1>5, <2>1, SumOfLess
  <2> QED BY <1>6, <1>8, <2>1, <2>2
<1> QED BY <1>9, <1>10

\* Nothing is sold of a lot that no event names.
LEMMA SoldOfNothing ==
    ASSUME NEW l, NEW k, NEW I,
           \A i \in SellsIn(l, I) : k \notin DOMAIN l.events[i].consumed
    PROVE  SoldOf(l, k, I) = 0
<1>1. {x \in SellsIn(l, I) : k \in DOMAIN l.events[x].consumed} = {}
  OBVIOUS
<1>2. [i \in {x \in SellsIn(l, I) : k \in DOMAIN l.events[x].consumed}
         |-> l.events[i].consumed[k]] = [x \in {} |-> 0]
  BY <1>1
<1> QED BY <1>2, SumOfNothing DEF SoldOf

-----------------------------------------------------------------------------
(* First in, first out *)

\* The lots as they were before an event can be added up.
LEMMA LotsAfterFields ==
    ASSUME NEW l, RollingType(l), RollingVerified(l), NEW I \in SUBSET DOMAIN l.events
    PROVE  /\ DOMAIN LotsAfter(l, I) = DOMAIN l.lots
           /\ Sized(LotsAfter(l, I))
           /\ \A k \in DOMAIN l.lots :
                 /\ LotsAfter(l, I)[k].remaining = l.lots[k].original - SoldOf(l, k, I)
                 /\ LotsAfter(l, I)[k].symbol = l.lots[k].symbol
                 /\ LotsAfter(l, I)[k].available = l.lots[k].available
                 /\ LotsAfter(l, I)[k].acquired = l.lots[k].acquired
<1>1. Len(l.lots) \in Nat /\ DOMAIN l.lots = 1 .. Len(l.lots)
      /\ \A k \in DOMAIN l.lots : l.lots[k] \in RollingLot
  BY RollingFields
<1>2. DOMAIN LotsAfter(l, I) = DOMAIN l.lots
  BY DEF LotsAfter
<1>3. ASSUME NEW k \in DOMAIN l.lots
      PROVE  /\ LotsAfter(l, I)[k].remaining = l.lots[k].original - SoldOf(l, k, I)
             /\ LotsAfter(l, I)[k].symbol = l.lots[k].symbol
             /\ LotsAfter(l, I)[k].available = l.lots[k].available
             /\ LotsAfter(l, I)[k].acquired = l.lots[k].acquired
             /\ LotsAfter(l, I)[k].remaining \in Nat
  <2>1. l.lots[k] \in RollingLot
    BY <1>1
  <2>2. LotsAfter(l, I)[k] = [l.lots[k] EXCEPT !.remaining = l.lots[k].original - SoldOf(l, k, I)]
    BY DEF LotsAfter
  <2>3. /\ LotsAfter(l, I)[k].remaining = l.lots[k].original - SoldOf(l, k, I)
        /\ LotsAfter(l, I)[k].symbol = l.lots[k].symbol
        /\ LotsAfter(l, I)[k].available = l.lots[k].available
        /\ LotsAfter(l, I)[k].acquired = l.lots[k].acquired
    BY <2>1, <2>2 DEF RollingLot
  <2>4. l.lots[k].remaining = l.lots[k].original - SoldOf(l, k, DOMAIN l.events)
    BY DEF RollingVerified
  <2>5. SoldOf(l, k, I) \in Nat
    BY SoldAddsUp
  <2>6. /\ SoldOf(l, k, I) <= SoldOf(l, k, DOMAIN l.events)
        /\ SoldOf(l, k, DOMAIN l.events) \in Nat
    <3>1. DOMAIN l.events \in SUBSET DOMAIN l.events /\ I \in SUBSET DOMAIN l.events
      OBVIOUS
    <3> QED BY <3>1, SoldAddsUp
  <2>7. l.lots[k].original \in Nat /\ l.lots[k].remaining \in Nat
    BY <2>1 DEF RollingLot
  <2> QED BY <2>3, <2>4, <2>5, <2>6, <2>7
<1>4. Sized(LotsAfter(l, I))
  <2>1. IsFiniteSet(DOMAIN l.lots)
    BY <1>1, PrefixFinite
  <2> QED BY <1>2, <1>3, <2>1 DEF Sized
<1> QED BY <1>2, <1>3, <1>4

\* A lot younger in the ledger was also bought later, so an event that sells it
\* finds the older one bought.
LEMMA OlderIsBought ==
    ASSUME NEW l, RollingType(l), RollingVerified(l),
           NEW k \in DOMAIN l.lots, NEW m \in DOMAIN l.lots, k < m,
           NEW i \in DOMAIN l.events, m \in BoughtBefore(l, i)
    PROVE  k \in BoughtBefore(l, i)
<1>1. DOMAIN l.lots = 1 .. Len(l.lots) /\ Len(l.lots) \in Nat
      /\ DOMAIN l.events = 1 .. Len(l.events) /\ Len(l.events) \in Nat
      /\ \A n \in DOMAIN l.lots : l.lots[n] \in RollingLot
  BY RollingFields
<1>2. PICK j \in 1 .. i - 1 : l.events[j].kind = "fill" /\ l.events[j].ref = l.lots[m].id
  BY DEF BoughtBefore
<1> DEFINE b == AsBought(l)
<1>3. /\ b.events = l.events /\ DOMAIN b.lots = DOMAIN l.lots
      /\ \A n \in DOMAIN l.lots : b.lots[n].id = l.lots[n].id
  BY <1>1 DEF AsBought, LotsAfter, RollingType, RollingLot
<1>4. FillsMatchLots(b) /\ LotsInBuyOrder(l)
  BY DEF RollingVerified
<1> HIDE DEF b
<1>5. PICK h \in DOMAIN l.events : l.events[h].kind = "fill" /\ l.events[h].ref = l.lots[k].id
  BY <1>3, <1>4 DEF FillsMatchLots
<1>6. j \in DOMAIN l.events /\ j < i /\ i \in Int /\ j \in Int /\ h \in Int /\ k \in Int /\ m \in Int
  BY <1>1
<1>7. ~(j < h)
  <2> SUFFICES ASSUME j < h PROVE FALSE
    OBVIOUS
  <2>1. m < k
    BY <1>2, <1>4, <1>5, <1>6 DEF LotsInBuyOrder
  <2> QED BY <1>6, <2>1
<1>8. h \in 1 .. i - 1
  BY <1>1, <1>6, <1>7
<1> QED BY <1>5, <1>8 DEF BoughtBefore

\* An event that takes of a lot leaves nothing of an older one it may take of.
LEMMA FifoEmptiesOlder ==
    ASSUME NEW s, Sized(s), NEW G \in SUBSET DOMAIN s, NEW n \in Int,
           G \subseteq Int, NEW k \in G, NEW m \in G, k < m,
           ConsumeFifo(s, G, n)[m] > 0
    PROVE  ConsumeFifo(s, G, n)[k] = s[k].remaining
<1> DEFINE A(x) == {j \in G : j < x}
<1>1. /\ ConsumeFifo(s, G, n)[k] = Max({0, Min({s[k].remaining, n - SizeOf(s, A(k))})})
      /\ ConsumeFifo(s, G, n)[m] = Max({0, Min({s[m].remaining, n - SizeOf(s, A(m))})})
  BY DEF ConsumeFifo
<1>2. A(k) \in SUBSET A(m) /\ k \in A(m) \ A(k) /\ A(m) \in SUBSET DOMAIN s /\ A(k) \in SUBSET DOMAIN s
  <2>1. \A j \in G : j < k => j < m
    OBVIOUS
  <2> QED BY <2>1
<1> HIDE DEF A
<1>3. SizeOf(s, A(k)) \in Nat /\ SizeOf(s, A(m)) \in Nat
  BY <1>2, SizesAddUp
<1>4. SizeOf(s, A(k)) + s[k].remaining <= SizeOf(s, A(m))
  BY <1>2, SizesAddUp
<1>5. s[k].remaining \in Nat /\ s[m].remaining \in Nat
  BY DEF Sized
<1>6. n - SizeOf(s, A(m)) > 0
  <2>1. n - SizeOf(s, A(m)) \in Int
    BY <1>3
  <2> QED BY <1>1, <1>5, <2>1, TakeIs
<1>7. n - SizeOf(s, A(k)) \in Int /\ s[k].remaining <= n - SizeOf(s, A(k))
  BY <1>3, <1>4, <1>5, <1>6
<1> QED BY <1>1, <1>5, <1>7, TakeIs

\* verify_rolling_ledger: a ledger that replays has sold its oldest lots first.
LEMMA OldestFirst ==
    ASSUME NEW l, RollingType(l), RollingVerified(l),
           NEW k \in DOMAIN l.lots, NEW m \in DOMAIN l.lots, k < m,
           l.lots[k].symbol = l.lots[m].symbol, l.lots[k].available <= l.lots[m].available,
           l.lots[k].remaining > 0
    PROVE  l.lots[m].remaining = l.lots[m].original
<1> DEFINE E == DOMAIN l.events
<1> SUFFICES ASSUME l.lots[m].remaining # l.lots[m].original PROVE FALSE
  OBVIOUS
<1>1. /\ DOMAIN l.lots = 1 .. Len(l.lots) /\ Len(l.lots) \in Nat
      /\ E = 1 .. Len(l.events) /\ Len(l.events) \in Nat
      /\ l.lots[k] \in RollingLot /\ l.lots[m] \in RollingLot
  BY RollingFields
<1>2. /\ l.lots[m].remaining = l.lots[m].original - SoldOf(l, m, E)
      /\ l.lots[k].remaining = l.lots[k].original - SoldOf(l, k, E)
      /\ l.lots[k].original \in Nat /\ l.lots[m].original \in Nat
      /\ l.lots[k].available \in Nat /\ l.lots[m].available \in Nat
  BY <1>1 DEF RollingVerified, RollingLot
<1>3. SoldOf(l, m, E) # 0
  BY <1>2
<1>4. PICK i \in SellsIn(l, E) : m \in DOMAIN l.events[i].consumed
  BY <1>3, SoldOfNothing
<1> DEFINE e == l.events[i]
           s == LotsAfter(l, 1 .. i - 1)
           own == {x \in BoughtBefore(l, i) : s[x].symbol = e.symbol}
           G == {x \in own : s[x].available <= e.date}
           take == ConsumeFifo(s, G, e.size)
<1>5. i \in E /\ SellReplays(l, i)
  BY <1>4 DEF RollingVerified, SellsIn
<1>6. e.consumed = Positive(take)
  BY <1>5 DEF SellReplays
<1>7. RollingEventType(l, e) /\ e.kind = "sell"
  BY <1>4, <1>5 DEF RollingType, SellsIn
<1>8. e.size \in Nat /\ e.date \in Nat
  BY <1>7 DEF RollingEventType
<1>9. DOMAIN take = G
  BY DEF ConsumeFifo
<1>10. 1 .. i - 1 \in SUBSET E
  BY <1>1, <1>5
<1>11. /\ DOMAIN s = DOMAIN l.lots /\ Sized(s)
       /\ \A x \in DOMAIN l.lots : /\ s[x].remaining = l.lots[x].original - SoldOf(l, x, 1 .. i - 1)
                                   /\ s[x].symbol = l.lots[x].symbol
                                   /\ s[x].available = l.lots[x].available
  BY <1>10, LotsAfterFields
<1>12. BoughtBefore(l, i) \subseteq DOMAIN l.lots
  BY DEF BoughtBefore
<1> HIDE DEF e, s
<1>13. G \in SUBSET DOMAIN s /\ G \subseteq Int
  BY <1>1, <1>11, <1>12
<1> HIDE DEF take
<1>14. m \in G /\ take[m] > 0
  BY <1>4, <1>6, <1>9 DEF Positive, e
<1>15. k \in G
  <2>1. k \in BoughtBefore(l, i)
    BY <1>5, <1>14, OlderIsBought
  <2> QED BY <1>2, <1>8, <1>11, <1>14, <2>1
<1> HIDE DEF G, own
<1>16. take[k] = s[k].remaining
  <2> DEFINE n == e.size
  <2>1. n \in Int /\ Sized(s) /\ G \in SUBSET DOMAIN s /\ G \subseteq Int
    BY <1>8, <1>11, <1>13
  <2>2. k \in G /\ m \in G /\ k < m /\ ConsumeFifo(s, G, n)[m] > 0
    BY <1>14, <1>15 DEF take
  <2> HIDE DEF n
  <2>3. ConsumeFifo(s, G, n)[k] = s[k].remaining
    BY <2>1, <2>2, FifoEmptiesOlder
  <2> QED BY <2>3 DEF take, n
<1>17. SoldOf(l, k, 1 .. i - 1) \in Nat /\ SoldOf(l, k, E) \in Nat
  <2>1. E \in SUBSET DOMAIN l.events
    OBVIOUS
  <2> QED BY <1>10, <2>1, SoldAddsUp
<1>18. l.lots[k].original <= SoldOf(l, k, E)
  <2>1. CASE take[k] > 0
    <3>1. k \in DOMAIN e.consumed /\ e.consumed[k] = take[k]
      BY <1>6, <1>9, <1>15, <2>1 DEF Positive
    <3>2. i \in SellsIn(l, E) \ (1 .. i - 1)
      BY <1>1, <1>4, <1>5
    <3>3. SoldOf(l, k, 1 .. i - 1) + e.consumed[k] <= SoldOf(l, k, E)
      <4>1. E \in SUBSET DOMAIN l.events /\ 1 .. i - 1 \in SUBSET E
        BY <1>10
      <4> HIDE DEF E
      <4> QED BY <3>1, <3>2, <4>1, SoldAddsUp DEF e
    <3> QED BY <1>2, <1>11, <1>16, <1>17, <3>1, <3>3
  <2>2. CASE ~(take[k] > 0)
    <3>1. s[k].remaining \in Nat /\ s[k].remaining = l.lots[k].original - SoldOf(l, k, 1 .. i - 1)
      BY <1>11 DEF Sized
    <3>2. SoldOf(l, k, 1 .. i - 1) <= SoldOf(l, k, E)
      <4>1. E \in SUBSET DOMAIN l.events /\ 1 .. i - 1 \in SUBSET E
        BY <1>10
      <4> HIDE DEF E
      <4> QED BY <4>1, SoldAddsUp
    <3> QED BY <1>2, <1>16, <1>17, <2>2, <3>1, <3>2
  <2> QED BY <2>1, <2>2
<1> QED BY <1>2, <1>17, <1>18

-----------------------------------------------------------------------------
(* The two schemas *)

\* As long as nothing was sold the lots are what they were bought as, and the
\* reconstructed positions are those of a portfolio ledger.
LEMMA NothingSold ==
    ASSUME NEW l, RollingType(l), SellsIn(l, DOMAIN l.events) = {},
           \A k \in DOMAIN l.lots : l.lots[k].remaining = l.lots[k].original
                                    /\ l.lots[k].remaining > 0
    PROVE  /\ \A I \in SUBSET DOMAIN l.events : LotsAfter(l, I) = l.lots
           /\ AsBought(l) = l
           /\ \A day : RollingPositionSizes(l, day) = PositionSizes(l, day)
           /\ \A k \in DOMAIN l.lots : SoldOf(l, k, DOMAIN l.events) = 0
<1>1. /\ Len(l.lots) \in Nat /\ DOMAIN l.lots = 1 .. Len(l.lots) /\ l.lots \in Seq(RollingLot)
      /\ \A k \in 1 .. Len(l.lots) : l.lots[k] \in RollingLot
  BY RollingFields
<1>2. l.lots = [k \in DOMAIN l.lots |-> l.lots[k]]
  BY <1>1, LenProperties
<1>3. ASSUME NEW I \in SUBSET DOMAIN l.events, NEW k PROVE SoldOf(l, k, I) = 0
  <2>1. SellsIn(l, I) = {}
    BY DEF SellsIn
  <2> QED BY <2>1, SoldOfNothing
<1>4. ASSUME NEW I \in SUBSET DOMAIN l.events PROVE LotsAfter(l, I) = l.lots
  <2>1. \A k \in DOMAIN l.lots :
           [l.lots[k] EXCEPT !.remaining = l.lots[k].original - SoldOf(l, k, I)] = l.lots[k]
    <3> SUFFICES ASSUME NEW k \in DOMAIN l.lots
                 PROVE  [l.lots[k] EXCEPT !.remaining = l.lots[k].original - SoldOf(l, k, I)]
                        = l.lots[k]
      OBVIOUS
    <3>1. l.lots[k] \in RollingLot
      BY <1>1
    <3>2. l.lots[k].original - SoldOf(l, k, I) = l.lots[k].remaining
      BY <1>3, <3>1 DEF RollingLot
    <3>3. [l.lots[k] EXCEPT !.remaining = l.lots[k].remaining] = l.lots[k]
      BY <3>1 DEF RollingLot
    <3> QED BY <3>2, <3>3
  <2> QED BY <1>2, <2>1 DEF LotsAfter
<1>5. [l EXCEPT !.lots = l.lots] = l
  BY DEF RollingType
<1>6. AsBought(l) = l
  <2>1. LotsAfter(l, {}) = l.lots
    BY <1>4
  <2> QED BY <1>5, <2>1 DEF AsBought
<1>7. ASSUME NEW day PROVE RollingPositionSizes(l, day) = PositionSizes(l, day)
  <2> DEFINE sizes == PositionSizes(l, day)
  <2>1. [l EXCEPT !.lots = LotsAfter(l, EventsBy(l, day))] = l
    <3>1. LotsAfter(l, EventsBy(l, day)) = l.lots
      BY <1>4 DEF EventsBy
    <3> QED BY <1>5, <3>1
  <2>2. RollingPositionSizes(l, day)
        = [y \in {s \in DOMAIN sizes : sizes[s].total > 0} |-> sizes[y]]
    BY <2>1 DEF RollingPositionSizes
  <2>3. \A y \in DOMAIN sizes : sizes[y].total > 0
    <3> SUFFICES ASSUME NEW y \in DOMAIN sizes PROVE sizes[y].total > 0
      OBVIOUS
    <3>1. /\ HeldLots(l, y, day) # {}
          /\ sizes[y].total = SizeOf(l.lots, HeldLots(l, y, day))
      BY DEF PositionSizes
    <3>2. PICK k \in HeldLots(l, y, day) : TRUE
      BY <3>1
    <3>3. HeldLots(l, y, day) \in SUBSET DOMAIN l.lots /\ k \in DOMAIN l.lots
      BY <3>2 DEF HeldLots
    <3>4. Sized(l.lots)
      <4>1. IsFiniteSet(DOMAIN l.lots)
        BY <1>1, PrefixFinite
      <4> QED BY <1>1, <4>1 DEF Sized, RollingLot
    <3>5. /\ l.lots[k].remaining <= SizeOf(l.lots, HeldLots(l, y, day))
          /\ SizeOf(l.lots, HeldLots(l, y, day)) \in Nat
      BY <3>2, <3>3, <3>4, SizesAddUp
    <3>6. l.lots[k].remaining > 0 /\ l.lots[k].remaining \in Nat
      BY <3>3, <3>4 DEF Sized
    <3> QED BY <3>1, <3>5, <3>6
  <2>4. sizes = [y \in DOMAIN sizes |-> sizes[y]]
    BY DEF PositionSizes
  <2> HIDE DEF sizes
  <2>5. {s \in DOMAIN sizes : sizes[s].total > 0} = DOMAIN sizes
    BY <2>3
  <2>6. RollingPositionSizes(l, day) = sizes
    BY <2>2, <2>4, <2>5
  <2> QED BY <2>6 DEF sizes
<1> QED BY <1>3, <1>4, <1>6, <1>7

\* A rolling ledger that has not sold still replays as a portfolio ledger.
LEMMA UnsoldReplays ==
    ASSUME NEW l, RollingType(l), RollingVerified(l), SellsIn(l, DOMAIN l.events) = {}
    PROVE  Verified(l)
<1>1. /\ Len(l.lots) \in Nat /\ DOMAIN l.lots = 1 .. Len(l.lots)
      /\ \A k \in DOMAIN l.lots : l.lots[k] \in RollingLot
  BY RollingFields
<1>2. \A k \in DOMAIN l.lots : /\ RollingLotOK(l.lots[k])
                               /\ l.lots[k].remaining
                                  = l.lots[k].original - SoldOf(l, k, DOMAIN l.events)
  BY DEF RollingVerified
<1>3. \A k \in DOMAIN l.lots : SoldOf(l, k, DOMAIN l.events) = 0
  BY SoldOfNothing
<1>4. \A k \in DOMAIN l.lots : l.lots[k].remaining = l.lots[k].original
                               /\ l.lots[k].remaining > 0
  BY <1>1, <1>2, <1>3 DEF RollingLot, RollingLotOK
<1>5. /\ AsBought(l) = l
      /\ \A day : RollingPositionSizes(l, day) = PositionSizes(l, day)
  BY <1>4, NothingSold
<1>6. EntriesValid(l)
  BY <1>1, <1>2, <1>4 DEF EntriesValid, RollingVerified, RollingLotOK, LotOK
<1>7. CashReplays(l)
  <2>1. \A i \in DOMAIN l.events : RollingSettled(l.events[i]) = Settled(l.events[i])
    BY DEF RollingSettled, SellsIn
  <2> QED BY <2>1 DEF RollingVerified, RollingCashReplays, CashReplays
<1>8. EventsInOrder(l) /\ FillsMatchLots(l) /\ PaymentsMatchReceivables(l)
  BY <1>5 DEF RollingVerified
<1>9. SnapshotsReconcile(l)
  BY <1>5 DEF RollingVerified, SnapshotsReconcile, RollingSnapshotReconciles, SnapshotReconciles
<1> QED BY <1>6, <1>7, <1>8, <1>9 DEF Verified

\* promote_portfolio_ledger: the fields of the copy, and its type.
LEMMA PromotedFields ==
    ASSUME NEW l, LedgerType(l)
    PROVE  LET u == Promoted(l)
           IN  /\ RollingType(u)
               /\ u.initial = l.initial /\ u.cash = l.cash /\ u.events = l.events
               /\ u.receivables = l.receivables /\ u.snapshots = l.snapshots
               /\ DOMAIN u.lots = DOMAIN l.lots
               /\ \A k \in DOMAIN l.lots : u.lots[k] = AsRollingLot(l.lots[k])
<1> DEFINE u == Promoted(l)
           s == [k \in DOMAIN l.lots |-> AsRollingLot(l.lots[k])]
<1>1. /\ l \in [initial : Nat, cash : Nat, lots : Seq(Lot), events : Seq(Range(l.events)),
                receivables : [DOMAIN l.receivables -> Receivable],
                snapshots : Seq(Range(l.snapshots))]
      /\ DOMAIN l.receivables \subseteq ReceivableIds
  BY DEF LedgerType
<1>2. /\ u.initial = l.initial /\ u.cash = l.cash /\ u.events = l.events
      /\ u.receivables = l.receivables /\ u.snapshots = l.snapshots /\ u.lots = s
  BY <1>1 DEF Promoted
<1>3. /\ Len(l.lots) \in Nat /\ DOMAIN l.lots = 1 .. Len(l.lots)
      /\ \A k \in 1 .. Len(l.lots) : l.lots[k] \in Lot
  BY LedgerFields
<1>4. s \in Seq(RollingLot)
  <2>1. \A k \in 1 .. Len(l.lots) : AsRollingLot(l.lots[k]) \in RollingLot
    BY <1>3 DEF AsRollingLot, Lot, RollingLot
  <2>2. s \in [1 .. Len(l.lots) -> RollingLot]
    BY <1>3, <2>1
  <2> QED BY <1>3, <2>2, SeqDef
<1>5. u \in [initial : Nat, cash : Nat, lots : Seq(RollingLot), events : Seq(Range(l.events)),
             receivables : [DOMAIN l.receivables -> Receivable],
             snapshots : Seq(Range(l.snapshots))]
  BY <1>1, <1>4 DEF Promoted
<1>6. DOMAIN u.lots = DOMAIN l.lots /\ \A k \in DOMAIN l.lots : u.lots[k] = AsRollingLot(l.lots[k])
  BY <1>2
<1> HIDE DEF u, s
<1>7. \A i \in DOMAIN u.events : RollingEventType(u, u.events[i])
  BY <1>2 DEF LedgerType, RollingEventType
<1>8. RollingType(u)
  BY <1>1, <1>2, <1>5, <1>7 DEF LedgerType, RollingType
<1> QED BY <1>2, <1>6, <1>8 DEF u

\* A portfolio ledger that replays still does once promoted.
LEMMA PromotedReplays ==
    ASSUME NEW l, LedgerType(l), Verified(l), LotsInBuyOrder(l)
    PROVE  RollingVerified(Promoted(l))
<1> DEFINE u == Promoted(l)
<1>1. /\ RollingType(u)
      /\ u.initial = l.initial /\ u.cash = l.cash /\ u.events = l.events
      /\ u.receivables = l.receivables /\ u.snapshots = l.snapshots
      /\ DOMAIN u.lots = DOMAIN l.lots
      /\ \A k \in DOMAIN l.lots : u.lots[k] = AsRollingLot(l.lots[k])
  BY PromotedFields
<1> HIDE DEF u
<1>2. \A k \in DOMAIN l.lots :
         /\ u.lots[k].id = l.lots[k].id /\ u.lots[k].symbol = l.lots[k].symbol
         /\ u.lots[k].acquired = l.lots[k].acquired
         /\ u.lots[k].available = l.lots[k].available
         /\ u.lots[k].remaining = l.lots[k].remaining /\ u.lots[k].cost = l.lots[k].cost
         /\ u.lots[k].original = l.lots[k].remaining
  <2>1. ASSUME NEW x
        PROVE  /\ AsRollingLot(x).id = x.id /\ AsRollingLot(x).symbol = x.symbol
               /\ AsRollingLot(x).acquired = x.acquired
               /\ AsRollingLot(x).available = x.available
               /\ AsRollingLot(x).remaining = x.remaining /\ AsRollingLot(x).cost = x.cost
               /\ AsRollingLot(x).original = x.remaining
    BY DEF AsRollingLot
  <2> QED BY <1>1, <2>1
<1>3. \A k \in DOMAIN l.lots : l.lots[k] \in Lot /\ LotOK(l.lots[k])
  BY LedgerFields DEF Verified, EntriesValid
<1>4. \A k \in DOMAIN u.lots : u.lots[k].remaining = u.lots[k].original
                               /\ u.lots[k].remaining > 0
  BY <1>1, <1>2, <1>3 DEF LotOK
<1>5. \A i \in DOMAIN u.events : u.events[i].kind \in {"fill", "dividend"}
  BY <1>1 DEF LedgerType
<1>6. SellsIn(u, DOMAIN u.events) = {}
  BY <1>5 DEF SellsIn
<1>7. /\ AsBought(u) = u
      /\ \A day : RollingPositionSizes(u, day) = PositionSizes(u, day)
      /\ \A k \in DOMAIN u.lots : SoldOf(u, k, DOMAIN u.events) = 0
  BY <1>1, <1>4, <1>6, NothingSold
<1>8. \A k \in DOMAIN u.lots : RollingLotOK(u.lots[k])
  BY <1>1, <1>2, <1>3 DEF LotOK, RollingLotOK, Lot
<1>9. \A d \in DOMAIN u.receivables : ReceivableOK(u.receivables[d])
  BY <1>1 DEF Verified, EntriesValid
<1>10. \A i \in DOMAIN u.events : u.events[i].notional > 0
  BY <1>1 DEF Verified, EntriesValid
<1>11. RollingCashReplays(u)
  <2>1. \A i \in DOMAIN u.events : RollingSettled(u.events[i]) = Settled(u.events[i])
    BY <1>5 DEF RollingSettled
  <2> QED BY <1>1, <2>1 DEF Verified, RollingCashReplays, CashReplays
<1>12. EventsInOrder(u)
  BY <1>1 DEF Verified, EventsInOrder
<1>13. FillsMatchLots(u)
  <2>1. \A e : \A k \in DOMAIN l.lots : FillMatches(e, u.lots[k]) <=> FillMatches(e, l.lots[k])
    BY <1>2 DEF FillMatches, LotCost
  <2>2. FillsMatchLots(l)
    BY DEF Verified
  <2>3. \A i, j \in DOMAIN u.lots : u.lots[i].id = u.lots[j].id => i = j
    BY <1>1, <1>2, <2>2 DEF FillsMatchLots
  <2>4. \A i, j \in DOMAIN u.events :
          /\ u.events[i].kind = "fill" /\ u.events[j].kind = "fill"
          /\ u.events[i].ref = u.events[j].ref
          => i = j
    BY <1>1, <2>2 DEF FillsMatchLots
  <2>5. \A i \in DOMAIN u.events : u.events[i].kind = "fill" =>
          \E k \in DOMAIN u.lots : FillMatches(u.events[i], u.lots[k])
    BY <1>1, <2>1, <2>2 DEF FillsMatchLots
  <2>6. \A k \in DOMAIN u.lots : \E i \in DOMAIN u.events :
          u.events[i].kind = "fill" /\ u.events[i].ref = u.lots[k].id
    BY <1>1, <1>2, <2>2 DEF FillsMatchLots
  <2> QED BY <2>3, <2>4, <2>5, <2>6 DEF FillsMatchLots
<1>14. LotsInBuyOrder(u)
  BY <1>1, <1>2 DEF LotsInBuyOrder
<1>15. PaymentsMatchReceivables(u)
  BY <1>1 DEF Verified, PaymentsMatchReceivables
<1>16. ASSUME NEW day PROVE PositionSizes(u, day) = PositionSizes(l, day)
  <2>1. ASSUME NEW y PROVE HeldLots(u, y, day) = HeldLots(l, y, day)
    BY <1>1, <1>2 DEF HeldLots
  <2>2. ASSUME NEW S \in SUBSET DOMAIN l.lots PROVE SizeOf(u.lots, S) = SizeOf(l.lots, S)
    <3>1. [k \in S |-> u.lots[k].remaining] = [k \in S |-> l.lots[k].remaining]
      BY <1>2
    <3> QED BY <3>1 DEF SizeOf
  <2>3. \A y : {k \in HeldLots(l, y, day) : u.lots[k].available <= day}
               = {k \in HeldLots(l, y, day) : l.lots[k].available <= day}
    BY <1>2 DEF HeldLots
  <2>4. ASSUME NEW y
        PROVE  /\ SizeOf(u.lots, HeldLots(u, y, day)) = SizeOf(l.lots, HeldLots(l, y, day))
               /\ SizeOf(u.lots, {k \in HeldLots(u, y, day) : u.lots[k].available <= day})
                  = SizeOf(l.lots, {k \in HeldLots(l, y, day) : l.lots[k].available <= day})
    <3>1. HeldLots(l, y, day) \in SUBSET DOMAIN l.lots
      BY DEF HeldLots
    <3>2. {k \in HeldLots(l, y, day) : l.lots[k].available <= day} \in SUBSET DOMAIN l.lots
      BY <3>1
    <3> QED BY <2>1, <2>2, <2>3, <3>1, <3>2
  <2> DEFINE held(x) == {s \in Symbols : HeldLots(x, s, day) # {}}
             row(x, y) == [total     |-> SizeOf(x.lots, HeldLots(x, y, day)),
                           available |-> SizeOf(x.lots, {i \in HeldLots(x, y, day) :
                                                           x.lots[i].available <= day})]
  <2>5. held(u) = held(l)
    BY <2>1
  <2>6. \A y : row(u, y) = row(l, y)
    BY <2>4
  <2>7. [y \in held(u) |-> row(u, y)] = [y \in held(l) |-> row(l, y)]
    <3> HIDE DEF held, row
    <3> QED BY <2>5, <2>6
  <2> QED BY <2>7 DEF PositionSizes
<1>17. /\ \A day : OverdueBy(u, day) <=> OverdueBy(l, day)
       /\ \A day : Outstanding(u, day) = Outstanding(l, day)
       /\ \A day, cash : CashAsOf(u, day, cash) <=> CashAsOf(l, day, cash)
  BY <1>1 DEF OverdueBy, Outstanding, CashAsOf
<1>18. \A i \in DOMAIN u.snapshots : RollingSnapshotReconciles(u, u.snapshots[i])
  BY <1>1, <1>7, <1>16, <1>17
     DEF Verified, SnapshotsReconcile, SnapshotReconciles, RollingSnapshotReconciles
<1>19. \A i, j \in DOMAIN u.snapshots : i < j => u.snapshots[i].date < u.snapshots[j].date
  BY <1>1 DEF Verified, SnapshotsReconcile
<1>20. \A i \in SellsIn(u, DOMAIN u.events) : SellReplays(u, i)
  BY <1>6
<1>21. FillsMatchLots(AsBought(u))
  BY <1>7, <1>13
<1>22. \A k \in DOMAIN u.lots :
          u.lots[k].remaining = u.lots[k].original - SoldOf(u, k, DOMAIN u.events)
  <2> SUFFICES ASSUME NEW k \in DOMAIN u.lots
               PROVE  u.lots[k].remaining = u.lots[k].original - SoldOf(u, k, DOMAIN u.events)
    OBVIOUS
  <2>1. u.lots[k].remaining = u.lots[k].original /\ u.lots[k].original \in Nat
    BY <1>1, <1>2, <1>3 DEF Lot
  <2> QED BY <1>7, <2>1
<1>23. RollingVerified(u)
  BY <1>8, <1>9, <1>10, <1>11, <1>12, <1>14, <1>15, <1>18, <1>19, <1>20, <1>21, <1>22
     DEF RollingVerified
<1> QED BY <1>23 DEF u

-----------------------------------------------------------------------------
(* A rolling ledger that grew still replays its past *)

\* The same lot, but for what is left of it.
SameLot(x, y) ==
    /\ x.id = y.id /\ x.symbol = y.symbol /\ x.acquired = y.acquired
    /\ x.available = y.available /\ x.original = y.original /\ x.cost = y.cost

\* u has the events and lots of l, and perhaps lots that no event of l bought.
Extends(l, u) ==
    /\ Len(l.events) <= Len(u.events)
    /\ \A i \in 1 .. Len(l.events) : u.events[i] = l.events[i]
    /\ Len(l.lots) <= Len(u.lots)
    /\ \A k \in 1 .. Len(l.lots) : SameLot(u.lots[k], l.lots[k])
    /\ \A k \in 1 .. Len(u.lots) : k > Len(l.lots) =>
          \A i \in 1 .. Len(l.events) :
             l.events[i].kind = "fill" => l.events[i].ref # u.lots[k].id

\* The same by domains, for typed ledgers.
LEMMA ExtendsFields ==
    ASSUME NEW l, NEW u, RollingType(l), RollingType(u), Extends(l, u)
    PROVE  /\ DOMAIN l.events \subseteq DOMAIN u.events
           /\ DOMAIN l.lots \subseteq DOMAIN u.lots
           /\ \A i \in DOMAIN l.events : u.events[i] = l.events[i]
           /\ \A k \in DOMAIN l.lots : SameLot(u.lots[k], l.lots[k])
           /\ \A k \in DOMAIN u.lots \ DOMAIN l.lots : \A i \in DOMAIN l.events :
                 l.events[i].kind = "fill" => l.events[i].ref # u.lots[k].id
<1>1. /\ Len(l.lots) \in Nat /\ DOMAIN l.lots = 1 .. Len(l.lots)
      /\ Len(l.events) \in Nat /\ DOMAIN l.events = 1 .. Len(l.events)
  BY RollingFields
<1>2. /\ Len(u.lots) \in Nat /\ DOMAIN u.lots = 1 .. Len(u.lots)
      /\ Len(u.events) \in Nat /\ DOMAIN u.events = 1 .. Len(u.events)
  BY RollingFields
<1> QED BY <1>1, <1>2 DEF Extends

\* What was sold by past events is what it was, and so are the lots after them.
LEMMA PastSold ==
    ASSUME NEW l, NEW u, RollingType(l), RollingType(u), Extends(l, u),
           NEW I \in SUBSET DOMAIN l.events
    PROVE  /\ \A k : SoldOf(u, k, I) = SoldOf(l, k, I)
           /\ \A k \in DOMAIN l.lots : LotsAfter(u, I)[k] = LotsAfter(l, I)[k]
           /\ \A k \in DOMAIN u.lots : /\ LotsAfter(u, I)[k].symbol = u.lots[k].symbol
                                       /\ LotsAfter(u, I)[k].acquired = u.lots[k].acquired
           /\ DOMAIN LotsAfter(u, I) = DOMAIN u.lots /\ DOMAIN LotsAfter(l, I) = DOMAIN l.lots
<1>1. /\ DOMAIN l.lots \subseteq DOMAIN u.lots
      /\ \A i \in I : u.events[i] = l.events[i]
      /\ \A k \in DOMAIN l.lots : SameLot(u.lots[k], l.lots[k])
  BY ExtendsFields
<1>2. /\ \A k \in DOMAIN l.lots : l.lots[k] \in RollingLot
      /\ \A k \in DOMAIN u.lots : u.lots[k] \in RollingLot
  BY RollingFields
<1>3. ASSUME NEW k PROVE SoldOf(u, k, I) = SoldOf(l, k, I)
  <2> DEFINE D(x) == {i \in SellsIn(x, I) : k \in DOMAIN x.events[i].consumed}
  <2>1. D(u) = D(l)
    BY <1>1 DEF SellsIn
  <2>2. D(l) \subseteq I
    BY DEF SellsIn
  <2> HIDE DEF D
  <2>3. [i \in D(u) |-> u.events[i].consumed[k]] = [i \in D(l) |-> l.events[i].consumed[k]]
    BY <1>1, <2>1, <2>2
  <2> QED BY <2>3 DEF SoldOf, D
<1>4. ASSUME NEW k \in DOMAIN l.lots PROVE LotsAfter(u, I)[k] = LotsAfter(l, I)[k]
  <2> DEFINE r == l.lots[k].original - SoldOf(l, k, I)
  <2>1. /\ LotsAfter(l, I)[k] = [l.lots[k] EXCEPT !.remaining = r]
        /\ LotsAfter(u, I)[k] = [u.lots[k] EXCEPT !.remaining = u.lots[k].original - SoldOf(u, k, I)]
    BY <1>1 DEF LotsAfter
  <2>2. u.lots[k].original = l.lots[k].original
    BY <1>1 DEF SameLot
  <2>3. LotsAfter(u, I)[k] = [u.lots[k] EXCEPT !.remaining = r]
    BY <1>3, <2>1, <2>2
  <2> HIDE DEF r
  <2>4. [u.lots[k] EXCEPT !.remaining = r] = [l.lots[k] EXCEPT !.remaining = r]
    BY <1>1, <1>2 DEF SameLot, RollingLot
  <2> QED BY <2>1, <2>3, <2>4
<1>5. ASSUME NEW k \in DOMAIN u.lots
      PROVE  /\ LotsAfter(u, I)[k].symbol = u.lots[k].symbol
             /\ LotsAfter(u, I)[k].acquired = u.lots[k].acquired
  <2>1. LotsAfter(u, I)[k] = [u.lots[k] EXCEPT !.remaining = u.lots[k].original - SoldOf(u, k, I)]
    BY DEF LotsAfter
  <2> QED BY <1>2, <2>1 DEF RollingLot
<1>6. DOMAIN LotsAfter(u, I) = DOMAIN u.lots /\ DOMAIN LotsAfter(l, I) = DOMAIN l.lots
  BY DEF LotsAfter
<1> QED BY <1>3, <1>4, <1>5, <1>6

\* A sell takes the same of lots that are the same.
LEMMA SameFifo ==
    ASSUME NEW s, NEW t, NEW G, NEW n, \A k \in G : s[k] = t[k]
    PROVE  ConsumeFifo(s, G, n) = ConsumeFifo(t, G, n)
<1>1. ASSUME NEW k \in G PROVE SizeOf(s, {j \in G : j < k}) = SizeOf(t, {j \in G : j < k})
  <2>1. \A i \in {j \in G : j < k} : s[i] = t[i]
    OBVIOUS
  <2> QED BY <2>1, SameSize
<1> DEFINE f(k) == Max({0, Min({s[k].remaining, n - SizeOf(s, {j \in G : j < k})})})
           g(k) == Max({0, Min({t[k].remaining, n - SizeOf(t, {j \in G : j < k})})})
<1>2. \A k \in G : f(k) = g(k)
  BY <1>1
<1>3. [k \in G |-> f(k)] = [k \in G |-> g(k)]
  <2> HIDE DEF f, g
  <2> QED BY <1>2
<1> QED BY <1>3 DEF ConsumeFifo

\* verify_rolling_ledger: a past sell still replays.
LEMMA PastSells ==
    ASSUME NEW l, NEW u, RollingType(l), RollingType(u), Extends(l, u),
           NEW i \in SellsIn(l, DOMAIN l.events), SellReplays(l, i)
    PROVE  SellReplays(u, i)
<1> DEFINE I == 1 .. i - 1
           e == l.events[i]
           s == LotsAfter(l, I)
           t == LotsAfter(u, I)
           own(x, r) == {k \in BoughtBefore(x, i) : r[k].symbol = e.symbol}
           mayGo(x, r) == {k \in own(x, r) : r[k].available <= e.date}
<1>1. /\ Len(l.events) \in Nat /\ DOMAIN l.events = 1 .. Len(l.events)
  BY RollingFields
<1>2. i \in DOMAIN l.events /\ u.events[i] = e
  BY ExtendsFields DEF SellsIn
<1>3. I \in SUBSET DOMAIN l.events
  BY <1>1, <1>2
<1>4. BoughtBefore(u, i) = BoughtBefore(l, i) /\ BoughtBefore(l, i) \subseteq DOMAIN l.lots
  <2>a. /\ DOMAIN l.lots \subseteq DOMAIN u.lots
        /\ \A j \in DOMAIN l.events : u.events[j] = l.events[j]
        /\ \A k \in DOMAIN l.lots : SameLot(u.lots[k], l.lots[k])
        /\ \A k \in DOMAIN u.lots \ DOMAIN l.lots : \A j \in DOMAIN l.events :
              l.events[j].kind = "fill" => l.events[j].ref # u.lots[k].id
    BY ExtendsFields
  <2>1. /\ DOMAIN l.lots \subseteq DOMAIN u.lots
        /\ \A j \in I : j \in DOMAIN l.events /\ u.events[j] = l.events[j]
        /\ \A k \in DOMAIN l.lots : u.lots[k].id = l.lots[k].id
        /\ \A k \in DOMAIN u.lots \ DOMAIN l.lots : \A j \in DOMAIN l.events :
              l.events[j].kind = "fill" => l.events[j].ref # u.lots[k].id
    BY <1>3, <2>a DEF SameLot
  <2> HIDE DEF I
  <2>2. {k \in DOMAIN u.lots : \E j \in I : u.events[j].kind = "fill" /\ u.events[j].ref = u.lots[k].id}
        = {k \in DOMAIN l.lots : \E j \in I : l.events[j].kind = "fill" /\ l.events[j].ref = l.lots[k].id}
    BY <2>1
  <2> QED BY <2>2 DEF BoughtBefore, I
<1>5. \A k \in DOMAIN l.lots : t[k] = s[k]
  BY <1>3, PastSold
<1> HIDE DEF s, t, I
<1>6. own(u, t) = own(l, s) /\ own(l, s) \subseteq DOMAIN l.lots
  BY <1>4, <1>5
<1>7. mayGo(u, t) = mayGo(l, s) /\ mayGo(l, s) \subseteq DOMAIN l.lots
  BY <1>5, <1>6
<1> HIDE DEF own, mayGo
<1>8. /\ e.price > 0
      /\ e.size <= SizeOf(s, mayGo(l, s))
      /\ ValidSellSize(SizeOf(s, own(l, s)), e.size)
      /\ e.consumed = Positive(ConsumeFifo(s, mayGo(l, s), e.size))
      /\ e.notional = NotionalFen(e.price, e.size)
  BY DEF SellReplays, I, s, own, mayGo
<1>9. /\ SizeOf(t, mayGo(l, s)) = SizeOf(s, mayGo(l, s))
      /\ SizeOf(t, own(l, s)) = SizeOf(s, own(l, s))
  BY <1>5, <1>6, <1>7, SameSize
<1>10. ConsumeFifo(t, mayGo(l, s), e.size) = ConsumeFifo(s, mayGo(l, s), e.size)
  BY <1>5, <1>7, SameFifo
<1>11. /\ e.price > 0
       /\ e.size <= SizeOf(t, mayGo(u, t))
       /\ ValidSellSize(SizeOf(t, own(u, t)), e.size)
       /\ e.consumed = Positive(ConsumeFifo(t, mayGo(u, t), e.size))
       /\ e.notional = NotionalFen(e.price, e.size)
  BY <1>6, <1>7, <1>8, <1>9, <1>10
<1> QED BY <1>2, <1>11 DEF SellReplays, I, t, own, mayGo

\* A day before everything new keeps its reconstructed positions.
LEMMA PastPositions ==
    ASSUME NEW l, NEW u, RollingType(l), RollingType(u), Extends(l, u), NEW day \in Nat,
           \A i \in DOMAIN u.events \ DOMAIN l.events : u.events[i].date > day,
           \A k \in DOMAIN u.lots \ DOMAIN l.lots : u.lots[k].acquired > day
    PROVE  RollingPositionSizes(u, day) = RollingPositionSizes(l, day)
<1> DEFINE I == EventsBy(l, day)
           s == [l EXCEPT !.lots = LotsAfter(l, I)]
           t == [u EXCEPT !.lots = LotsAfter(u, I)]
<1>1. EventsBy(u, day) = I
  <2>1. \A i \in DOMAIN u.events : RollingEventType(u, u.events[i])
    BY DEF RollingType
  <2>2. \A i \in DOMAIN u.events : u.events[i].date \in Nat
    BY <2>1 DEF RollingEventType
  <2> QED BY <2>2, ExtendsFields DEF EventsBy
<1>2. I \in SUBSET DOMAIN l.events
  BY DEF EventsBy
<1>3. s.lots = LotsAfter(l, I) /\ t.lots = LotsAfter(u, I)
  BY DEF RollingType
<1>4. /\ DOMAIN s.lots = DOMAIN l.lots /\ DOMAIN t.lots = DOMAIN u.lots
      /\ \A k \in DOMAIN l.lots : t.lots[k] = s.lots[k]
      /\ \A k \in DOMAIN u.lots : t.lots[k].acquired = u.lots[k].acquired
  BY <1>2, <1>3, PastSold
<1>5. \A k \in DOMAIN u.lots : u.lots[k].acquired \in Nat
  BY RollingFields DEF RollingLot
<1> HIDE DEF s, t, I
<1>6. PositionSizes(t, day) = PositionSizes(s, day)
  <2>1. DOMAIN s.lots \subseteq DOMAIN t.lots
    BY <1>4, ExtendsFields
  <2>2. \A k \in DOMAIN s.lots : t.lots[k] = s.lots[k]
    BY <1>4
  <2>3. \A k \in DOMAIN t.lots \ DOMAIN s.lots : ~(t.lots[k].acquired <= day)
    BY <1>4, <1>5
  <2> QED BY <2>1, <2>2, <2>3, SameHeld
<1> DEFINE R(p) == [y \in {x \in DOMAIN p : p[x].total > 0} |-> p[y]]
<1>7. RollingPositionSizes(l, day) = R(PositionSizes(s, day))
  BY DEF RollingPositionSizes, s, I
<1>8. RollingPositionSizes(u, day) = R(PositionSizes(t, day))
  BY <1>1 DEF RollingPositionSizes, t
<1> HIDE DEF R
<1> QED BY <1>6, <1>7, <1>8

\* A date in order is later than every event and every closed day.
LEMMA RollingInOrder ==
    ASSUME NEW l, RollingType(l), RollingVerified(l), NEW date \in Nat, ~OutOfOrder(l, date)
    PROVE  /\ \A i \in DOMAIN l.events : l.events[i].date <= date
           /\ \A i \in DOMAIN l.snapshots : l.snapshots[i].date < date
<1> DEFINE n == Len(l.events)
           m == Len(l.snapshots)
<1>1. /\ n \in Nat /\ DOMAIN l.events = 1 .. n /\ (l.events = <<>> <=> n = 0)
      /\ m \in Nat /\ DOMAIN l.snapshots = 1 .. m /\ (l.snapshots = <<>> <=> m = 0)
      /\ \A i \in 1 .. m : l.snapshots[i].date \in Nat
      /\ \A i \in 1 .. n : RollingEventType(l, l.events[i])
  BY RollingFields
<1>2. \A i \in 1 .. n : l.events[i].date \in Nat
  BY <1>1 DEF RollingEventType
<1>3. ASSUME NEW i \in 1 .. n PROVE l.events[i].date <= date
  <2>1. l.events[n].date <= date
    BY <1>1, <1>2 DEF OutOfOrder
  <2>2. i < n => l.events[i].date <= l.events[n].date
    BY <1>1 DEF RollingVerified, EventsInOrder
  <2> QED BY <1>1, <1>2, <2>1, <2>2
<1>4. ASSUME NEW i \in 1 .. m PROVE l.snapshots[i].date < date
  <2>1. l.snapshots[m].date < date
    BY <1>1 DEF OutOfOrder, Closed
  <2>2. i < m => l.snapshots[i].date < l.snapshots[m].date
    BY <1>1 DEF RollingVerified
  <2> QED BY <1>1, <2>1, <2>2
<1> QED BY <1>1, <1>3, <1>4

\* A buy or a sell in order leaves the replay of everything before it alone, and
\* its own cash and id replay.
LEMMA GrownReplays ==
    ASSUME NEW l, NEW u, RollingType(l), RollingType(u), RollingVerified(l), Extends(l, u), NEW e,
           Len(u.events) = Len(l.events) + 1, u.events[Len(l.events) + 1] = e,
           u.initial = l.initial, u.cash = e.after,
           u.receivables = l.receivables, u.snapshots = l.snapshots,
           e.before = l.cash, e.after = RollingSettled(e), e.notional > 0,
           e.id \notin EventIds(l), e.kind # "dividend", ~OutOfOrder(l, e.date),
           \A k \in DOMAIN u.lots \ DOMAIN l.lots : u.lots[k].acquired = e.date
    PROVE  /\ \A d \in DOMAIN u.receivables : ReceivableOK(u.receivables[d])
           /\ \A i \in DOMAIN u.events : u.events[i].notional > 0
           /\ RollingCashReplays(u)
           /\ EventsInOrder(u)
           /\ \A i \in SellsIn(u, DOMAIN l.events) : SellReplays(u, i)
           /\ PaymentsMatchReceivables(u)
           /\ \A i, j \in DOMAIN u.snapshots : i < j => u.snapshots[i].date < u.snapshots[j].date
           /\ \A i \in DOMAIN u.snapshots : RollingSnapshotReconciles(u, u.snapshots[i])
<1> DEFINE n == Len(l.events)
<1>1. /\ n \in Nat /\ DOMAIN l.events = 1 .. n /\ DOMAIN u.events = 1 .. n + 1
      /\ l.events = <<>> <=> n = 0
      /\ u.events # <<>>
      /\ \A i \in 1 .. n : u.events[i] = l.events[i]
      /\ l.cash \in Nat
  <2>1. /\ n \in Nat /\ DOMAIN l.events = 1 .. n /\ l.cash \in Nat
        /\ l.events = <<>> <=> n = 0
    BY RollingFields
  <2>2. DOMAIN u.events = 1 .. n + 1 /\ (u.events = <<>> <=> Len(u.events) = 0)
    BY RollingFields
  <2> QED BY <2>1, <2>2 DEF Extends
<1>2. /\ n + 1 \in DOMAIN u.events /\ u.events[n + 1] = e
      /\ \A i \in DOMAIN u.events : i = n + 1 \/ i \in DOMAIN l.events
      /\ \A i \in DOMAIN l.events : i \in DOMAIN u.events /\ i # n + 1 /\ i < n + 1
      /\ \A i \in DOMAIN u.events : u.events[i].date \in Nat
  <2>1. \A i \in DOMAIN u.events : RollingEventType(u, u.events[i])
    BY DEF RollingType
  <2> QED BY <1>1, <2>1 DEF RollingEventType
<1>3. /\ \A i \in DOMAIN l.events : l.events[i].date <= e.date
      /\ \A i \in DOMAIN l.snapshots : l.snapshots[i].date < e.date
  BY <1>2, RollingInOrder
<1>4. \A i \in DOMAIN u.events : u.events[i].notional > 0
  BY <1>1, <1>2 DEF RollingVerified
<1>5. RollingCashReplays(u)
  <2>1. RollingCashReplays(l)
    BY DEF RollingVerified
  <2>2. l.cash = IF n = 0 THEN l.initial ELSE l.events[n].after
    BY <1>1, <2>1 DEF RollingCashReplays
  <2>3. e.after >= 0
    <3>1. RollingEventType(u, e)
      BY <1>2 DEF RollingType
    <3> QED BY <3>1 DEF RollingEventType
  <2>4. ASSUME NEW i \in DOMAIN u.events
        PROVE  /\ u.events[i].before = IF i = 1 THEN u.initial ELSE u.events[i-1].after
               /\ u.events[i].after = RollingSettled(u.events[i])
               /\ u.events[i].after >= 0
    <3>1. CASE i = n + 1
      <4>1. e.before = IF i = 1 THEN u.initial ELSE u.events[i-1].after
        <5>1. CASE n = 0
          BY <2>2, <3>1, <5>1
        <5>2. CASE n # 0
          <6>1. i # 1 /\ i - 1 = n /\ u.events[n] = l.events[n]
            BY <1>1, <3>1, <5>2
          <6> QED BY <2>2, <5>2, <6>1
        <5> QED BY <5>1, <5>2
      <4> QED BY <1>2, <2>3, <3>1, <4>1
    <3>2. CASE i \in DOMAIN l.events
      <4>1. u.events[i] = l.events[i] /\ (i # 1 => u.events[i-1] = l.events[i-1])
        BY <1>1, <3>2, SMTT(30)
      <4>2. /\ l.events[i].before = IF i = 1 THEN l.initial ELSE l.events[i-1].after
            /\ l.events[i].after = RollingSettled(l.events[i])
            /\ l.events[i].after >= 0
        BY <2>1, <3>2 DEF RollingCashReplays
      <4> HIDE DEF n
      <4>3. CASE i = 1
        BY <4>1, <4>2, <4>3
      <4>4. CASE i # 1
        BY <4>1, <4>2, <4>4
      <4> QED BY <4>3, <4>4
    <3> QED BY <1>2, <3>1, <3>2
  <2>5. u.cash = IF u.events = <<>> THEN u.initial ELSE u.events[Len(u.events)].after
    BY <1>1
  <2> QED BY <2>4, <2>5 DEF RollingCashReplays
<1>6. EventsInOrder(u)
  <2>1. ASSUME NEW i \in DOMAIN u.events, NEW j \in DOMAIN u.events, i < j
        PROVE  u.events[i].date <= u.events[j].date /\ u.events[i].id # u.events[j].id
    <3>1. i \in DOMAIN l.events /\ u.events[i] = l.events[i]
      BY <1>1, <2>1
    <3>2. CASE j = n + 1
      BY <1>2, <1>3, <3>1, <3>2 DEF EventIds
    <3>3. CASE j \in DOMAIN l.events
      <4>1. u.events[j] = l.events[j]
        BY <1>1, <3>3
      <4>2. EventsInOrder(l)
        BY DEF RollingVerified
      <4> QED BY <2>1, <3>1, <3>3, <4>1, <4>2 DEF EventsInOrder
    <3> QED BY <1>2, <3>2, <3>3
  <2> QED BY <2>1 DEF EventsInOrder
<1>7. \A i \in SellsIn(u, DOMAIN l.events) : SellReplays(u, i)
  <2> SUFFICES ASSUME NEW i \in SellsIn(u, DOMAIN l.events) PROVE SellReplays(u, i)
    OBVIOUS
  <2>1. i \in SellsIn(l, DOMAIN l.events)
    BY <1>1 DEF SellsIn
  <2>2. SellReplays(l, i)
    BY <2>1 DEF RollingVerified
  <2> QED BY <2>1, <2>2, PastSells
<1>8. PaymentsMatchReceivables(u)
  <2>1. \A i \in DOMAIN u.events : u.events[i].kind = "dividend" =>
           i \in DOMAIN l.events /\ u.events[i] = l.events[i]
    BY <1>1, <1>2
  <2>2. \A i \in DOMAIN l.events : i \in DOMAIN u.events /\ u.events[i] = l.events[i]
    BY <1>1, <1>2
  <2>3. PaymentsMatchReceivables(l)
    BY DEF RollingVerified
  <2>4. \A i, j \in DOMAIN u.events :
          /\ u.events[i].kind = "dividend" /\ u.events[j].kind = "dividend"
          /\ u.events[i].ref = u.events[j].ref
          => i = j
    BY <2>1, <2>3 DEF PaymentsMatchReceivables
  <2>5. \A i \in DOMAIN u.events : u.events[i].kind = "dividend" =>
          /\ u.events[i].ref \in DOMAIN u.receivables
          /\ u.receivables[u.events[i].ref].paid # NoDate
          /\ PaymentMatches(u.events[i], u.receivables[u.events[i].ref])
    BY <2>1, <2>3 DEF PaymentsMatchReceivables
  <2>6. \A d \in DOMAIN u.receivables : u.receivables[d].paid # NoDate =>
          \E i \in DOMAIN u.events : u.events[i].kind = "dividend" /\ u.events[i].ref = d
    BY <2>2, <2>3 DEF PaymentsMatchReceivables
  <2> QED BY <2>4, <2>5, <2>6 DEF PaymentsMatchReceivables
<1>9. ASSUME NEW i \in DOMAIN u.snapshots PROVE RollingSnapshotReconciles(u, u.snapshots[i])
  <2> DEFINE s == l.snapshots[i]
  <2>1. s.date \in Nat /\ s.date < e.date /\ RollingSnapshotReconciles(l, s) /\ u.snapshots[i] = s
    BY <1>3 DEF RollingType, RollingVerified
  <2> HIDE DEF s
  <2>2. RollingPositionSizes(u, s.date) = RollingPositionSizes(l, s.date)
    <3>1. \A j \in DOMAIN u.events \ DOMAIN l.events : u.events[j].date > s.date
      BY <1>2, <2>1
    <3>2. \A k \in DOMAIN u.lots \ DOMAIN l.lots : u.lots[k].acquired > s.date
      BY <1>2, <2>1
    <3> QED BY <2>1, <3>1, <3>2, PastPositions
  <2>3. CashAsOf(u, s.date, s.cash)
    <3>1. CashAsOf(l, s.date, s.cash)
      BY <2>1 DEF RollingSnapshotReconciles
    <3>2. e.date > s.date
      BY <1>2, <2>1
    <3>3. CASE (\A j \in DOMAIN l.events : l.events[j].date > s.date) /\ s.cash = l.initial
      BY <1>1, <1>2, <3>2, <3>3 DEF CashAsOf
    <3>4. CASE \E j \in DOMAIN l.events :
                 /\ l.events[j].date <= s.date
                 /\ \A h \in DOMAIN l.events : h > j => l.events[h].date > s.date
                 /\ s.cash = l.events[j].after
      <4>1. PICK j \in DOMAIN l.events :
                 /\ l.events[j].date <= s.date
                 /\ \A h \in DOMAIN l.events : h > j => l.events[h].date > s.date
                 /\ s.cash = l.events[j].after
        BY <3>4
      <4>2. \A h \in DOMAIN u.events : h > j => u.events[h].date > s.date
        BY <1>1, <1>2, <3>2, <4>1
      <4>3. j \in DOMAIN u.events /\ u.events[j] = l.events[j]
        BY <1>1, <1>2
      <4> QED BY <4>1, <4>2, <4>3 DEF CashAsOf
    <3> QED BY <3>1, <3>3, <3>4 DEF CashAsOf
  <2>4. /\ OverdueBy(u, s.date) <=> OverdueBy(l, s.date)
        /\ Outstanding(u, s.date) = Outstanding(l, s.date)
    BY DEF OverdueBy, Outstanding
  <2> QED BY <2>1, <2>2, <2>3, <2>4 DEF RollingSnapshotReconciles
<1>10. \A d \in DOMAIN u.receivables : ReceivableOK(u.receivables[d])
  BY DEF RollingVerified
<1>11. \A i, j \in DOMAIN u.snapshots : i < j => u.snapshots[i].date < u.snapshots[j].date
  BY DEF RollingVerified
<1> QED BY <1>4, <1>5, <1>6, <1>7, <1>8, <1>9, <1>10, <1>11

\* A lot as it was bought: the one before any event.
FillLot(x, y) ==
    /\ x.id = y.id /\ x.symbol = y.symbol /\ x.acquired = y.acquired
    /\ x.remaining = y.original /\ x.cost = y.cost

\* Before any event the lots are as they were bought.
LEMMA AsBoughtFields ==
    ASSUME NEW l, RollingType(l)
    PROVE  /\ AsBought(l).events = l.events
           /\ DOMAIN AsBought(l).lots = DOMAIN l.lots
           /\ \A k \in DOMAIN l.lots : FillLot(AsBought(l).lots[k], l.lots[k])
<1>1. AsBought(l).events = l.events /\ AsBought(l).lots = LotsAfter(l, {})
  BY DEF AsBought, RollingType
<1>2. DOMAIN LotsAfter(l, {}) = DOMAIN l.lots
  BY DEF LotsAfter
<1>3. ASSUME NEW k \in DOMAIN l.lots PROVE FillLot(LotsAfter(l, {})[k], l.lots[k])
  <2>1. l.lots[k] \in RollingLot
    BY RollingFields
  <2>2. SoldOf(l, k, {}) = 0
    <3>1. SellsIn(l, {}) = {}
      BY DEF SellsIn
    <3> QED BY <3>1, SoldOfNothing
  <2>3. LotsAfter(l, {})[k] = [l.lots[k] EXCEPT !.remaining = l.lots[k].original - SoldOf(l, k, {})]
    BY DEF LotsAfter
  <2>4. l.lots[k].original - SoldOf(l, k, {}) = l.lots[k].original
    BY <2>1, <2>2 DEF RollingLot
  <2> QED BY <2>1, <2>3, <2>4 DEF FillLot, RollingLot
<1> QED BY <1>1, <1>2, <1>3

-----------------------------------------------------------------------------
(* post_rolling_buy *)

\* The lots stay in the order of their fills when both grow by one.
LEMMA NewestLast ==
    ASSUME NEW l, NEW u, NEW n \in Nat, NEW m \in Nat, LotsInBuyOrder(l),
           DOMAIN l.events = 1 .. n, DOMAIN u.events = 1 .. n + 1,
           DOMAIN l.lots = 1 .. m, DOMAIN u.lots = 1 .. m + 1,
           \A i \in 1 .. n : u.events[i] = l.events[i],
           \A k \in 1 .. m : u.lots[k].id = l.lots[k].id,
           u.events[n + 1].ref = u.lots[m + 1].id, u.lots[m + 1].id \notin LotIds(l),
           \A i \in 1 .. n : l.events[i].kind = "fill" => l.events[i].ref \in LotIds(l)
    PROVE  LotsInBuyOrder(u)
<1> SUFFICES ASSUME NEW i \in 1 .. n + 1, NEW j \in 1 .. n + 1,
                    NEW k \in 1 .. m + 1, NEW h \in 1 .. m + 1, i < j,
                    u.events[i].kind = "fill", u.events[j].kind = "fill",
                    u.lots[k].id = u.events[i].ref, u.lots[h].id = u.events[j].ref
             PROVE  k < h
  BY DEF LotsInBuyOrder
<1>1. i \in 1 .. n /\ u.events[i] = l.events[i]
  OBVIOUS
<1>2. k \in 1 .. m
  <2>1. u.lots[k].id \in LotIds(l)
    BY <1>1
  <2>2. k # m + 1
    BY <2>1
  <2> QED BY <2>2
<1>3. CASE j = n + 1
  <2>1. h = m + 1
    <3> SUFFICES ASSUME h \in 1 .. m PROVE FALSE
      OBVIOUS
    <3>1. l.lots[h].id \in LotIds(l) /\ u.lots[h].id = l.lots[h].id
      BY DEF LotIds
    <3> QED BY <1>3, <3>1
  <2> QED BY <1>2, <2>1
<1>4. CASE j \in 1 .. n
  <2>1. u.events[j] = l.events[j]
    BY <1>4
  <2>2. h \in 1 .. m
    <3>1. u.lots[h].id \in LotIds(l)
      BY <1>4, <2>1
    <3>2. h # m + 1
      BY <3>1
    <3> QED BY <3>2
  <2>3. l.lots[k].id = l.events[i].ref /\ l.lots[h].id = l.events[j].ref
    BY <1>1, <1>2, <2>1, <2>2
  <2> QED BY <1>1, <1>2, <1>4, <2>1, <2>2, <2>3 DEF LotsInBuyOrder
<1> QED BY <1>3, <1>4

\* post_rolling_buy: the fields of the ledger it builds, and its type.
LEMMA RollingBoughtFields ==
    ASSUME NEW l, RollingType(l), NEW p \in RollingPostings, ~BuyRefused(PurseOf(l), p)
    PROVE  LET u == RollingBought(l, p)
               n == Len(l.events)
               m == Len(l.lots)
               e == BuyEvent(l, p)
           IN  /\ RollingType(u)
               /\ u.initial = l.initial /\ u.cash = e.after
               /\ u.receivables = l.receivables /\ u.snapshots = l.snapshots
               /\ Len(u.lots) = m + 1 /\ u.lots[m + 1] = AsRollingLot(p.lot)
               /\ \A i \in 1 .. m : u.lots[i] = l.lots[i]
               /\ Len(u.events) = n + 1 /\ u.events[n + 1] = e
               /\ \A i \in 1 .. n : u.events[i] = l.events[i]
               /\ p.lot \in Lot /\ LotOK(p.lot)
               /\ e.id = p.event /\ e.kind = "fill" /\ e.date = p.lot.acquired
               /\ e.symbol = p.lot.symbol /\ e.ref = p.lot.id
               /\ e.notional = LotCost(p.lot) /\ e.notional > 0
               /\ e.before = l.cash /\ e.after = RollingSettled(e)
<1> DEFINE u == RollingBought(l, p)
           e == BuyEvent(l, p)
           x == AsRollingLot(p.lot)
<1>1. /\ u.initial = l.initial /\ u.cash = e.after
      /\ u.receivables = l.receivables /\ u.snapshots = l.snapshots
      /\ u.lots = Append(l.lots, x) /\ u.events = Append(l.events, e)
  BY DEF RollingBought, RollingType
<1>2. p.lot \in Lot /\ p.fees \in Nat /\ LotOK(p.lot)
  BY RollingPostingsAssumption DEF BuyRefused
<1>3. LotCost(p.lot) \in Nat /\ LotCost(p.lot) > 0
  BY <1>2, LotCostPositive
<1>4. x \in RollingLot
  BY <1>2 DEF AsRollingLot, Lot, RollingLot
<1>5. /\ Append(l.lots, x) \in Seq(RollingLot)
      /\ Len(u.lots) = Len(l.lots) + 1 /\ u.lots[Len(l.lots) + 1] = x
      /\ \A i \in 1 .. Len(l.lots) : u.lots[i] = l.lots[i]
  <2> HIDE DEF x
  <2>1. l.lots \in Seq(RollingLot)
    BY RollingFields
  <2> QED BY <1>1, <1>4, <2>1, AppendProperties
<1>6. /\ u.events \in Seq(Range(u.events)) /\ DOMAIN u.events = 1 .. Len(l.events) + 1
      /\ Len(u.events) = Len(l.events) + 1 /\ u.events[Len(l.events) + 1] = e
      /\ \A i \in 1 .. Len(l.events) : u.events[i] = l.events[i]
  <2>1. l.events \in Seq(Range(l.events))
    BY RollingFields
  <2> HIDE DEF e
  <2> QED BY <1>1, <2>1, AppendToRange
<1>7. /\ e.id = p.event /\ e.kind = "fill" /\ e.date = p.lot.acquired
      /\ e.symbol = p.lot.symbol /\ e.ref = p.lot.id
      /\ e.notional = LotCost(p.lot) /\ e.fees = p.fees /\ e.before = l.cash
      /\ e.after = CashAfterFill(l.cash, LotCost(p.lot), p.fees)
  BY DEF BuyEvent
<1>8. e.after = l.cash - LotCost(p.lot) - p.fees
  BY <1>7 DEF CashAfterFill
<1>9. e.after >= 0
  <2>1. PurseOf(l).cash = l.cash
    BY DEF PurseOf, CreateLedger
  <2>2. BuyEvent(PurseOf(l), p).after = e.after
    BY <2>1 DEF BuyEvent
  <2>3. ~(e.after < 0)
    BY <2>2 DEF BuyRefused
  <2>4. l.cash \in Nat
    BY RollingFields
  <2> HIDE DEF e
  <2> QED BY <1>2, <1>3, <1>8, <2>3, <2>4
<1>10. l.cash \in Nat /\ p.lot.acquired \in Nat
  BY <1>2, RollingFields DEF Lot
<1> HIDE DEF e
<1>11. {e.date, e.notional, e.fees, e.before, e.after} \subseteq Nat
  BY <1>2, <1>3, <1>7, <1>8, <1>9, <1>10
<1>12. DOMAIN l.lots \subseteq DOMAIN u.lots
  <2>1. Len(l.lots) \in Nat /\ DOMAIN l.lots = 1 .. Len(l.lots)
    BY RollingFields
  <2>2. DOMAIN u.lots = 1 .. Len(l.lots) + 1
    BY <1>1, <1>5, LenProperties
  <2> QED BY <2>1, <2>2
<1>13. \A i \in DOMAIN u.events : RollingEventType(u, u.events[i])
  <2> SUFFICES ASSUME NEW i \in 1 .. Len(l.events) + 1 PROVE RollingEventType(u, u.events[i])
    BY <1>6
  <2>1. CASE i = Len(l.events) + 1
    BY <1>6, <1>7, <1>11, <2>1 DEF RollingEventType
  <2>2. CASE i \in 1 .. Len(l.events)
    <3> HIDE DEF u
    <3>1. u.events[i] = l.events[i] /\ RollingEventType(l, l.events[i])
      BY <1>6, <2>2, RollingFields
    <3> QED BY <1>12, <3>1 DEF RollingEventType
  <2>3. Len(l.events) \in Nat
    BY RollingFields
  <2> QED BY <2>1, <2>2, <2>3
<1>14. RollingType(u)
  <2>1. u \in [initial : Nat, cash : Nat, lots : Seq(RollingLot), events : Seq(Range(u.events)),
               receivables : [DOMAIN u.receivables -> Receivable],
               snapshots : Seq(Range(u.snapshots))]
    <3>1. /\ l \in [initial : Nat, cash : Nat, lots : Seq(RollingLot),
                     events : Seq(Range(l.events)),
                     receivables : [DOMAIN l.receivables -> Receivable],
                     snapshots : Seq(Range(l.snapshots))]
          /\ e.after \in Nat
      BY <1>11 DEF RollingType
    <3>2. Append(l.events, e) \in Seq(Range(u.events))
      BY <1>1, <1>6
    <3>3. ASSUME NEW R, Append(l.events, e) \in Seq(R)
          PROVE  RollingBought(l, p) \in
                    [initial : Nat, cash : Nat, lots : Seq(RollingLot), events : Seq(R),
                     receivables : [DOMAIN l.receivables -> Receivable],
                     snapshots : Seq(Range(l.snapshots))]
      BY <1>5, <3>1, <3>3 DEF RollingBought, e
    <3> HIDE DEF u
    <3> QED BY <1>1, <3>2, <3>3 DEF u
  <2>2. /\ DOMAIN u.receivables \subseteq ReceivableIds
        /\ \A i \in DOMAIN u.snapshots : u.snapshots[i].date \in Nat
    <3> HIDE DEF u
    <3> QED BY <1>1 DEF RollingType
  <2> HIDE DEF u
  <2> QED BY <1>13, <2>1, <2>2 DEF RollingType
<1>15. e.after = RollingSettled(e)
  BY <1>7 DEF RollingSettled, Settled
<1> HIDE DEF u, x
<1>16. e.notional > 0
  BY <1>3, <1>7
<1> QED BY <1>1, <1>2, <1>5, <1>6, <1>7, <1>14, <1>15, <1>16 DEF u, e, x

\* Fills and lots correspond, at the sizes the lots were bought with.
RollingFillsMatch(l) ==
    /\ \A i, j \in DOMAIN l.lots : l.lots[i].id = l.lots[j].id => i = j
    /\ \A i, j \in DOMAIN l.events :
          /\ l.events[i].kind = "fill" /\ l.events[j].kind = "fill"
          /\ l.events[i].ref = l.events[j].ref
          => i = j
    /\ \A i \in DOMAIN l.events : l.events[i].kind = "fill" =>
          \E k \in DOMAIN l.lots :
             /\ l.lots[k].id = l.events[i].ref /\ l.lots[k].symbol = l.events[i].symbol
             /\ l.lots[k].acquired = l.events[i].date
             /\ l.events[i].notional = NotionalFen(l.lots[k].cost, l.lots[k].original)
    /\ \A k \in DOMAIN l.lots : \E i \in DOMAIN l.events :
          l.events[i].kind = "fill" /\ l.events[i].ref = l.lots[k].id

\* verify_rolling_ledger matches the fills with the lots as they were bought.
LEMMA RollingFills ==
    ASSUME NEW l, RollingType(l)
    PROVE  FillsMatchLots(AsBought(l)) <=> RollingFillsMatch(l)
<1> DEFINE b == AsBought(l)
           Same(e, x) == /\ x.id = e.ref /\ x.symbol = e.symbol /\ x.acquired = e.date
                         /\ e.notional = NotionalFen(x.cost, x.original)
<1>1. /\ b.events = l.events /\ DOMAIN b.lots = DOMAIN l.lots
      /\ \A k \in DOMAIN l.lots : FillLot(b.lots[k], l.lots[k])
  BY AsBoughtFields
<1> HIDE DEF b
<1>2. \A e : \A k \in DOMAIN l.lots : FillMatches(e, b.lots[k]) <=> Same(e, l.lots[k])
  BY <1>1 DEF FillMatches, FillLot, LotCost
<1>3. \A k \in DOMAIN l.lots : b.lots[k].id = l.lots[k].id
  BY <1>1 DEF FillLot
<1>4. RollingFillsMatch(l) <=>
        /\ \A i, j \in DOMAIN l.lots : l.lots[i].id = l.lots[j].id => i = j
        /\ \A i, j \in DOMAIN l.events :
              /\ l.events[i].kind = "fill" /\ l.events[j].kind = "fill"
              /\ l.events[i].ref = l.events[j].ref
              => i = j
        /\ \A i \in DOMAIN l.events : l.events[i].kind = "fill" =>
              \E k \in DOMAIN l.lots : Same(l.events[i], l.lots[k])
        /\ \A k \in DOMAIN l.lots : \E i \in DOMAIN l.events :
              l.events[i].kind = "fill" /\ l.events[i].ref = l.lots[k].id
  BY DEF RollingFillsMatch
<1> HIDE DEF Same
<1>5. /\ (\A i, j \in DOMAIN l.lots : l.lots[i].id = l.lots[j].id => i = j)
         <=> (\A i, j \in DOMAIN b.lots : b.lots[i].id = b.lots[j].id => i = j)
      /\ (\A k \in DOMAIN l.lots : \E i \in DOMAIN l.events :
              l.events[i].kind = "fill" /\ l.events[i].ref = l.lots[k].id)
         <=> (\A k \in DOMAIN b.lots : \E i \in DOMAIN b.events :
              b.events[i].kind = "fill" /\ b.events[i].ref = b.lots[k].id)
  BY <1>1, <1>3
<1>6. (\A i \in DOMAIN l.events : l.events[i].kind = "fill" =>
              \E k \in DOMAIN l.lots : Same(l.events[i], l.lots[k]))
      <=> (\A i \in DOMAIN b.events : b.events[i].kind = "fill" =>
              \E k \in DOMAIN b.lots : FillMatches(b.events[i], b.lots[k]))
  BY <1>1, <1>2
<1> QED BY <1>1, <1>4, <1>5, <1>6 DEF FillsMatchLots, b

\* post_rolling_buy: a buy in order, of ids not in use, always replays.
LEMMA RollingBoughtVerified ==
    ASSUME NEW l, RollingType(l), RollingVerified(l), NEW p \in RollingPostings,
           ~BuyRefused(PurseOf(l), p), ~OutOfOrder(l, p.lot.acquired),
           p.event \notin EventIds(l), p.lot.id \notin LotIds(l)
    PROVE  RollingVerified(RollingBought(l, p))
<1> DEFINE u == RollingBought(l, p)
           n == Len(l.events)
           m == Len(l.lots)
           e == BuyEvent(l, p)
           x == AsRollingLot(p.lot)
<1>1. /\ RollingType(u)
      /\ u.initial = l.initial /\ u.cash = e.after
      /\ u.receivables = l.receivables /\ u.snapshots = l.snapshots
      /\ Len(u.lots) = m + 1 /\ u.lots[m + 1] = x
      /\ \A i \in 1 .. m : u.lots[i] = l.lots[i]
      /\ Len(u.events) = n + 1 /\ u.events[n + 1] = e
      /\ \A i \in 1 .. n : u.events[i] = l.events[i]
      /\ p.lot \in Lot /\ LotOK(p.lot)
      /\ e.id = p.event /\ e.kind = "fill" /\ e.date = p.lot.acquired
      /\ e.symbol = p.lot.symbol /\ e.ref = p.lot.id
      /\ e.notional = LotCost(p.lot) /\ e.notional > 0
      /\ e.before = l.cash /\ e.after = RollingSettled(e)
  BY RollingBoughtFields
<1>2. /\ x.id = p.lot.id /\ x.symbol = p.lot.symbol /\ x.acquired = p.lot.acquired
      /\ x.available = p.lot.available /\ x.original = p.lot.remaining
      /\ x.remaining = p.lot.remaining /\ x.cost = p.lot.cost
  BY DEF AsRollingLot
<1> HIDE DEF u, e, x
<1>3. /\ m \in Nat /\ DOMAIN l.lots = 1 .. m /\ n \in Nat /\ DOMAIN l.events = 1 .. n
      /\ \A k \in 1 .. m : l.lots[k] \in RollingLot
      /\ \A i \in 1 .. n : RollingEventType(l, l.events[i])
  BY RollingFields
<1>4. DOMAIN u.lots = 1 .. m + 1 /\ DOMAIN u.events = 1 .. n + 1
  BY <1>1, RollingFields
<1> HIDE DEF n, m
<1>5. RollingFillsMatch(l)
  BY RollingFills DEF RollingVerified
<1>6. \A i \in 1 .. n : l.events[i].kind = "fill" =>
         l.events[i].ref \in LotIds(l) /\ l.events[i].ref # p.lot.id
  <2>1. \A i \in DOMAIN l.events : l.events[i].kind = "fill" =>
           \E k \in DOMAIN l.lots : l.lots[k].id = l.events[i].ref
    BY <1>5 DEF RollingFillsMatch
  <2>2. \A k \in DOMAIN l.lots : l.lots[k].id \in LotIds(l)
    BY DEF LotIds
  <2> QED BY <1>3, <2>1, <2>2
<1>7. /\ \A k \in 1 .. m + 1 : k \in 1 .. m \/ k = m + 1
      /\ \A i \in 1 .. n + 1 : i \in 1 .. n \/ i = n + 1
      /\ m + 1 \in 1 .. m + 1 /\ n + 1 \in 1 .. n + 1 /\ m + 1 \notin 1 .. m /\ n + 1 \notin 1 .. n
      /\ 1 .. m \subseteq 1 .. m + 1 /\ 1 .. n \subseteq 1 .. n + 1
      /\ n <= n + 1 /\ m <= m + 1 /\ \A k \in 1 .. m : ~(k > m)
  BY <1>3
<1>8. Extends(l, u)
  <2>1. \A k \in 1 .. m : SameLot(u.lots[k], l.lots[k])
    BY <1>1 DEF SameLot
  <2>2. \A k \in 1 .. m + 1 : k > m => u.lots[k].id = p.lot.id
    BY <1>1, <1>2, <1>7
  <2> QED BY <1>1, <1>6, <1>7, <2>1, <2>2 DEF Extends, n, m
<1>9. \A k \in DOMAIN u.lots \ DOMAIN l.lots : u.lots[k].acquired = e.date
  BY <1>1, <1>2, <1>3, <1>4, <1>7
<1>10. /\ Len(u.events) = Len(l.events) + 1 /\ u.events[Len(l.events) + 1] = e
       /\ e.id \notin EventIds(l) /\ e.kind # "dividend" /\ ~OutOfOrder(l, e.date)
  BY <1>1 DEF n
<1>11. /\ \A d \in DOMAIN u.receivables : ReceivableOK(u.receivables[d])
       /\ \A i \in DOMAIN u.events : u.events[i].notional > 0
       /\ RollingCashReplays(u) /\ EventsInOrder(u)
       /\ \A i \in SellsIn(u, DOMAIN l.events) : SellReplays(u, i)
       /\ PaymentsMatchReceivables(u)
       /\ \A i, j \in DOMAIN u.snapshots : i < j => u.snapshots[i].date < u.snapshots[j].date
       /\ \A i \in DOMAIN u.snapshots : RollingSnapshotReconciles(u, u.snapshots[i])
  BY <1>1, <1>8, <1>9, <1>10, GrownReplays
<1>12. SellsIn(u, DOMAIN u.events) = SellsIn(u, DOMAIN l.events)
  BY <1>1, <1>3, <1>4, <1>7 DEF SellsIn
<1>13. \A k \in DOMAIN u.lots : RollingLotOK(u.lots[k])
  <2>1. RollingLotOK(x)
    BY <1>1, <1>2 DEF LotOK, RollingLotOK, Lot
  <2>2. \A k \in 1 .. m : RollingLotOK(l.lots[k])
    BY <1>3 DEF RollingVerified
  <2> QED BY <1>1, <1>4, <1>7, <2>1, <2>2
<1>14. RollingFillsMatch(u)
  <2>1. \A k \in 1 .. m : u.lots[k].id # p.lot.id
    BY <1>1, <1>3 DEF LotIds
  <2>2. \A i, j \in DOMAIN u.lots : u.lots[i].id = u.lots[j].id => i = j
    <3> SUFFICES ASSUME NEW i \in 1 .. m + 1, NEW j \in 1 .. m + 1,
                        u.lots[i].id = u.lots[j].id
                 PROVE  i = j
      BY <1>4
    <3>1. u.lots[m + 1].id = p.lot.id
      BY <1>1, <1>2
    <3>2. CASE i \in 1 .. m /\ j \in 1 .. m
      <4>1. u.lots[i] = l.lots[i] /\ u.lots[j] = l.lots[j]
        BY <1>1, <3>2
      <4>2. i \in DOMAIN l.lots /\ j \in DOMAIN l.lots
        BY <1>3, <3>2
      <4> QED BY <1>5, <4>1, <4>2 DEF RollingFillsMatch
    <3> QED BY <1>7, <2>1, <3>1, <3>2
  <2>3. \A i, j \in DOMAIN u.events :
          /\ u.events[i].kind = "fill" /\ u.events[j].kind = "fill"
          /\ u.events[i].ref = u.events[j].ref
          => i = j
    <3> SUFFICES ASSUME NEW i \in 1 .. n + 1, NEW j \in 1 .. n + 1,
                        u.events[i].kind = "fill", u.events[j].kind = "fill",
                        u.events[i].ref = u.events[j].ref
                 PROVE  i = j
      BY <1>4
    <3>1. CASE i = n + 1 /\ j \in 1 .. n
      BY <1>1, <1>6, <3>1
    <3>2. CASE j = n + 1 /\ i \in 1 .. n
      BY <1>1, <1>6, <3>2
    <3>3. CASE i \in 1 .. n /\ j \in 1 .. n
      <4>1. u.events[i] = l.events[i] /\ u.events[j] = l.events[j]
        BY <1>1, <3>3
      <4>2. i \in DOMAIN l.events /\ j \in DOMAIN l.events
        BY <1>3, <3>3
      <4> QED BY <1>5, <4>1, <4>2 DEF RollingFillsMatch
    <3> QED BY <1>7, <3>1, <3>2, <3>3
  <2>4. \A i \in DOMAIN u.events : u.events[i].kind = "fill" =>
          \E k \in DOMAIN u.lots :
             /\ u.lots[k].id = u.events[i].ref /\ u.lots[k].symbol = u.events[i].symbol
             /\ u.lots[k].acquired = u.events[i].date
             /\ u.events[i].notional = NotionalFen(u.lots[k].cost, u.lots[k].original)
    <3> SUFFICES ASSUME NEW i \in DOMAIN u.events, u.events[i].kind = "fill"
                 PROVE  \E k \in DOMAIN u.lots :
                   /\ u.lots[k].id = u.events[i].ref /\ u.lots[k].symbol = u.events[i].symbol
                   /\ u.lots[k].acquired = u.events[i].date
                   /\ u.events[i].notional = NotionalFen(u.lots[k].cost, u.lots[k].original)
      OBVIOUS
    <3>1. CASE i = n + 1
      <4>1. u.events[i] = e /\ m + 1 \in DOMAIN u.lots /\ u.lots[m + 1] = x
        BY <1>1, <1>4, <1>7, <3>1
      <4>2. /\ x.id = e.ref /\ x.symbol = e.symbol /\ x.acquired = e.date
            /\ e.notional = NotionalFen(x.cost, x.original)
        BY <1>1, <1>2 DEF LotCost
      <4> QED BY <4>1, <4>2
    <3>2. CASE i \in 1 .. n
      <4>1. u.events[i] = l.events[i]
        BY <1>1, <3>2
      <4>2. PICK k \in 1 .. m :
              /\ l.lots[k].id = l.events[i].ref /\ l.lots[k].symbol = l.events[i].symbol
              /\ l.lots[k].acquired = l.events[i].date
              /\ l.events[i].notional = NotionalFen(l.lots[k].cost, l.lots[k].original)
        BY <1>3, <1>5, <3>2, <4>1, SMTT(30) DEF RollingFillsMatch
      <4>3. k \in DOMAIN u.lots /\ u.lots[k] = l.lots[k]
        BY <1>1, <1>4, <1>7
      <4> QED BY <4>1, <4>2, <4>3
    <3> QED BY <1>4, <1>7, <3>1, <3>2
  <2>5. \A k \in DOMAIN u.lots : \E i \in DOMAIN u.events :
          u.events[i].kind = "fill" /\ u.events[i].ref = u.lots[k].id
    <3> SUFFICES ASSUME NEW k \in DOMAIN u.lots
                 PROVE  \E i \in DOMAIN u.events :
                           u.events[i].kind = "fill" /\ u.events[i].ref = u.lots[k].id
      OBVIOUS
    <3>1. CASE k = m + 1
      BY <1>1, <1>2, <1>4, <1>7, <3>1
    <3>2. CASE k \in 1 .. m
      <4>1. PICK i \in 1 .. n : l.events[i].kind = "fill" /\ l.events[i].ref = l.lots[k].id
        BY <1>3, <1>5, <3>2 DEF RollingFillsMatch
      <4>2. i \in DOMAIN u.events /\ u.events[i] = l.events[i] /\ u.lots[k] = l.lots[k]
        BY <1>1, <1>4, <1>7, <3>2
      <4> QED BY <4>1, <4>2
    <3> QED BY <1>4, <1>7, <3>1, <3>2
  <2> QED BY <2>2, <2>3, <2>4, <2>5 DEF RollingFillsMatch
<1>15. FillsMatchLots(AsBought(u))
  BY <1>1, <1>14, RollingFills
<1>16. LotsInBuyOrder(u)
  <2>1. LotsInBuyOrder(l)
    BY DEF RollingVerified
  <2>2. u.events[n + 1].ref = u.lots[m + 1].id /\ u.lots[m + 1].id \notin LotIds(l)
    BY <1>1, <1>2
  <2>3. \A k \in 1 .. m : u.lots[k].id = l.lots[k].id
    BY <1>1
  <2>4. /\ n \in Nat /\ m \in Nat
        /\ DOMAIN l.events = 1 .. n /\ DOMAIN u.events = 1 .. n + 1
        /\ DOMAIN l.lots = 1 .. m /\ DOMAIN u.lots = 1 .. m + 1
        /\ \A i \in 1 .. n : u.events[i] = l.events[i]
        /\ \A i \in 1 .. n : l.events[i].kind = "fill" => l.events[i].ref \in LotIds(l)
    BY <1>1, <1>3, <1>4, <1>6
  <2> QED BY <2>1, <2>2, <2>3, <2>4, NewestLast
<1>17. ASSUME NEW k \in DOMAIN u.lots
       PROVE  u.lots[k].remaining = u.lots[k].original - SoldOf(u, k, DOMAIN u.events)
  <2>1. SoldOf(u, k, DOMAIN u.events) = SoldOf(u, k, DOMAIN l.events)
    BY <1>12 DEF SoldOf
  <2>2. SoldOf(u, k, DOMAIN l.events) = SoldOf(l, k, DOMAIN l.events)
    <3> DEFINE D == DOMAIN l.events
    <3>1. D \in SUBSET DOMAIN l.events /\ RollingType(u)
      BY <1>1
    <3> HIDE DEF D
    <3>2. \A j : SoldOf(u, j, D) = SoldOf(l, j, D)
      BY <1>8, <3>1, PastSold
    <3> QED BY <3>2 DEF D
  <2>3. CASE k = m + 1
    <3>1. \A i \in SellsIn(l, DOMAIN l.events) : k \notin DOMAIN l.events[i].consumed
      BY <1>3, <1>7, <2>3 DEF SellsIn, RollingEventType
    <3>2. SoldOf(l, k, DOMAIN l.events) = 0
      BY <3>1, SoldOfNothing
    <3>3. u.lots[k].remaining = u.lots[k].original /\ u.lots[k].original \in Nat
      BY <1>1, <1>2, <2>3 DEF Lot
    <3> QED BY <2>1, <2>2, <3>2, <3>3
  <2>4. CASE k \in 1 .. m
    <3>1. u.lots[k] = l.lots[k] /\ k \in DOMAIN l.lots
      BY <1>1, <1>3, <2>4
    <3>2. l.lots[k].remaining = l.lots[k].original - SoldOf(l, k, DOMAIN l.events)
      BY <3>1 DEF RollingVerified
    <3> QED BY <2>1, <2>2, <3>1, <3>2
  <2> QED BY <1>4, <1>7, <2>3, <2>4
<1>18. \A i \in SellsIn(u, DOMAIN u.events) : SellReplays(u, i)
  BY <1>11, <1>12
<1>19. RollingVerified(u)
  BY <1>11, <1>13, <1>15, <1>16, <1>17, <1>18 DEF RollingVerified
<1> QED BY <1>19 DEF u

-----------------------------------------------------------------------------
(* post_rolling_sell *)

\* What a sell takes: shares that are there, of lots it may sell.
LEMMA SellTakes ==
    ASSUME NEW l, RollingType(l), NEW q \in Sells
    PROVE  LET c == Consumption(l, q)
           IN  /\ DOMAIN c \subseteq DOMAIN l.lots
               /\ \A k \in DOMAIN c : c[k] \in Nat /\ c[k] <= l.lots[k].remaining
<1> DEFINE s == l.lots
           G == SellableLots(l, q.symbol, q.date)
           t == ConsumeFifo(s, G, q.size)
           c == Consumption(l, q)
<1>1. G \in SUBSET DOMAIN s
  BY DEF SellableLots, LotsOf
<1>2. Sized(s)
  <2>1. Len(s) \in Nat /\ DOMAIN s = 1 .. Len(s) /\ \A k \in 1 .. Len(s) : s[k] \in RollingLot
    BY RollingFields
  <2>2. IsFiniteSet(DOMAIN s)
    BY <2>1, PrefixFinite
  <2> QED BY <2>1, <2>2 DEF Sized, RollingLot
<1>3. c = [k \in {x \in DOMAIN t : t[x] > 0} |-> t[k]] /\ DOMAIN t = G
  BY DEF Consumption, Positive, ConsumeFifo
<1>4. ASSUME NEW k \in G, t[k] > 0
      PROVE  t[k] \in Nat /\ t[k] <= s[k].remaining
  <2> DEFINE A == {j \in G : j < k}
  <2>1. t[k] = Max({0, Min({s[k].remaining, q.size - SizeOf(s, A)})})
    BY DEF ConsumeFifo
  <2>2. A \in SUBSET DOMAIN s
    BY <1>1
  <2> HIDE DEF A, t, G, s
  <2>3. SizeOf(s, A) \in Nat
    BY <1>2, <2>2, SizesAddUp
  <2>4. q.size - SizeOf(s, A) \in Int
    BY <2>3, SellsAssumption
  <2>5. s[k].remaining \in Nat
    BY <1>1, <1>2 DEF Sized
  <2> DEFINE r == s[k].remaining
             x == q.size - SizeOf(s, A)
             v == Max({0, Min({r, x})})
  <2>6. r \in Int /\ x \in Int /\ r >= 0
    BY <2>4, <2>5
  <2>7. t[k] = v
    BY <2>1
  <2> HIDE DEF r, x
  <2>8. v \in Int /\ v >= 0 /\ (r >= 0 => v <= r)
    BY <2>6, TakeIs
  <2> QED BY <2>6, <2>7, <2>8 DEF r
<1> HIDE DEF t, G
<1>5. DOMAIN c \subseteq G /\ \A k \in DOMAIN c : c[k] = t[k] /\ t[k] > 0
  BY <1>3
<1> HIDE DEF c
<1>6. \A k \in DOMAIN c : c[k] \in Nat /\ c[k] <= l.lots[k].remaining
  BY <1>4, <1>5
<1> QED BY <1>1, <1>5, <1>6 DEF c

\* post_rolling_sell: the fields of the ledger it builds, and its type.
LEMMA SoldFields ==
    ASSUME NEW l, RollingType(l), NEW q \in Sells, ~SellRefused(l, q)
    PROVE  LET u == Sold(l, q)
               c == Consumption(l, q)
               e == SellEvent(l, q)
               n == Len(l.events)
           IN  /\ RollingType(u)
               /\ u.initial = l.initial /\ u.cash = e.after
               /\ u.receivables = l.receivables /\ u.snapshots = l.snapshots
               /\ Len(u.lots) = Len(l.lots)
               /\ \A k \in DOMAIN l.lots :
                     /\ SameLot(u.lots[k], l.lots[k])
                     /\ u.lots[k].remaining = IF k \in DOMAIN c THEN l.lots[k].remaining - c[k]
                                                                ELSE l.lots[k].remaining
               /\ Len(u.events) = n + 1 /\ u.events[n + 1] = e
               /\ \A i \in 1 .. n : u.events[i] = l.events[i]
               /\ e.id = q.event /\ e.kind = "sell" /\ e.date = q.date /\ e.symbol = q.symbol
               /\ e.size = q.size /\ e.price = q.price /\ e.consumed = c
               /\ e.notional = NotionalFen(q.price, q.size) /\ e.notional > 0
               /\ e.before = l.cash /\ e.after = RollingSettled(e)
<1> DEFINE u == Sold(l, q)
           c == Consumption(l, q)
           e == SellEvent(l, q)
           n == Len(l.events)
           left == LotsLeft(l, c)
<1>1. /\ u.initial = l.initial /\ u.cash = e.after
      /\ u.receivables = l.receivables /\ u.snapshots = l.snapshots
      /\ u.lots = left /\ u.events = Append(l.events, e)
  BY DEF Sold, SellEvent, RollingType
<1>2. DOMAIN c \subseteq DOMAIN l.lots /\ \A k \in DOMAIN c : c[k] \in Nat /\ c[k] <= l.lots[k].remaining
  BY SellTakes
<1>3. /\ e.id = q.event /\ e.kind = "sell" /\ e.date = q.date /\ e.symbol = q.symbol
      /\ e.size = q.size /\ e.price = q.price /\ e.consumed = c
      /\ e.notional = NotionalFen(q.price, q.size) /\ e.fees = q.fees
      /\ e.before = l.cash /\ e.after = l.cash + NotionalFen(q.price, q.size) - q.fees
  BY DEF SellEvent, SellProceeds
<1>4. /\ q.size \in Nat /\ q.price \in Nat /\ q.fees \in Nat /\ q.date \in Nat
      /\ NotionalFen(q.price, q.size) \in Nat /\ NotionalFen(q.price, q.size) > 0
      /\ ~(SellProceeds(l, q) < 0)
  <2>1. q.size \in Int /\ ~(q.size <= 0)
    BY SellsAssumption DEF SellRefused
  <2>2. q.price \in Nat /\ q.fees \in Nat /\ q.date \in Nat
    BY SellsAssumption, DatesAssumption
  <2>3. ~(NotionalFen(q.price, q.size) <= 0) /\ ~(SellProceeds(l, q) < 0)
    BY DEF SellRefused
  <2>4. q.price * q.size \in Nat
    BY <2>1, <2>2
  <2>5. NotionalFen(q.price, q.size) \in Int
    BY <2>4 DEF NotionalFen, HalfUp
  <2> QED BY <2>1, <2>2, <2>3, <2>5
<1>5. l.cash \in Nat
  BY RollingFields
<1>6. e.after >= 0 /\ e.after \in Nat
  <2>1. e.after = SellProceeds(l, q)
    BY DEF SellEvent
  <2>2. SellProceeds(l, q) = l.cash + NotionalFen(q.price, q.size) - q.fees
    BY DEF SellProceeds
  <2> HIDE DEF e
  <2> QED BY <1>4, <1>5, <2>1, <2>2
<1> HIDE DEF c
<1>7. /\ Len(l.lots) \in Nat /\ DOMAIN l.lots = 1 .. Len(l.lots)
      /\ \A k \in DOMAIN l.lots : l.lots[k] \in RollingLot
  BY RollingFields
<1>8. ASSUME NEW k \in DOMAIN l.lots
      PROVE  /\ left[k] \in RollingLot
             /\ SameLot(left[k], l.lots[k])
             /\ left[k].remaining = IF k \in DOMAIN c THEN l.lots[k].remaining - c[k]
                                                      ELSE l.lots[k].remaining
  <2>1. CASE k \in DOMAIN c
    <3>1. left[k] = [l.lots[k] EXCEPT !.remaining = l.lots[k].remaining - c[k]]
      BY <2>1 DEF LotsLeft
    <3>2. l.lots[k].remaining - c[k] \in Nat
      <4>1. l.lots[k].remaining \in Nat
        BY <1>7 DEF RollingLot
      <4> QED BY <1>2, <2>1, <4>1
    <3> HIDE DEF left
    <3> QED BY <1>7, <2>1, <3>1, <3>2 DEF RollingLot, SameLot
  <2>2. CASE k \notin DOMAIN c
    <3>1. left[k] = l.lots[k]
      BY <2>2 DEF LotsLeft
    <3> HIDE DEF left
    <3> QED BY <1>7, <2>2, <3>1 DEF SameLot
  <2> QED BY <2>1, <2>2
<1>9. left \in Seq(RollingLot) /\ Len(left) = Len(l.lots) /\ DOMAIN left = DOMAIN l.lots
  <2>1. DOMAIN left = DOMAIN l.lots /\ left = [k \in DOMAIN left |-> left[k]]
    BY DEF LotsLeft
  <2> HIDE DEF left
  <2>2. left \in [1 .. Len(l.lots) -> RollingLot]
    BY <1>7, <1>8, <2>1
  <2>3. left \in Seq(RollingLot)
    BY <1>7, <2>2, SeqDef
  <2>4. Len(left) \in Nat /\ DOMAIN left = 1 .. Len(left)
    BY <2>3, LenProperties
  <2>5. ASSUME NEW a \in Nat, NEW b \in Nat, 1 .. a = 1 .. b PROVE a = b
    <3>1. a <= b
      <4>1. a = 0 \/ a \in 1 .. b
        BY <2>5
      <4> QED BY <4>1
    <3>2. b <= a
      <4>1. b = 0 \/ b \in 1 .. a
        BY <2>5
      <4> QED BY <4>1
    <3> QED BY <3>1, <3>2
  <2>6. Len(left) = Len(l.lots)
    BY <1>7, <2>1, <2>4, <2>5
  <2> QED BY <2>1, <2>3, <2>6
<1>10. /\ u.events \in Seq(Range(u.events)) /\ DOMAIN u.events = 1 .. n + 1
       /\ Len(u.events) = n + 1 /\ u.events[n + 1] = e
       /\ \A i \in 1 .. n : u.events[i] = l.events[i]
  <2>1. l.events \in Seq(Range(l.events))
    BY RollingFields
  <2> HIDE DEF e
  <2> QED BY <1>1, <2>1, AppendToRange
<1> HIDE DEF e, left
<1>11. RollingEventType(u, e)
  <2> HIDE DEF u
  <2>1. DOMAIN e.consumed \subseteq DOMAIN u.lots /\ \A k \in DOMAIN e.consumed : e.consumed[k] \in Nat
    BY <1>1, <1>2, <1>3, <1>9
  <2>2. {e.date, e.notional, e.fees, e.before, e.after} \subseteq Nat /\ e.size \in Nat
    BY <1>3, <1>4, <1>5, <1>6
  <2> QED BY <1>3, <2>1, <2>2 DEF RollingEventType
<1>12. \A i \in DOMAIN u.events : RollingEventType(u, u.events[i])
  <2> HIDE DEF u
  <2> SUFFICES ASSUME NEW i \in 1 .. n + 1 PROVE RollingEventType(u, u.events[i])
    BY <1>10
  <2>1. CASE i = n + 1
    BY <1>10, <1>11, <2>1
  <2>2. CASE i \in 1 .. n
    <3>1. u.events[i] = l.events[i] /\ RollingEventType(l, l.events[i])
      BY <1>10, <2>2, RollingFields
    <3>2. DOMAIN u.lots = DOMAIN l.lots
      BY <1>1, <1>9
    <3> QED BY <3>1, <3>2 DEF RollingEventType
  <2>3. n \in Nat
    BY RollingFields
  <2> QED BY <2>1, <2>2, <2>3
<1>13. RollingType(u)
  <2>1. u \in [initial : Nat, cash : Nat, lots : Seq(RollingLot), events : Seq(Range(u.events)),
               receivables : [DOMAIN u.receivables -> Receivable],
               snapshots : Seq(Range(u.snapshots))]
    <3>1. l \in [initial : Nat, cash : Nat, lots : Seq(RollingLot),
                 events : Seq(Range(l.events)),
                 receivables : [DOMAIN l.receivables -> Receivable],
                 snapshots : Seq(Range(l.snapshots))]
      BY DEF RollingType
    <3>2. Append(l.events, e) \in Seq(Range(u.events))
      BY <1>1, <1>10
    <3>3. SellProceeds(l, q) \in Nat
      BY <1>6 DEF e, SellEvent
    <3>4. ASSUME NEW R, Append(l.events, e) \in Seq(R)
          PROVE  Sold(l, q) \in
                    [initial : Nat, cash : Nat, lots : Seq(RollingLot), events : Seq(R),
                     receivables : [DOMAIN l.receivables -> Receivable],
                     snapshots : Seq(Range(l.snapshots))]
      BY <1>9, <3>1, <3>3, <3>4 DEF Sold, e, left, c
    <3> HIDE DEF u
    <3> QED BY <1>1, <3>2, <3>4 DEF u
  <2>2. /\ DOMAIN u.receivables \subseteq ReceivableIds
        /\ \A i \in DOMAIN u.snapshots : u.snapshots[i].date \in Nat
    <3> HIDE DEF u
    <3> QED BY <1>1 DEF RollingType
  <2> HIDE DEF u
  <2> QED BY <1>12, <2>1, <2>2 DEF RollingType
<1>14. e.after = RollingSettled(e)
  BY <1>3 DEF RollingSettled
<1>15. e.notional > 0
  BY <1>3, <1>4
<1> HIDE DEF u
<1>16. \A k \in DOMAIN l.lots :
          /\ SameLot(u.lots[k], l.lots[k])
          /\ u.lots[k].remaining = IF k \in DOMAIN c THEN l.lots[k].remaining - c[k]
                                                     ELSE l.lots[k].remaining
  BY <1>1, <1>8
<1> QED BY <1>1, <1>3, <1>9, <1>10, <1>13, <1>14, <1>15, <1>16 DEF u, e, c

\* One more event sells what it says it took.
LEMMA SoldByOneMore ==
    ASSUME NEW l, RollingType(l), NEW k, NEW I \in SUBSET DOMAIN l.events,
           NEW j \in DOMAIN l.events, j \notin I, l.events[j].kind = "sell"
    PROVE  SoldOf(l, k, I \cup {j}) = SoldOf(l, k, I)
              + (IF k \in DOMAIN l.events[j].consumed THEN l.events[j].consumed[k] ELSE 0)
<1> DEFINE D(J) == {x \in SellsIn(l, J) : k \in DOMAIN l.events[x].consumed}
           f == [i \in D(I \cup {j}) |-> l.events[i].consumed[k]]
           g == [i \in D(I) |-> l.events[i].consumed[k]]
<1>1. SoldOf(l, k, I \cup {j}) = SumFunction(f) /\ SoldOf(l, k, I) = SumFunction(g)
  BY DEF SoldOf
<1>2. SoldOf(l, k, I) \in Nat
  <2>1. I \in SUBSET DOMAIN l.events
    OBVIOUS
  <2> QED BY <2>1, SoldAddsUp
<1>3. CASE k \in DOMAIN l.events[j].consumed
  <2>1. D(I \cup {j}) = D(I) \cup {j} /\ j \notin D(I)
    BY <1>3 DEF SellsIn
  <2>2. DOMAIN f = D(I \cup {j}) /\ f[j] = l.events[j].consumed[k]
    BY <2>1
  <2>3. Counts(f)
    <3>1. IsFiniteSet(DOMAIN l.events)
      BY RollingFields, PrefixFinite
    <3>2. D(I \cup {j}) \subseteq DOMAIN l.events
      BY DEF SellsIn
    <3>3. \A i \in D(I \cup {j}) : l.events[i].consumed[k] \in Nat
      <4>1. \A i \in D(I \cup {j}) : RollingEventType(l, l.events[i])
        BY <3>2 DEF RollingType
      <4>2. \A i \in D(I \cup {j}) : l.events[i].kind = "sell" /\ k \in DOMAIN l.events[i].consumed
        BY DEF SellsIn
      <4> HIDE DEF D
      <4> QED BY <4>1, <4>2 DEF RollingEventType
    <3>4. IsFiniteSet(D(I \cup {j}))
      <4> HIDE DEF D
      <4> QED BY <3>1, <3>2, FS_Subset
    <3> HIDE DEF D
    <3> QED BY <3>3, <3>4 DEF Counts
  <2>4. [y \in DOMAIN f \ {j} |-> f[y]] = g
    <3>1. D(I \cup {j}) \ {j} = D(I)
      BY <2>1
    <3> HIDE DEF D
    <3> QED BY <3>1
  <2>5. j \in DOMAIN f
    BY <2>1
  <2> HIDE DEF f, g, D
  <2>6. SumFunction(f) = f[j] + SumFunction([y \in DOMAIN f \ {j} |-> f[y]])
    BY <2>3, <2>5, SumTakesOut
  <2>7. f[j] \in Nat
    BY <2>3, <2>5 DEF Counts
  <2>8. SumFunction(f) = SumFunction(g) + f[j]
    <3>1. SumFunction(g) \in Nat
      BY <1>1, <1>2
    <3>2. SumFunction(f) = f[j] + SumFunction(g)
      BY <2>4, <2>6
    <3> QED BY <2>7, <3>1, <3>2
  <2> QED BY <1>1, <1>3, <2>2, <2>8
<1>4. CASE k \notin DOMAIN l.events[j].consumed
  <2>1. D(I \cup {j}) = D(I)
    BY <1>4 DEF SellsIn
  <2>2. f = g
    <3> HIDE DEF D
    <3> QED BY <2>1
  <2> HIDE DEF f, g
  <2> QED BY <1>1, <1>2, <1>4, <2>2
<1> QED BY <1>3, <1>4

\* The lots after every event are the lots.
LEMMA LotsAfterAll ==
    ASSUME NEW l, RollingType(l), RollingVerified(l)
    PROVE  LotsAfter(l, DOMAIN l.events) = l.lots
<1> DEFINE E == DOMAIN l.events
           s == LotsAfter(l, E)
<1>1. l.lots = [k \in DOMAIN l.lots |-> l.lots[k]] /\ \A k \in DOMAIN l.lots : l.lots[k] \in RollingLot
  <2>1. l.lots \in Seq(RollingLot)
    BY RollingFields
  <2>2. \A k \in DOMAIN l.lots : l.lots[k] \in RollingLot
    BY RollingFields
  <2> QED BY <2>1, <2>2, SeqDef
<1>2. s = [k \in DOMAIN l.lots |-> [l.lots[k] EXCEPT !.remaining = l.lots[k].original - SoldOf(l, k, E)]]
  BY DEF LotsAfter
<1> HIDE DEF E, s
<1>3. \A k \in DOMAIN l.lots : l.lots[k].remaining = l.lots[k].original - SoldOf(l, k, E)
  BY DEF RollingVerified, E
<1>4. \A k \in DOMAIN l.lots :
         [l.lots[k] EXCEPT !.remaining = l.lots[k].original - SoldOf(l, k, E)] = l.lots[k]
  BY <1>1, <1>3 DEF RollingLot
<1>5. s = [k \in DOMAIN l.lots |-> l.lots[k]]
  BY <1>2, <1>4
<1> QED BY <1>1, <1>5 DEF s, E

\* A sell leaves alone what the fills and the lots say of each other.
LEMMA SellKeepsFills ==
    ASSUME NEW l, NEW u, RollingType(l), RollingType(u), RollingFillsMatch(l), LotsInBuyOrder(l),
           DOMAIN u.lots = DOMAIN l.lots,
           \A k \in DOMAIN l.lots : SameLot(u.lots[k], l.lots[k]),
           Len(u.events) = Len(l.events) + 1, u.events[Len(l.events) + 1].kind = "sell",
           \A i \in 1 .. Len(l.events) : u.events[i] = l.events[i]
    PROVE  RollingFillsMatch(u) /\ LotsInBuyOrder(u)
<1>1. /\ DOMAIN l.events \subseteq DOMAIN u.events
      /\ \A i \in DOMAIN l.events : u.events[i] = l.events[i]
      /\ \A i \in DOMAIN u.events : i \in DOMAIN l.events \/ u.events[i].kind = "sell"
  <2>1. Len(l.events) \in Nat /\ DOMAIN l.events = 1 .. Len(l.events)
    BY RollingFields
  <2>2. DOMAIN u.events = 1 .. Len(u.events)
    BY RollingFields
  <2>3. \A i \in 1 .. Len(l.events) + 1 : i \in 1 .. Len(l.events) \/ i = Len(l.events) + 1
    BY <2>1
  <2> QED BY <2>1, <2>2, <2>3
<1>2. \A i \in DOMAIN u.events : u.events[i].kind = "fill" =>
         i \in DOMAIN l.events /\ l.events[i].kind = "fill" /\ u.events[i] = l.events[i]
  BY <1>1
<1>3. \A k \in DOMAIN l.lots :
         /\ u.lots[k].id = l.lots[k].id /\ u.lots[k].symbol = l.lots[k].symbol
         /\ u.lots[k].acquired = l.lots[k].acquired
         /\ u.lots[k].cost = l.lots[k].cost /\ u.lots[k].original = l.lots[k].original
  BY DEF SameLot
<1>4. RollingFillsMatch(u)
  <2>1. \A i, j \in DOMAIN u.lots : u.lots[i].id = u.lots[j].id => i = j
    BY <1>3 DEF RollingFillsMatch
  <2>2. ASSUME NEW i \in DOMAIN u.events, NEW j \in DOMAIN u.events,
               u.events[i].kind = "fill", u.events[j].kind = "fill",
               u.events[i].ref = u.events[j].ref
        PROVE  i = j
    BY <1>2, <2>2 DEF RollingFillsMatch
  <2>3. ASSUME NEW i \in DOMAIN u.events, u.events[i].kind = "fill"
        PROVE  \E k \in DOMAIN u.lots :
                  /\ u.lots[k].id = u.events[i].ref /\ u.lots[k].symbol = u.events[i].symbol
                  /\ u.lots[k].acquired = u.events[i].date
                  /\ u.events[i].notional = NotionalFen(u.lots[k].cost, u.lots[k].original)
    <3>1. i \in DOMAIN l.events /\ l.events[i].kind = "fill" /\ u.events[i] = l.events[i]
      BY <1>2, <2>3
    <3>2. PICK k \in DOMAIN l.lots :
              /\ l.lots[k].id = l.events[i].ref /\ l.lots[k].symbol = l.events[i].symbol
              /\ l.lots[k].acquired = l.events[i].date
              /\ l.events[i].notional = NotionalFen(l.lots[k].cost, l.lots[k].original)
      BY <3>1 DEF RollingFillsMatch
    <3> QED BY <1>3, <3>1, <3>2
  <2>4. ASSUME NEW k \in DOMAIN u.lots
        PROVE  \E i \in DOMAIN u.events :
                  u.events[i].kind = "fill" /\ u.events[i].ref = u.lots[k].id
    <3>1. PICK i \in DOMAIN l.events : l.events[i].kind = "fill" /\ l.events[i].ref = l.lots[k].id
      BY DEF RollingFillsMatch
    <3> QED BY <1>1, <1>3, <3>1
  <2> QED BY <2>1, <2>2, <2>3, <2>4 DEF RollingFillsMatch
<1>5. LotsInBuyOrder(u)
  <2> SUFFICES ASSUME NEW i \in DOMAIN u.events, NEW j \in DOMAIN u.events,
                      NEW k \in DOMAIN u.lots, NEW m \in DOMAIN u.lots, i < j,
                      u.events[i].kind = "fill", u.events[j].kind = "fill",
                      u.lots[k].id = u.events[i].ref, u.lots[m].id = u.events[j].ref
               PROVE  k < m
    BY DEF LotsInBuyOrder
  <2>1. /\ i \in DOMAIN l.events /\ l.events[i].kind = "fill" /\ u.events[i] = l.events[i]
        /\ j \in DOMAIN l.events /\ l.events[j].kind = "fill" /\ u.events[j] = l.events[j]
    BY <1>2
  <2>2. /\ k \in DOMAIN l.lots /\ l.lots[k].id = l.events[i].ref
        /\ m \in DOMAIN l.lots /\ l.lots[m].id = l.events[j].ref
    BY <1>3, <2>1
  <2> QED BY <2>1, <2>2 DEF LotsInBuyOrder
<1> QED BY <1>4, <1>5

\* post_rolling_sell: a sell in order always replays.
LEMMA SoldVerified ==
    ASSUME NEW l, RollingType(l), RollingVerified(l), NEW q \in Sells,
           ~SellRefused(l, q), ~OutOfOrder(l, q.date)
    PROVE  RollingVerified(Sold(l, q))
<1> DEFINE u == Sold(l, q)
           c == Consumption(l, q)
           e == SellEvent(l, q)
           n == Len(l.events)
           E == DOMAIN l.events
<1>1. /\ RollingType(u)
      /\ u.initial = l.initial /\ u.cash = e.after
      /\ u.receivables = l.receivables /\ u.snapshots = l.snapshots
      /\ Len(u.lots) = Len(l.lots)
      /\ \A k \in DOMAIN l.lots :
            /\ SameLot(u.lots[k], l.lots[k])
            /\ u.lots[k].remaining = IF k \in DOMAIN c THEN l.lots[k].remaining - c[k]
                                                       ELSE l.lots[k].remaining
      /\ Len(u.events) = n + 1 /\ u.events[n + 1] = e
      /\ \A i \in 1 .. n : u.events[i] = l.events[i]
      /\ e.id = q.event /\ e.kind = "sell" /\ e.date = q.date /\ e.symbol = q.symbol
      /\ e.size = q.size /\ e.price = q.price /\ e.consumed = c
      /\ e.notional = NotionalFen(q.price, q.size) /\ e.notional > 0
      /\ e.before = l.cash /\ e.after = RollingSettled(e)
  BY SoldFields
<1>2. DOMAIN c \subseteq DOMAIN l.lots /\ \A k \in DOMAIN c : c[k] \in Nat /\ c[k] <= l.lots[k].remaining
  BY SellTakes
<1>3. /\ Len(l.lots) \in Nat /\ DOMAIN l.lots = 1 .. Len(l.lots)
      /\ n \in Nat /\ E = 1 .. n
      /\ \A k \in DOMAIN l.lots : l.lots[k] \in RollingLot
  BY RollingFields
<1> HIDE DEF u, c, e
<1>4. DOMAIN u.lots = DOMAIN l.lots /\ DOMAIN u.events = 1 .. n + 1
  BY <1>1, <1>3, RollingFields
<1>5. /\ n + 1 \in DOMAIN u.events /\ n + 1 \notin E /\ DOMAIN u.events = E \cup {n + 1}
      /\ \A i \in E : i \in DOMAIN u.events /\ u.events[i] = l.events[i]
      /\ 1 .. (n + 1) - 1 = E
  BY <1>1, <1>3, <1>4
<1>6. Extends(l, u)
  BY <1>1, <1>3, <1>4 DEF Extends
<1>7. /\ q.event \notin EventIds(l)
      /\ ~(q.size > SizeOf(l.lots, SellableLots(l, q.symbol, q.date)))
      /\ ValidSellSize(SizeOf(l.lots, LotsOf(l, q.symbol)), q.size)
      /\ q.size \in Int /\ q.price > 0
  <2>1. q.price \in Nat /\ ~(q.price <= 0) /\ q.size \in Int
    BY SellsAssumption DEF SellRefused
  <2> QED BY <2>1 DEF SellRefused
<1>8. /\ \A d \in DOMAIN u.receivables : ReceivableOK(u.receivables[d])
      /\ \A i \in DOMAIN u.events : u.events[i].notional > 0
      /\ RollingCashReplays(u) /\ EventsInOrder(u)
      /\ \A i \in SellsIn(u, DOMAIN l.events) : SellReplays(u, i)
      /\ PaymentsMatchReceivables(u)
      /\ \A i, j \in DOMAIN u.snapshots : i < j => u.snapshots[i].date < u.snapshots[j].date
      /\ \A i \in DOMAIN u.snapshots : RollingSnapshotReconciles(u, u.snapshots[i])
  <2>1. /\ Len(u.events) = Len(l.events) + 1 /\ u.events[Len(l.events) + 1] = e
        /\ e.id \notin EventIds(l) /\ e.kind # "dividend" /\ ~OutOfOrder(l, e.date)
        /\ \A k \in DOMAIN u.lots \ DOMAIN l.lots : u.lots[k].acquired = e.date
    BY <1>1, <1>4, <1>7
  <2> QED BY <1>1, <1>6, <2>1, GrownReplays
<1>9. RollingFillsMatch(u) /\ LotsInBuyOrder(u)
  <2>1. RollingFillsMatch(l) /\ LotsInBuyOrder(l)
    BY RollingFills DEF RollingVerified
  <2>2. /\ \A k \in DOMAIN l.lots : SameLot(u.lots[k], l.lots[k])
        /\ Len(u.events) = Len(l.events) + 1 /\ u.events[Len(l.events) + 1].kind = "sell"
        /\ \A i \in 1 .. Len(l.events) : u.events[i] = l.events[i]
        /\ RollingType(u)
    BY <1>1
  <2> QED BY <1>4, <2>1, <2>2, SellKeepsFills
<1>10. FillsMatchLots(AsBought(u))
  BY <1>1, <1>9, RollingFills
<1>11. \A k \in DOMAIN u.lots : RollingLotOK(u.lots[k])
  <2> SUFFICES ASSUME NEW k \in DOMAIN l.lots PROVE RollingLotOK(u.lots[k])
    BY <1>4
  <2>1. RollingLotOK(l.lots[k]) /\ l.lots[k] \in RollingLot
    BY <1>3 DEF RollingVerified
  <2>2. u.lots[k].remaining \in 0 .. l.lots[k].original
    <3>1. l.lots[k].remaining \in 0 .. l.lots[k].original /\ l.lots[k].original \in Nat
      BY <2>1 DEF RollingLotOK, RollingLot
    <3>2. CASE k \in DOMAIN c
      <4>1. u.lots[k].remaining = l.lots[k].remaining - c[k]
        BY <1>1, <3>2
      <4> QED BY <1>2, <3>1, <3>2, <4>1
    <3>3. CASE k \notin DOMAIN c
      BY <1>1, <3>1, <3>3
    <3> QED BY <3>2, <3>3
  <2>3. SameLot(u.lots[k], l.lots[k])
    BY <1>1
  <2> QED BY <2>1, <2>2, <2>3 DEF RollingLotOK, SameLot
<1>12. /\ \A k : SoldOf(u, k, E) = SoldOf(l, k, E)
       /\ \A k \in DOMAIN l.lots : LotsAfter(u, E)[k] = l.lots[k]
  <2>1. E \in SUBSET DOMAIN l.events /\ RollingType(u)
    BY <1>1
  <2>2. LotsAfter(l, E) = l.lots
    BY LotsAfterAll
  <2> HIDE DEF E
  <2>3. /\ \A k : SoldOf(u, k, E) = SoldOf(l, k, E)
        /\ \A k \in DOMAIN l.lots : LotsAfter(u, E)[k] = LotsAfter(l, E)[k]
    BY <1>6, <2>1, PastSold
  <2> QED BY <2>2, <2>3
<1>13. ASSUME NEW k \in DOMAIN u.lots
       PROVE  u.lots[k].remaining = u.lots[k].original - SoldOf(u, k, DOMAIN u.events)
  <2>1. SoldOf(u, k, E \cup {n + 1}) = SoldOf(u, k, E)
           + (IF k \in DOMAIN u.events[n + 1].consumed THEN u.events[n + 1].consumed[k] ELSE 0)
    <3>1. /\ E \in SUBSET DOMAIN u.events /\ n + 1 \in DOMAIN u.events /\ n + 1 \notin E
          /\ u.events[n + 1].kind = "sell" /\ RollingType(u)
      BY <1>1, <1>5
    <3> DEFINE j == n + 1
    <3> HIDE DEF E, n, j
    <3>2. SoldOf(u, k, E \cup {j}) = SoldOf(u, k, E)
             + (IF k \in DOMAIN u.events[j].consumed THEN u.events[j].consumed[k] ELSE 0)
      BY <3>1, SoldByOneMore DEF j
    <3> QED BY <3>2 DEF j
  <2>2. SoldOf(u, k, E) = SoldOf(l, k, E) /\ SoldOf(l, k, E) \in Nat
    <3>1. E \in SUBSET DOMAIN l.events
      OBVIOUS
    <3> HIDE DEF E
    <3>2. SoldOf(l, k, E) \in Nat
      BY <3>1, SoldAddsUp
    <3> QED BY <1>12, <3>2
  <2>3. /\ l.lots[k].remaining = l.lots[k].original - SoldOf(l, k, E)
        /\ l.lots[k].original \in Nat /\ l.lots[k].remaining \in Nat
        /\ u.lots[k].original = l.lots[k].original
    BY <1>1, <1>3, <1>4 DEF RollingVerified, RollingLot, SameLot
  <2>4. CASE k \in DOMAIN c
    <3>1. SoldOf(u, k, DOMAIN u.events) = SoldOf(u, k, E) + c[k]
      BY <1>1, <1>5, <2>1, <2>4
    <3>2. u.lots[k].remaining = l.lots[k].remaining - c[k] /\ c[k] \in Nat
      BY <1>1, <1>2, <1>4, <2>4
    <3> HIDE DEF E
    <3> QED BY <2>2, <2>3, <3>1, <3>2
  <2>5. CASE k \notin DOMAIN c
    <3>1. SoldOf(u, k, DOMAIN u.events) = SoldOf(u, k, E) + 0
      BY <1>1, <1>5, <2>1, <2>5
    <3>2. u.lots[k].remaining = l.lots[k].remaining
      BY <1>1, <1>4, <2>5
    <3> HIDE DEF E
    <3> QED BY <2>2, <2>3, <3>1, <3>2
  <2> QED BY <2>4, <2>5
<1>14. SellReplays(u, n + 1)
  <2> DEFINE t == LotsAfter(u, E)
             own == {k \in BoughtBefore(u, n + 1) : t[k].symbol = e.symbol}
             mayGo == {k \in own : t[k].available <= e.date}
  <2>1. BoughtBefore(u, n + 1) = DOMAIN l.lots
    <3>1. \A k \in DOMAIN u.lots : \E i \in DOMAIN u.events :
             u.events[i].kind = "fill" /\ u.events[i].ref = u.lots[k].id
      BY <1>9 DEF RollingFillsMatch
    <3>2. u.events[n + 1].kind # "fill"
      BY <1>1
    <3>3. \A k \in DOMAIN u.lots : \E i \in E :
             u.events[i].kind = "fill" /\ u.events[i].ref = u.lots[k].id
      BY <1>5, <3>1, <3>2
    <3>4. BoughtBefore(u, n + 1) = {k \in DOMAIN u.lots : \E i \in E :
                                       u.events[i].kind = "fill" /\ u.events[i].ref = u.lots[k].id}
      BY <1>5 DEF BoughtBefore
    <3> HIDE DEF E
    <3> QED BY <1>4, <3>3, <3>4
  <2> HIDE DEF t, E
  <2>2. \A k \in DOMAIN l.lots : t[k] = l.lots[k]
    BY <1>12 DEF t
  <2>3. own = LotsOf(l, q.symbol)
    BY <1>1, <2>1, <2>2 DEF LotsOf
  <2>4. mayGo = SellableLots(l, q.symbol, q.date)
    BY <1>1, <2>1, <2>2, <2>3 DEF SellableLots, LotsOf
  <2>5. own \subseteq DOMAIN l.lots /\ mayGo \subseteq DOMAIN l.lots
    BY <2>1
  <2> HIDE DEF own, mayGo
  <2>6. SizeOf(t, own) = SizeOf(l.lots, own) /\ SizeOf(t, mayGo) = SizeOf(l.lots, mayGo)
    BY <2>2, <2>5, SameSize
  <2>7. ConsumeFifo(t, mayGo, e.size) = ConsumeFifo(l.lots, mayGo, e.size)
    BY <2>2, <2>5, SameFifo
  <2>8. e.size <= SizeOf(t, mayGo)
    <3>1. SizeOf(l.lots, mayGo) \in Nat
      <4>1. Sized(l.lots)
        <5>1. IsFiniteSet(DOMAIN l.lots)
          BY <1>3, PrefixFinite
        <5> QED BY <1>3, <5>1 DEF Sized, RollingLot
      <4>2. mayGo \in SUBSET DOMAIN l.lots
        BY <2>5
      <4> QED BY <4>1, <4>2, SizesAddUp
    <3>2. ~(q.size > SizeOf(l.lots, mayGo))
      BY <1>7, <2>4
    <3>3. q.size <= SizeOf(l.lots, mayGo)
      BY <1>7, <3>1, <3>2
    <3> QED BY <1>1, <2>6, <3>3
  <2>9. ValidSellSize(SizeOf(t, own), e.size)
    BY <1>1, <1>7, <2>3, <2>6
  <2>10. e.consumed = Positive(ConsumeFifo(t, mayGo, e.size))
    <3>1. c = Positive(ConsumeFifo(l.lots, mayGo, q.size))
      BY <2>4 DEF c, Consumption
    <3> QED BY <1>1, <2>7, <3>1
  <2>11. e.price > 0 /\ e.notional = NotionalFen(e.price, e.size)
    BY <1>1, <1>7
  <2>12. u.events[n + 1] = e /\ LotsAfter(u, 1 .. (n + 1) - 1) = t
    BY <1>1, <1>5 DEF t
  <2> HIDE DEF n
  <2>13. /\ e.price > 0
         /\ e.size <= SizeOf(t, {k \in {j \in BoughtBefore(u, n + 1) : t[j].symbol = e.symbol} :
                                    t[k].available <= e.date})
         /\ ValidSellSize(SizeOf(t, {j \in BoughtBefore(u, n + 1) : t[j].symbol = e.symbol}), e.size)
         /\ e.consumed = Positive(ConsumeFifo(t,
                {k \in {j \in BoughtBefore(u, n + 1) : t[j].symbol = e.symbol} :
                    t[k].available <= e.date}, e.size))
         /\ e.notional = NotionalFen(e.price, e.size)
    BY <2>8, <2>9, <2>10, <2>11 DEF own, mayGo
  <2> QED BY <2>12, <2>13 DEF SellReplays
<1>15. \A i \in SellsIn(u, DOMAIN u.events) : SellReplays(u, i)
  <2> SUFFICES ASSUME NEW i \in SellsIn(u, DOMAIN u.events) PROVE SellReplays(u, i)
    OBVIOUS
  <2>1. i = n + 1 \/ i \in SellsIn(u, DOMAIN l.events)
    BY <1>5 DEF SellsIn
  <2> QED BY <1>8, <1>14, <2>1
<1>16. RollingVerified(u)
  BY <1>8, <1>9, <1>10, <1>11, <1>13, <1>15 DEF RollingVerified
<1> QED BY <1>16 DEF u

-----------------------------------------------------------------------------
(* close_rolling_session *)

\* close_rolling_session: the fields of the ledger it builds, and its type.
LEMMA RollingClosedFields ==
    ASSUME NEW l, RollingType(l), NEW date \in Nat, NEW v
    PROVE  LET u == ClosedWith(l, date, v)
               k == Len(l.snapshots)
           IN  /\ RollingType(u)
               /\ u.initial = l.initial /\ u.cash = l.cash /\ u.lots = l.lots
               /\ u.events = l.events /\ u.receivables = l.receivables
               /\ DOMAIN u.snapshots = 1 .. k + 1
               /\ u.snapshots[k + 1] = Snapshot(l, date, v)
               /\ \A i \in 1 .. k : u.snapshots[i] = l.snapshots[i]
<1> DEFINE u == ClosedWith(l, date, v)
           s == Snapshot(l, date, v)
           k == Len(l.snapshots)
           a == Append(l.snapshots, s)
<1>1. /\ l \in [initial : Nat, cash : Nat, lots : Seq(RollingLot), events : Seq(Range(l.events)),
                receivables : [DOMAIN l.receivables -> Receivable],
                snapshots : Seq(Range(l.snapshots))]
      /\ DOMAIN l.receivables \subseteq ReceivableIds
      /\ \A i \in DOMAIN l.events : RollingEventType(l, l.events[i])
      /\ \A i \in DOMAIN l.snapshots : l.snapshots[i].date \in Nat
  BY DEF RollingType
<1>2. /\ a \in Seq(Range(a)) /\ DOMAIN a = 1 .. k + 1 /\ a[k + 1] = s
      /\ \A i \in 1 .. k : a[i] = l.snapshots[i]
      /\ k \in Nat /\ DOMAIN l.snapshots = 1 .. k
  BY <1>1, AppendToRange, LenProperties
<1>3. s.date = date
  BY DEF Snapshot
<1>4. u = [l EXCEPT !.snapshots = a]
  BY DEF ClosedWith
<1> HIDE DEF u, s, a, k
<1>5. /\ u.initial = l.initial /\ u.cash = l.cash /\ u.lots = l.lots
      /\ u.events = l.events /\ u.receivables = l.receivables /\ u.snapshots = a
      /\ u \in [initial : Nat, cash : Nat, lots : Seq(RollingLot), events : Seq(Range(l.events)),
                receivables : [DOMAIN l.receivables -> Receivable],
                snapshots : Seq(Range(a))]
  BY <1>1, <1>2, <1>4
<1>6. \A i \in DOMAIN a : a[i].date \in Nat
  <2> SUFFICES ASSUME NEW i \in 1 .. k + 1 PROVE a[i].date \in Nat
    BY <1>2
  <2>1. CASE i = k + 1
    BY <1>2, <1>3, <2>1
  <2>2. CASE i \in 1 .. k
    BY <1>1, <1>2, <2>2
  <2> QED BY <1>2, <2>1, <2>2
<1>7. \A i \in DOMAIN u.events : RollingEventType(u, u.events[i])
  BY <1>1, <1>5 DEF RollingEventType
<1>8. RollingType(u)
  BY <1>1, <1>5, <1>6, <1>7 DEF RollingType
<1> QED BY <1>2, <1>5, <1>8 DEF u, s, k

\* close_rolling_session: a close whose own checks pass always replays.
LEMMA RollingClosedVerified ==
    ASSUME NEW l, RollingType(l), RollingVerified(l), NEW date \in Nat, NEW v,
           ~RollingCloseRefused(l, date, v)
    PROVE  RollingVerified(ClosedWith(l, date, v))
<1> DEFINE u == ClosedWith(l, date, v)
           s == Snapshot(l, date, v)
           k == Len(l.snapshots)
           n == Len(l.events)
<1>1. /\ RollingType(u)
      /\ u.initial = l.initial /\ u.cash = l.cash /\ u.lots = l.lots
      /\ u.events = l.events /\ u.receivables = l.receivables
      /\ DOMAIN u.snapshots = 1 .. k + 1
      /\ u.snapshots[k + 1] = s
      /\ \A i \in 1 .. k : u.snapshots[i] = l.snapshots[i]
  BY RollingClosedFields
<1>2. /\ k \in Nat /\ DOMAIN l.snapshots = 1 .. k
      /\ \A i \in 1 .. k : l.snapshots[i].date \in Nat
      /\ n \in Nat /\ DOMAIN l.events = 1 .. n
      /\ l.events = <<>> <=> n = 0
      /\ \A i \in 1 .. n : RollingEventType(l, l.events[i])
      /\ l.snapshots = <<>> <=> k = 0
  BY RollingFields
<1>3. /\ ~Closed(l, date) /\ ~OverdueBy(l, date) /\ Sizes(v) = RollingPositionSizes(l, date)
      /\ l.events # <<>> => l.events[n].date <= date
  <2>1. n # 0 => l.events[n].date \in Nat
    BY <1>2 DEF RollingEventType
  <2> QED BY <1>2, <2>1 DEF RollingCloseRefused
<1>4. /\ s.date = date /\ s.cash = l.cash /\ s.valuations = v
      /\ s.market = MarketValue(v) /\ s.receivable = Outstanding(l, date)
      /\ s.equity = s.cash + s.market + s.receivable
  BY DEF Snapshot
<1> HIDE DEF u, s, k
<1>5. Extends(l, u)
  <2>1. Len(l.lots) \in Nat
    BY RollingFields
  <2> QED BY <1>1, <1>2, <2>1 DEF Extends, SameLot
<1>6. \A x : RollingSnapshotReconciles(l, x) /\ x.date \in Nat => RollingSnapshotReconciles(u, x)
  <2> SUFFICES ASSUME NEW x, RollingSnapshotReconciles(l, x), x.date \in Nat
               PROVE  RollingSnapshotReconciles(u, x)
    OBVIOUS
  <2>1. RollingPositionSizes(u, x.date) = RollingPositionSizes(l, x.date)
    <3>1. /\ \A i \in DOMAIN u.events \ DOMAIN l.events : u.events[i].date > x.date
          /\ \A j \in DOMAIN u.lots \ DOMAIN l.lots : u.lots[j].acquired > x.date
      BY <1>1
    <3> DEFINE day == x.date
    <3> HIDE DEF day
    <3>2. RollingPositionSizes(u, day) = RollingPositionSizes(l, day)
      BY <1>1, <1>5, <3>1, PastPositions DEF day
    <3> QED BY <3>2 DEF day
  <2>2. /\ OverdueBy(u, x.date) <=> OverdueBy(l, x.date)
        /\ CashAsOf(u, x.date, x.cash) <=> CashAsOf(l, x.date, x.cash)
        /\ Outstanding(u, x.date) = Outstanding(l, x.date)
    BY <1>1 DEF OverdueBy, CashAsOf, Outstanding
  <2> QED BY <2>1, <2>2 DEF RollingSnapshotReconciles
<1>7. CashAsOf(l, date, l.cash)
  <2>1. CASE l.events = <<>>
    BY <1>2, <2>1 DEF CashAsOf, RollingVerified, RollingCashReplays
  <2>2. CASE l.events # <<>>
    <3>1. n \in DOMAIN l.events /\ l.cash = l.events[n].after
      BY <1>2, <2>2 DEF RollingVerified, RollingCashReplays
    <3> QED BY <1>2, <1>3, <2>2, <3>1 DEF CashAsOf
  <2> QED BY <2>1, <2>2
<1>8. RollingSnapshotReconciles(l, s)
  BY <1>3, <1>4, <1>7 DEF RollingSnapshotReconciles
<1>9. \A i \in 1 .. k + 1 : i = k + 1 \/ i \in 1 .. k
  BY <1>2
<1>10. ASSUME NEW i \in 1 .. k + 1 PROVE RollingSnapshotReconciles(u, u.snapshots[i])
  <2>1. CASE i = k + 1
    BY <1>1, <1>4, <1>6, <1>8, <2>1
  <2>2. CASE i \in 1 .. k
    BY <1>1, <1>2, <1>6, <2>2 DEF RollingVerified
  <2> QED BY <1>9, <2>1, <2>2
<1>11. ASSUME NEW i \in 1 .. k + 1, NEW j \in 1 .. k + 1, i < j
       PROVE  u.snapshots[i].date < u.snapshots[j].date
  <2>1. \A h \in 1 .. k : l.snapshots[h].date < date
    <3> SUFFICES ASSUME NEW h \in 1 .. k PROVE l.snapshots[h].date < date
      OBVIOUS
    <3>1. l.snapshots[k].date < date
      BY <1>2, <1>3 DEF Closed, k
    <3>2. h < k => l.snapshots[h].date < l.snapshots[k].date
      BY <1>2 DEF RollingVerified
    <3> QED BY <1>2, <3>1, <3>2
  <2>2. \A g, h \in 1 .. k : g < h => l.snapshots[g].date < l.snapshots[h].date
    BY <1>2 DEF RollingVerified
  <2>3. i \in 1 .. k /\ u.snapshots[i] = l.snapshots[i]
    BY <1>1, <1>2, <1>11
  <2>4. CASE j = k + 1
    BY <1>1, <1>4, <2>1, <2>3, <2>4
  <2>5. CASE j \in 1 .. k
    BY <1>1, <1>11, <2>2, <2>3, <2>5
  <2> QED BY <1>9, <2>4, <2>5
<1>12. /\ \A j \in DOMAIN u.lots : RollingLotOK(u.lots[j])
       /\ \A d \in DOMAIN u.receivables : ReceivableOK(u.receivables[d])
       /\ \A i \in DOMAIN u.events : u.events[i].notional > 0
       /\ RollingCashReplays(u) /\ EventsInOrder(u) /\ LotsInBuyOrder(u)
       /\ PaymentsMatchReceivables(u)
  BY <1>1 DEF RollingVerified, RollingCashReplays, EventsInOrder, LotsInBuyOrder,
              PaymentsMatchReceivables
<1>13. FillsMatchLots(AsBought(u))
  <2>1. RollingFillsMatch(l)
    BY RollingFills DEF RollingVerified
  <2>2. RollingFillsMatch(u)
    BY <1>1, <2>1 DEF RollingFillsMatch
  <2> QED BY <1>1, <2>2, RollingFills
<1>14. \A i \in SellsIn(u, DOMAIN u.events) : SellReplays(u, i)
  <2> SUFFICES ASSUME NEW i \in SellsIn(l, DOMAIN l.events) PROVE SellReplays(u, i)
    BY <1>1 DEF SellsIn
  <2>1. SellReplays(l, i)
    BY DEF RollingVerified
  <2> QED BY <1>1, <1>5, <2>1, PastSells
<1>15. \A j \in DOMAIN u.lots :
          u.lots[j].remaining = u.lots[j].original - SoldOf(u, j, DOMAIN u.events)
  <2> DEFINE E == DOMAIN l.events
  <2>1. E \in SUBSET DOMAIN l.events /\ RollingType(u)
    BY <1>1
  <2>2. \A j \in DOMAIN l.lots : l.lots[j].remaining = l.lots[j].original - SoldOf(l, j, E)
    BY DEF RollingVerified
  <2>3. DOMAIN u.events = E
    BY <1>1
  <2> HIDE DEF E
  <2>4. \A j : SoldOf(u, j, E) = SoldOf(l, j, E)
    BY <1>5, <2>1, PastSold
  <2> QED BY <1>1, <2>2, <2>3, <2>4
<1>16. /\ \A i, j \in DOMAIN u.snapshots : i < j => u.snapshots[i].date < u.snapshots[j].date
       /\ \A i \in DOMAIN u.snapshots : RollingSnapshotReconciles(u, u.snapshots[i])
  BY <1>1, <1>10, <1>11
<1>17. RollingVerified(u)
  BY <1>12, <1>13, <1>14, <1>15, <1>16 DEF RollingVerified
<1> QED BY <1>17 DEF u

-----------------------------------------------------------------------------
(* The steps of the rolling caller *)

\* A ledger whose fills and lots are those of one in order is in order.
LEMMA SameOrder ==
    ASSUME NEW l, NEW u, LotsInBuyOrder(l), u.lots = l.lots,
           \A i \in DOMAIN u.events : u.events[i].kind = "fill" =>
              i \in DOMAIN l.events /\ l.events[i] = u.events[i]
    PROVE  LotsInBuyOrder(u)
BY DEF LotsInBuyOrder

\* post_buy adds the newest lot with the newest fill.
LEMMA BoughtInOrder ==
    ASSUME NEW l, LedgerType(l), Verified(l), LotsInBuyOrder(l),
           NEW p \in Postings, ~BuyRefused(l, p)
    PROVE  LotsInBuyOrder(Bought(l, p))
<1> DEFINE u == Bought(l, p)
           n == Len(l.events)
           m == Len(l.lots)
<1>1. /\ n \in Nat /\ DOMAIN l.events = 1 .. n /\ m \in Nat /\ DOMAIN l.lots = 1 .. m
  BY LedgerFields
<1>2. /\ DOMAIN u.lots = 1 .. m + 1 /\ u.lots[m + 1] = p.lot
      /\ \A k \in 1 .. m : u.lots[k] = l.lots[k]
      /\ DOMAIN u.events = 1 .. n + 1 /\ u.events[n + 1] = BuyEvent(l, p)
      /\ \A i \in 1 .. n : u.events[i] = l.events[i]
  <2>1. /\ LedgerType(u)
        /\ Len(u.lots) = m + 1 /\ u.lots[m + 1] = p.lot
        /\ \A k \in 1 .. m : u.lots[k] = l.lots[k]
        /\ Len(u.events) = n + 1 /\ u.events[n + 1] = BuyEvent(l, p)
        /\ \A i \in 1 .. n : u.events[i] = l.events[i]
    BY PostingsAssumption, BoughtFields
  <2> HIDE DEF u
  <2> QED BY <2>1, LedgerFields
<1> HIDE DEF u, n, m
<1>3. /\ u.events[n + 1].ref = u.lots[m + 1].id /\ u.lots[m + 1].id \notin LotIds(l)
      /\ \A k \in 1 .. m : u.lots[k].id = l.lots[k].id
  BY <1>2 DEF BuyEvent, BuyRefused
<1>4. \A i \in 1 .. n : l.events[i].kind = "fill" => l.events[i].ref \in LotIds(l)
  BY <1>1 DEF Verified, FillsMatchLots, FillMatches, LotIds
<1>5. LotsInBuyOrder(u)
  BY <1>1, <1>2, <1>3, <1>4, NewestLast
<1> QED BY <1>5 DEF u

\* Every call on a portfolio ledger keeps that order.
LEMMA LegacyOrderKept ==
    ASSUME LegacyInv, Next
    PROVE  LotsInBuyOrder(ledger')
<1>1. LedgerType(ledger) /\ Verified(ledger) /\ LotsInBuyOrder(ledger)
  BY DEF LegacyInv, LedgerInv, TypeOK
<1>2. \A date : Refuse(date) => ledger' = ledger
  BY DEF Refuse
<1>3. \A u, date : Answer(u, date) => ledger' = u \/ ledger' = ledger
  BY DEF Answer
<1>4. ASSUME NEW p \in Postings, PostBuy(p) PROVE LotsInBuyOrder(ledger')
  <2>1. CASE BuyRefused(ledger, p) /\ Refuse(p.lot.acquired)
    BY <1>1, <1>2, <2>1
  <2>2. CASE ~BuyRefused(ledger, p) /\ Answer(Bought(ledger, p), p.lot.acquired)
    BY <1>1, <1>3, <2>2, BoughtInOrder
  <2> QED BY <1>4, <2>1, <2>2 DEF PostBuy
<1>5. ASSUME NEW d \in ReceivableIds, NEW r \in Receivable, RegisterReceivable(d, r)
      PROVE  LotsInBuyOrder(ledger')
  <2>1. CASE Refuse(r.registered)
    BY <1>1, <1>2, <2>1
  <2>2. CASE ~RegisterRefused(ledger, d, r) /\ Answer(Registered(ledger, d, r), r.registered)
    <3>1. /\ Registered(ledger, d, r).lots = ledger.lots
          /\ Registered(ledger, d, r).events = ledger.events
      BY <1>1, RegisteredFields
    <3>2. LotsInBuyOrder(Registered(ledger, d, r))
      BY <1>1, <3>1, SameOrder
    <3> QED BY <1>1, <1>3, <2>2, <3>2
  <2> QED BY <1>5, <2>1, <2>2 DEF RegisterReceivable
<1>6. ASSUME NEW date \in Nat, PayReceivables(date) PROVE LotsInBuyOrder(ledger')
  <2>1. CASE Refuse(date)
    BY <1>1, <1>2, <2>1
  <2>2. CASE Answer(Paid(ledger, date), date)
    <3>1. LedgerType(Paid(ledger, date)) /\ OnlyPays(ledger, Paid(ledger, date))
      BY <1>1, PaidReady
    <3>2. LotsInBuyOrder(Paid(ledger, date))
      BY <1>1, <3>1, SameOrder DEF OnlyPays
    <3> QED BY <1>1, <1>3, <2>2, <3>2
  <2> QED BY <1>6, <2>1, <2>2 DEF PayReceivables
<1>7. ASSUME NEW date \in Nat, NEW v, CloseSession(date, v) PROVE LotsInBuyOrder(ledger')
  <2>1. CASE Refuse(date)
    BY <1>1, <1>2, <2>1
  <2>2. CASE Answer(ClosedWith(ledger, date, v), date)
    <3>1. /\ ClosedWith(ledger, date, v).lots = ledger.lots
          /\ ClosedWith(ledger, date, v).events = ledger.events
      BY <1>1, ClosedFields
    <3>2. LotsInBuyOrder(ClosedWith(ledger, date, v))
      BY <1>1, <3>1, SameOrder
    <3> QED BY <1>1, <1>3, <2>2, <3>2
  <2> QED BY <1>7, <2>1, <2>2 DEF CloseSession
<1>8. CASE \E p \in Postings : PostBuy(p)
  BY <1>4, <1>8
<1>9. CASE \E g \in Registrations : RegisterReceivable(g[1], g[2])
  BY <1>5, <1>9, RegistrationsAssumption
<1>10. CASE \E date \in Dates : PayReceivables(date)
  BY <1>6, <1>10, DatesAssumption
<1>11. CASE \E date, view \in Dates, mark \in [Symbols -> Marks] :
              CloseSession(date, ValuationsAt(ledger, view, mark))
  BY <1>7, <1>11, DatesAssumption
<1> QED BY <1>8, <1>9, <1>10, <1>11 DEF Next

\* The ids of a call are already in the ledger.
Taken(l, a) == a # <<>> /\ (a[1] \in EventIds(l) \/ a[2] \in LotIds(l))

\* What a call on a rolling ledger keeps.
KeptByCall ==
    /\ HeldInv' /\ RollingReplayOnlyCatchesMisuse' /\ KeepsHistory(ledger, ledger')
    /\ reply' \in {"ok", "refused", "unreconciled"} /\ asOf' \in Nat

\* A refused call changes nothing.
LEMMA RollingRefuseStep ==
    ASSUME HeldInv, NEW date \in Nat, Refuse(date)
    PROVE  KeptByCall
<1>1. ledger' = ledger /\ reply' = "refused" /\ asOf' = date
  BY DEF Refuse
<1>2. HeldInv'
  BY <1>1 DEF HeldInv
<1> QED BY <1>1, <1>2 DEF KeptByCall, RollingReplayOnlyCatchesMisuse, KeepsHistory

\* The end every rolling operation shares: the replay, and what is handed back.
LEMMA RollingAnswerStep ==
    ASSUME HeldInv, NEW date \in Nat, NEW u, RollingAnswer(u, date), RollingType(u),
           KeepsHistory(ledger, u), NEW a, asked' = a,
           ~OutOfOrder(ledger, date) /\ ~Taken(ledger, a) => RollingVerified(u)
    PROVE  KeptByCall
<1>1. asOf' = date
  BY DEF RollingAnswer
<1>2. CASE RollingVerified(u) /\ ledger' = u /\ reply' = "ok"
  <2>1. HeldInv'
    BY <1>2 DEF HeldInv
  <2> QED BY <1>1, <1>2, <2>1 DEF KeptByCall, RollingReplayOnlyCatchesMisuse
<1>3. CASE ~RollingVerified(u) /\ ledger' = ledger /\ reply' = "unreconciled"
  <2>1. HeldInv'
    BY <1>3 DEF HeldInv
  <2>2. OutOfOrder(ledger, date) \/ Taken(ledger, a)
    BY <1>3
  <2>3. OutOfOrder(ledger', asOf') \/ Taken(ledger', asked')
    BY <1>1, <1>3, <2>2
  <2>4. RollingReplayOnlyCatchesMisuse'
    BY <2>3 DEF RollingReplayOnlyCatchesMisuse, TakenId, Taken
  <2> QED BY <1>1, <1>3, <2>1, <2>4 DEF KeptByCall, KeepsHistory
<1> QED BY <1>2, <1>3 DEF RollingAnswer

\* post_rolling_buy
LEMMA RollingBuyStep ==
    ASSUME HeldInv, NEW p \in RollingPostings, Buy(p)
    PROVE  KeptByCall
<1>1. /\ RollingType(ledger) /\ RollingVerified(ledger) /\ p.lot.acquired \in Nat
      /\ asked' = <<p.event, p.lot.id>>
  BY RollingPostingsAssumption DEF HeldInv, Lot, Buy
<1>2. CASE Refuse(p.lot.acquired)
  BY <1>1, <1>2, RollingRefuseStep
<1>3. CASE ~BuyRefused(PurseOf(ledger), p)
           /\ RollingAnswer(RollingBought(ledger, p), p.lot.acquired)
  <2> DEFINE u == RollingBought(ledger, p)
             n == Len(ledger.events)
             a == <<p.event, p.lot.id>>
  <2>1. /\ RollingType(u) /\ u.snapshots = ledger.snapshots
        /\ Len(u.events) = n + 1
        /\ \A i \in 1 .. n : u.events[i] = ledger.events[i]
    BY <1>1, <1>3, RollingBoughtFields
  <2> HIDE DEF u
  <2>2. KeepsHistory(ledger, u)
    <3>1. n \in Nat /\ DOMAIN ledger.events = 1 .. n /\ DOMAIN u.events = 1 .. Len(u.events)
      BY <1>1, <2>1, RollingFields
    <3> QED BY <2>1, <3>1 DEF KeepsHistory
  <2>3. ~Taken(ledger, a) => p.event \notin EventIds(ledger) /\ p.lot.id \notin LotIds(ledger)
    <3>1. a # <<>> /\ a[1] = p.event /\ a[2] = p.lot.id
      OBVIOUS
    <3> QED BY <3>1 DEF Taken
  <2> HIDE DEF a
  <2>4. ~OutOfOrder(ledger, p.lot.acquired) /\ ~Taken(ledger, a) => RollingVerified(u)
    BY <1>1, <1>3, <2>3, RollingBoughtVerified DEF u
  <2>5. RollingAnswer(u, p.lot.acquired) /\ asked' = a
    BY <1>1, <1>3 DEF u, a
  <2> DEFINE date == p.lot.acquired
  <2>6. /\ date \in Nat /\ RollingAnswer(u, date)
        /\ ~OutOfOrder(ledger, date) /\ ~Taken(ledger, a) => RollingVerified(u)
    BY <1>1, <2>4, <2>5
  <2> HIDE DEF date
  <2> QED BY <2>1, <2>2, <2>5, <2>6, RollingAnswerStep
<1> QED BY <1>2, <1>3 DEF Buy, PostRollingBuy

\* post_rolling_sell
LEMMA RollingSellStep ==
    ASSUME HeldInv, NEW q \in Sells, Sell(q)
    PROVE  KeptByCall
<1>1. /\ RollingType(ledger) /\ RollingVerified(ledger) /\ q.date \in Nat /\ asked' = <<>>
  BY SellsAssumption, DatesAssumption DEF HeldInv, Sell
<1>2. CASE Refuse(q.date)
  BY <1>1, <1>2, RollingRefuseStep
<1>3. CASE ~SellRefused(ledger, q) /\ RollingAnswer(Sold(ledger, q), q.date)
  <2> DEFINE u == Sold(ledger, q)
             n == Len(ledger.events)
             date == q.date
  <2>1. /\ RollingType(u) /\ u.snapshots = ledger.snapshots
        /\ Len(u.events) = n + 1
        /\ \A i \in 1 .. n : u.events[i] = ledger.events[i]
    BY <1>1, <1>3, SoldFields
  <2> HIDE DEF u
  <2>2. KeepsHistory(ledger, u)
    <3>1. n \in Nat /\ DOMAIN ledger.events = 1 .. n /\ DOMAIN u.events = 1 .. Len(u.events)
      BY <1>1, <2>1, RollingFields
    <3> QED BY <2>1, <3>1 DEF KeepsHistory
  <2>3. ~OutOfOrder(ledger, q.date) => RollingVerified(u)
    BY <1>1, <1>3, SoldVerified DEF u
  <2>4. /\ date \in Nat /\ RollingAnswer(u, date) /\ asked' = <<>>
        /\ ~OutOfOrder(ledger, date) /\ ~Taken(ledger, <<>>) => RollingVerified(u)
    BY <1>1, <1>3, <2>3 DEF u
  <2> HIDE DEF date
  <2> QED BY <2>1, <2>2, <2>4, RollingAnswerStep
<1> QED BY <1>2, <1>3 DEF Sell, PostRollingSell

\* close_rolling_session
LEMMA RollingCloseStep ==
    ASSUME HeldInv, NEW date \in Nat, NEW v, Close(date, v)
    PROVE  KeptByCall
<1>1. RollingType(ledger) /\ RollingVerified(ledger) /\ asked' = <<>>
  BY DEF HeldInv, Close
<1>2. CASE Refuse(date)
  BY <1>2, RollingRefuseStep
<1>3. CASE ~RollingCloseRefused(ledger, date, v)
           /\ RollingAnswer(ClosedWith(ledger, date, v), date)
  <2> DEFINE u == ClosedWith(ledger, date, v)
             k == Len(ledger.snapshots)
  <2>1. /\ RollingType(u) /\ u.events = ledger.events
        /\ DOMAIN u.snapshots = 1 .. k + 1
        /\ \A i \in 1 .. k : u.snapshots[i] = ledger.snapshots[i]
    BY <1>1, RollingClosedFields
  <2> HIDE DEF u
  <2>2. KeepsHistory(ledger, u)
    <3>1. k \in Nat /\ DOMAIN ledger.snapshots = 1 .. k
      BY <1>1, RollingFields
    <3> HIDE DEF k
    <3> QED BY <2>1, <3>1 DEF KeepsHistory
  <2>3. RollingVerified(u) /\ RollingAnswer(u, date)
    BY <1>1, <1>3, RollingClosedVerified DEF u
  <2> QED BY <1>1, <2>1, <2>2, <2>3, RollingAnswerStep
<1> QED BY <1>2, <1>3 DEF Close, CloseRollingSession

-----------------------------------------------------------------------------
(* The theorems about the rolling ledger *)

\* One step of the rolling caller keeps the invariant and the agreement of the
\* posters with the replay, and a step on a rolling ledger keeps its history.
LEMMA RollingNextStep ==
    ASSUME RollingInv, RollingNext
    PROVE  /\ RollingInv' /\ RollingReplayOnlyCatchesMisuse'
           /\ schema = "rolling" => schema' = "rolling" /\ KeepsHistory(ledger, ledger')
<1>1. CASE Legacy
  <2>1. /\ schema = "legacy" /\ schema' = "legacy" /\ asked' = asked /\ LegacyInv
        /\ asked = <<>> \/ \E p \in RollingPostings : asked = <<p.event, p.lot.id>>
    BY <1>1 DEF Legacy, RollingInv
  <2>2. LedgerInv'
    BY <1>1, <2>1, NextStep DEF Legacy, LegacyInv
  <2>3. LotsInBuyOrder(ledger')
    BY <1>1, <2>1, LegacyOrderKept DEF Legacy
  <2>4. LegacyInv'
    BY <2>2, <2>3 DEF LegacyInv
  <2>5. reply' \in {"ok", "refused", "unreconciled"} /\ asOf' \in Nat
    BY <2>2 DEF LedgerInv, TypeOK
  <2> QED BY <2>1, <2>4, <2>5 DEF RollingInv, RollingReplayOnlyCatchesMisuse
<1>2. CASE Promote
  <2>1. /\ schema = "legacy" /\ schema' = "rolling" /\ asked' = asked /\ asOf' = asOf
        /\ reply' = "ok" /\ LegacyInv /\ ledger' = Promoted(ledger) /\ asOf \in Nat
        /\ asked = <<>> \/ \E p \in RollingPostings : asked = <<p.event, p.lot.id>>
    BY <1>2 DEF Promote, RollingInv
  <2>2. LedgerType(ledger) /\ Verified(ledger) /\ LotsInBuyOrder(ledger)
    BY <2>1 DEF LegacyInv, LedgerInv, TypeOK
  <2>3. RollingType(ledger') /\ RollingVerified(ledger')
    BY <2>1, <2>2, PromotedFields, PromotedReplays
  <2>4. HeldInv'
    BY <2>3 DEF HeldInv
  <2> QED BY <2>1, <2>4 DEF RollingInv, RollingReplayOnlyCatchesMisuse
<1>3. CASE Rolling
  <2>1. schema = "rolling" /\ schema' = "rolling" /\ HeldInv
    BY <1>3 DEF Rolling, RollingInv
  <2>2. CASE \E p \in RollingPostings : Buy(p)
    <3>1. PICK p \in RollingPostings : Buy(p)
      BY <2>2
    <3>2. KeptByCall /\ asked' = <<p.event, p.lot.id>>
      BY <2>1, <3>1, RollingBuyStep DEF Buy
    <3> QED BY <2>1, <3>2 DEF KeptByCall, RollingInv
  <2>3. CASE \E q \in Sells : Sell(q)
    <3>1. KeptByCall /\ asked' = <<>>
      BY <2>1, <2>3, RollingSellStep DEF Sell
    <3> QED BY <2>1, <3>1 DEF KeptByCall, RollingInv
  <2>4. CASE \E date, view \in Dates, mark \in [Symbols -> Marks] :
                Close(date, RollingValuationsAt(ledger, view, mark))
    <3>1. KeptByCall /\ asked' = <<>>
      BY <2>1, <2>4, RollingCloseStep, DatesAssumption DEF Close
    <3> QED BY <2>1, <3>1 DEF KeptByCall, RollingInv
  <2> QED BY <1>3, <2>2, <2>3, <2>4 DEF Rolling
<1> QED BY <1>1, <1>2, <1>3 DEF RollingNext

\* Whatever a caller asks of a ledger before and after promoting it, and of a
\* rolling one about any date, the ledger it holds is typed and replays, and a
\* portfolio ledger keeps its lots in the order of their fills.
THEOREM RollingLedgerAlwaysReplays == RollingSpec => []RollingInv
<1>1. RollingInit => RollingInv
  <2> SUFFICES ASSUME RollingInit PROVE RollingInv
    OBVIOUS
  <2>1. LedgerInv /\ schema = "legacy" /\ asked = <<>>
    BY InitReplays DEF RollingInit
  <2>2. LotsInBuyOrder(ledger)
    <3>1. ledger.lots = <<>>
      BY DEF RollingInit, Init, CreateLedger
    <3> QED BY <3>1 DEF LotsInBuyOrder
  <2> QED BY <2>1, <2>2 DEF RollingInv, LegacyInv, LedgerInv, TypeOK
<1>2. RollingInv /\ [RollingNext]_rollingVars => RollingInv'
  <2> SUFFICES ASSUME RollingInv, [RollingNext]_rollingVars PROVE RollingInv'
    OBVIOUS
  <2>1. CASE RollingNext
    BY <2>1, RollingNextStep
  <2>2. CASE UNCHANGED rollingVars
    BY <2>2 DEF rollingVars, ledgerVars, RollingInv, LegacyInv, HeldInv, LedgerInv, TypeOK
  <2> QED BY <2>1, <2>2
<1> QED BY <1>1, <1>2, PTL DEF RollingSpec

\* The checks at the head of post_rolling_buy, post_rolling_sell and
\* close_rolling_session are complete but for a date out of order and, in a buy
\* alone, an id already in use: nothing else can fail verify_rolling_ledger.
THEOREM RollingCallsReplay == RollingSpec => []RollingReplayOnlyCatchesMisuse
<1>1. RollingInit => RollingReplayOnlyCatchesMisuse
  BY DEF RollingInit, RollingReplayOnlyCatchesMisuse
<1>2. RollingInv /\ RollingReplayOnlyCatchesMisuse /\ [RollingNext]_rollingVars
      => RollingReplayOnlyCatchesMisuse'
  <2> SUFFICES ASSUME RollingInv, RollingReplayOnlyCatchesMisuse, [RollingNext]_rollingVars
               PROVE  RollingReplayOnlyCatchesMisuse'
    OBVIOUS
  <2>1. CASE RollingNext
    BY <2>1, RollingNextStep
  <2>2. CASE UNCHANGED rollingVars
    BY <2>2 DEF rollingVars, ledgerVars, RollingReplayOnlyCatchesMisuse, TakenId
  <2> QED BY <2>1, <2>2
<1> QED BY <1>1, <1>2, RollingLedgerAlwaysReplays, PTL DEF RollingSpec

\* First in, first out over the whole life of a ledger: consume_fifo empties a
\* lot before it touches a younger one of the symbol sellable no sooner.
THEOREM OldestAlwaysGoFirst == RollingSpec => []OldestLotsGoFirst
<1>1. RollingInv => OldestLotsGoFirst
  <2> SUFFICES ASSUME RollingInv, schema = "rolling",
                      NEW k \in DOMAIN ledger.lots, NEW m \in DOMAIN ledger.lots,
                      k < m, ledger.lots[k].symbol = ledger.lots[m].symbol,
                      ledger.lots[k].available <= ledger.lots[m].available,
                      ledger.lots[k].remaining > 0
               PROVE  ledger.lots[m].remaining = ledger.lots[m].original
    BY DEF OldestLotsGoFirst
  <2>1. RollingType(ledger) /\ RollingVerified(ledger)
    BY DEF RollingInv, HeldInv
  <2> QED BY <2>1, OldestFirst
<1> QED BY <1>1, RollingLedgerAlwaysReplays, PTL

\* promote_portfolio_ledger may copy a ledger without replaying it: the copy
\* always replays, and until the first sell it would still do so as it was.
THEOREM SiblingSchemasAlwaysAgree == RollingSpec => []SiblingSchemasAgree
<1>1. ASSUME RollingInv, schema = "legacy" PROVE SiblingSchemasAgree
  <2>1. LedgerType(ledger) /\ Verified(ledger) /\ LotsInBuyOrder(ledger)
    BY <1>1 DEF RollingInv, LegacyInv, LedgerInv, TypeOK
  <2>2. RollingVerified(Promoted(ledger))
    BY <2>1, PromotedReplays
  <2>3. /\ ledger.initial \in Nat /\ ledger.cash \in Nat
        /\ DOMAIN ledger.receivables \subseteq ReceivableIds
        /\ \A i \in DOMAIN ledger.events : ledger.events[i].kind \in {"fill", "dividend"}
    BY <2>1 DEF LedgerType
  <2>4. RollingTypeOK
    BY <1>1, <2>3 DEF RollingInv, RollingTypeOK
  <2> QED BY <1>1, <2>2, <2>4 DEF SiblingSchemasAgree
<1>2. ASSUME RollingInv, schema = "rolling" PROVE SiblingSchemasAgree
  <2>1. RollingType(ledger) /\ RollingVerified(ledger)
    BY <1>2 DEF RollingInv, HeldInv
  <2>2. SellsIn(ledger, DOMAIN ledger.events) = {} => Verified(ledger)
    BY <2>1, UnsoldReplays
  <2>3. /\ ledger.initial \in Nat /\ ledger.cash \in Nat
        /\ DOMAIN ledger.receivables \subseteq ReceivableIds
        /\ \A i \in DOMAIN ledger.events : RollingEventType(ledger, ledger.events[i])
    BY <2>1 DEF RollingType
  <2>4. \A i \in DOMAIN ledger.events :
           /\ ledger.events[i].kind \in {"fill", "dividend", "sell"}
           /\ ledger.events[i].kind = "sell" =>
                 DOMAIN ledger.events[i].consumed \subseteq DOMAIN ledger.lots
    BY <2>3 DEF RollingEventType
  <2>5. RollingTypeOK
    BY <1>2, <2>3, <2>4 DEF RollingInv, RollingTypeOK
  <2> QED BY <1>2, <2>2, <2>5 DEF SiblingSchemasAgree
<1>3. RollingInv => SiblingSchemasAgree
  BY <1>1, <1>2 DEF RollingInv
<1> QED BY <1>3, RollingLedgerAlwaysReplays, PTL

\* What a closed day of a rolling ledger said stays true: later sells are taken
\* back out of the lots before they are looked at.
THEOREM RollingDaysNeverChange == RollingSpec => RollingDaysStand
<1> DEFINE Stands ==
             schema = "rolling" =>
               \A i \in DOMAIN ledger.snapshots :
                   LET day == ledger.snapshots[i].date
                   IN  /\ RollingPositionSizes(ledger', day) = RollingPositionSizes(ledger, day)
                       /\ CashAsOf(ledger', day, ledger.snapshots[i].cash)
                       /\ i \in DOMAIN ledger'.snapshots
                       /\ ledger'.snapshots[i] = ledger.snapshots[i]
<1>1. RollingInv /\ [RollingNext]_rollingVars => [Stands]_rollingVars
  <2> SUFFICES ASSUME RollingInv, RollingNext, schema = "rolling",
                      NEW i \in DOMAIN ledger.snapshots
               PROVE  LET day == ledger.snapshots[i].date
                      IN  /\ RollingPositionSizes(ledger', day) = RollingPositionSizes(ledger, day)
                          /\ CashAsOf(ledger', day, ledger.snapshots[i].cash)
                          /\ i \in DOMAIN ledger'.snapshots
                          /\ ledger'.snapshots[i] = ledger.snapshots[i]
    OBVIOUS
  <2>1. RollingInv' /\ schema' = "rolling" /\ KeepsHistory(ledger, ledger')
    BY RollingNextStep
  <2>2. RollingVerified(ledger) /\ RollingVerified(ledger')
    BY <2>1 DEF RollingInv, HeldInv
  <2>3. i \in DOMAIN ledger'.snapshots /\ ledger'.snapshots[i] = ledger.snapshots[i]
    BY <2>1 DEF KeepsHistory
  <2>4. /\ RollingSnapshotReconciles(ledger, ledger.snapshots[i])
        /\ RollingSnapshotReconciles(ledger', ledger.snapshots[i])
    BY <2>2, <2>3 DEF RollingVerified
  <2> QED BY <2>3, <2>4 DEF RollingSnapshotReconciles
<1>2. RollingDaysStand <=> [][Stands]_rollingVars
  BY DEF RollingDaysStand
<1> HIDE DEF Stands
<1> QED BY <1>1, <1>2, RollingLedgerAlwaysReplays, PTL DEF RollingSpec

-----------------------------------------------------------------------------
(* The rules a coordinator asks *)

\* Within the calendar, the rules break their contract only before the first
\* fee rate.
LEMMA BrokenContract ==
    ASSUME NEW o, o.signal \in Calendar, NextSession(o.signal) # NoDate,
           NextSession(NextSession(o.signal)) # NoDate,
           EvaluateOrder(o) \in ContractFailures
    PROVE  MissingSchedule(o.symbol, o.side, NextSession(o.signal))
<1>1. PICK i \in 1 .. 12 : Refusals(o)[i][1] /\ Refusals(o)[i][2] \in ContractFailures
  BY AnswerIs DEF ContractFailures
<1>2. \A k \in {3, 5, 6, 7, 8, 9, 10, 12} : Refusals(o)[k][2] \notin ContractFailures
  BY DEF Refusals, ContractFailures
<1>3. /\ Refusals(o)[1][1] = (o.signal \notin Calendar)
      /\ Refusals(o)[2][1] = (NextSession(o.signal) = NoDate)
      /\ Refusals(o)[4][1] =
            (o.side = "buy" /\ NextSession(NextSession(o.signal)) = NoDate)
      /\ Refusals(o)[11][1] = MissingSchedule(o.symbol, o.side, NextSession(o.signal))
  BY DEF Refusals
<1>4. i \in {1, 2, 4, 11}
  BY <1>1, <1>2
<1> QED BY <1>1, <1>3, <1>4

-----------------------------------------------------------------------------
(* Calls in order: what the ledger answers *)

LEMMA BuyAnswered ==
    ASSUME LedgerInv, NEW p, p.lot \in Lot, p.fees \in Nat, PostBuy(p),
           ~BuyRefused(ledger, p), ~OutOfOrder(ledger, p.lot.acquired)
    PROVE  LedgerInv' /\ reply' = "ok" /\ ledger' = Bought(ledger, p)
<1>1. LedgerType(ledger) /\ Verified(ledger) /\ p.lot.acquired \in Nat
  BY DEF LedgerInv, TypeOK, Lot
<1>2. LedgerType(Bought(ledger, p)) /\ Verified(Bought(ledger, p))
  BY <1>1, BoughtFields, BoughtVerified
<1>3. reply' = "ok" /\ ledger' = Bought(ledger, p) /\ asOf' = p.lot.acquired
  BY <1>2 DEF PostBuy, Answer
<1> QED BY <1>1, <1>2, <1>3 DEF LedgerInv, TypeOK

LEMMA RegisterAnswered ==
    ASSUME LedgerInv, NEW d \in ReceivableIds, NEW r \in Receivable,
           RegisterReceivable(d, r), ~RegisterRefused(ledger, d, r)
    PROVE  LedgerInv' /\ reply' = "ok" /\ ledger' = Registered(ledger, d, r)
<1>1. LedgerType(ledger) /\ Verified(ledger) /\ r.registered \in Nat
  BY DEF LedgerInv, TypeOK, Receivable
<1>2. LedgerType(Registered(ledger, d, r)) /\ Verified(Registered(ledger, d, r))
  BY <1>1, RegisteredFields, RegisteredVerified
<1>3. reply' = "ok" /\ ledger' = Registered(ledger, d, r) /\ asOf' = r.registered
  BY <1>2 DEF RegisterReceivable, Answer
<1> QED BY <1>1, <1>2, <1>3 DEF LedgerInv, TypeOK

LEMMA PayAnswered ==
    ASSUME LedgerInv, NEW date \in Nat, PayReceivables(date),
           ~PayRefused(ledger, date), ~OutOfOrder(ledger, date)
    PROVE  LedgerInv' /\ reply' = "ok" /\ ledger' = Paid(ledger, date)
<1>1. LedgerType(ledger) /\ Verified(ledger)
  BY DEF LedgerInv, TypeOK
<1>2. PayReady(ledger, date)
  BY <1>1 DEF PayReady, PayRefused
<1>3. LedgerType(Paid(ledger, date)) /\ Verified(Paid(ledger, date))
  BY <1>1, <1>2, PaidReady DEF PayReady
<1>4. reply' = "ok" /\ ledger' = Paid(ledger, date) /\ asOf' = date
  BY <1>3 DEF PayReceivables, Answer
<1> QED BY <1>3, <1>4 DEF LedgerInv, TypeOK

LEMMA CloseAnswered ==
    ASSUME LedgerInv, NEW date \in Nat, NEW v, CloseSession(date, v),
           ~CloseRefused(ledger, date, v)
    PROVE  LedgerInv' /\ reply' = "ok" /\ ledger' = ClosedWith(ledger, date, v)
<1>1. LedgerType(ledger) /\ Verified(ledger)
  BY DEF LedgerInv, TypeOK
<1>2. LedgerType(ClosedWith(ledger, date, v)) /\ Verified(ClosedWith(ledger, date, v))
  BY <1>1, ClosedFields, ClosedVerified
<1>3. reply' = "ok" /\ ledger' = ClosedWith(ledger, date, v) /\ asOf' = date
  BY <1>2 DEF CloseSession, Answer
<1> QED BY <1>2, <1>3 DEF LedgerInv, TypeOK

\* What paying changes: receivables due on the date are paid on it, each with
\* an event of its own.
PaysOn(l, u, date) ==
    /\ DOMAIN u.receivables = DOMAIN l.receivables
    /\ \A d \in DOMAIN l.receivables :
          \/ u.receivables[d] = l.receivables[d]
          \/ u.receivables[d] = [l.receivables[d] EXCEPT !.paid = date]
    /\ \A i \in DOMAIN u.events :
          \/ i \in DOMAIN l.events /\ u.events[i] = l.events[i]
          \/ /\ u.events[i].kind = "dividend" /\ u.events[i].date = date
             /\ u.events[i].id = CashId(u.events[i].ref)

LEMMA PayOneOn ==
    ASSUME NEW l, NEW x, NEW date \in Nat \ {0}, LedgerType(x), PaysOn(l, x, date),
           NEW d, IsDue(x, d, date)
    PROVE  /\ LedgerType(PayOne(x, d, date)) /\ PaysOn(l, PayOne(x, d, date), date)
           /\ ~IsDue(PayOne(x, d, date), d, date)
           /\ \A c : IsDue(PayOne(x, d, date), c, date) => IsDue(x, c, date)
<1> DEFINE u == PayOne(x, d, date)
           n == Len(x.events)
<1>1. /\ LedgerType(u)
      /\ DOMAIN u.events = 1 .. n + 1
      /\ u.events[n + 1] = Payment(x, d, date)
      /\ \A i \in 1 .. n : u.events[i] = x.events[i]
      /\ DOMAIN u.receivables = DOMAIN x.receivables
      /\ u.receivables[d] = [x.receivables[d] EXCEPT !.paid = date]
      /\ \A c \in DOMAIN x.receivables : c # d => u.receivables[c] = x.receivables[c]
  BY PaidFields
<1>2. n \in Nat /\ DOMAIN x.events = 1 .. n
      /\ \A c \in DOMAIN x.receivables : x.receivables[c] \in Receivable
  BY LedgerFields
<1>3. d \in DOMAIN x.receivables
  BY DEF IsDue
<1>4. u.receivables[d].paid = date /\ date # NoDate
  BY <1>1, <1>2, <1>3 DEF Receivable, NoDate
<1> HIDE DEF u, n
<1>5. ~IsDue(u, d, date)
  BY <1>4 DEF IsDue
<1>6. ASSUME NEW c, IsDue(u, c, date) PROVE IsDue(x, c, date)
  BY <1>1, <1>5, <1>6 DEF IsDue
<1>7. \A i \in 1 .. n + 1 : i \in 1 .. n \/ i = n + 1
  BY <1>2
<1>8. /\ u.events[n + 1].kind = "dividend" /\ u.events[n + 1].date = date
      /\ u.events[n + 1].id = CashId(u.events[n + 1].ref)
  BY <1>1 DEF Payment
<1>9. \A i \in DOMAIN u.events :
          \/ i \in DOMAIN l.events /\ u.events[i] = l.events[i]
          \/ /\ u.events[i].kind = "dividend" /\ u.events[i].date = date
             /\ u.events[i].id = CashId(u.events[i].ref)
  BY <1>1, <1>2, <1>7, <1>8 DEF PaysOn
<1>10. \A c \in DOMAIN l.receivables :
          \/ u.receivables[c] = l.receivables[c]
          \/ u.receivables[c] = [l.receivables[c] EXCEPT !.paid = date]
  <2> SUFFICES ASSUME NEW c \in DOMAIN l.receivables
               PROVE  \/ u.receivables[c] = l.receivables[c]
                      \/ u.receivables[c] = [l.receivables[c] EXCEPT !.paid = date]
    OBVIOUS
  <2>1. /\ c \in DOMAIN x.receivables
        /\ \/ x.receivables[c] = l.receivables[c]
           \/ x.receivables[c] = [l.receivables[c] EXCEPT !.paid = date]
    BY DEF PaysOn
  <2>2. CASE c # d
    BY <1>1, <2>1, <2>2
  <2>3. CASE c = d /\ x.receivables[c] = l.receivables[c]
    BY <1>1, <2>3
  <2>4. CASE c = d /\ x.receivables[c] = [l.receivables[c] EXCEPT !.paid = date]
    <3>1. x.receivables[c].paid = NoDate
      BY <2>4 DEF IsDue
    <3>2. x.receivables[c].paid = date
      <4>1. x.receivables[c] \in Receivable
        BY <1>2, <2>1
      <4>2. "paid" \in DOMAIN x.receivables[c]
        BY <4>1 DEF Receivable
      <4>3. DOMAIN l.receivables[c] = DOMAIN [l.receivables[c] EXCEPT !.paid = date]
        OBVIOUS
      <4> QED BY <2>4, <4>2, <4>3
    <3> QED BY <3>1, <3>2 DEF NoDate
  <2> QED BY <2>1, <2>2, <2>3, <2>4
<1>11. PaysOn(l, u, date)
  BY <1>1, <1>9, <1>10 DEF PaysOn
<1> QED BY <1>1, <1>5, <1>6, <1>11 DEF u

\* pay_receivables pays everything that is due on the date.
LEMMA PaysAll ==
    ASSUME NEW l, NEW date \in Nat \ {0}, LedgerType(l)
    PROVE  /\ PaysOn(l, Paid(l, date), date)
           /\ \A d : ~IsDue(Paid(l, date), d, date)
<1> DEFINE f == PaidUpTo(l, date)
           N == Len(PayOrder)
           Good(x, k) == /\ LedgerType(x) /\ PaysOn(l, x, date)
                         /\ \A j \in 1 .. k : ~IsDue(x, PayOrder[j], date)
           T == {k \in 0 .. N : ~Good(f[k], k)}
<1>1. N \in Nat /\ DOMAIN PayOrder = 1 .. N
  BY PayOrderAssumption, LenProperties
<1>2. /\ f[0] = l
      /\ \A k \in 1 .. N : f[k] = PayTurn(f[k-1], k, date)
  BY <1>1, PaidUpToDef
<1>3. Good(l, 0)
  BY DEF PaysOn
<1>4. ASSUME NEW x, NEW k \in 1 .. N, Good(x, k - 1) PROVE Good(PayTurn(x, k, date), k)
  <2>1. \A j \in 1 .. k : j \in 1 .. k - 1 \/ j = k
    BY <1>1
  <2>2. CASE IsDue(x, PayOrder[k], date)
    <3> DEFINE y == PayOne(x, PayOrder[k], date)
    <3>1. /\ LedgerType(y) /\ PaysOn(l, y, date)
          /\ ~IsDue(y, PayOrder[k], date)
          /\ \A c : IsDue(y, c, date) => IsDue(x, c, date)
      BY <1>4, <2>2, PayOneOn
    <3>2. PayTurn(x, k, date) = y
      BY <2>2 DEF PayTurn
    <3> HIDE DEF y
    <3> QED BY <1>4, <2>1, <3>1, <3>2
  <2>3. CASE ~IsDue(x, PayOrder[k], date)
    <3>1. PayTurn(x, k, date) = x
      BY <2>3 DEF PayTurn
    <3> QED BY <1>4, <2>1, <2>3, <3>1
  <2> QED BY <2>2, <2>3
<1> HIDE DEF f, Good, N
<1>5. T = {}
  <2> SUFFICES ASSUME T # {} PROVE FALSE
    OBVIOUS
  <2>1. T \subseteq Nat
    BY <1>1
  <2>2. PICK m \in T : \A k \in T : m <= k
    <3> HIDE DEF T
    <3> QED BY <2>1, NatMin
  <2>3. m \in 0 .. N /\ ~Good(f[m], m)
    BY <2>2
  <2>4. m # 0
    BY <1>2, <1>3, <2>3
  <2>5. m \in 1 .. N /\ m - 1 \in 0 .. N /\ ~(m <= m - 1)
    BY <1>1, <2>3, <2>4
  <2>6. Good(f[m-1], m-1)
    BY <2>2, <2>5
  <2> QED BY <1>2, <1>4, <2>3, <2>5, <2>6
<1>6. Good(f[N], N)
  BY <1>1, <1>5
<1>7. f[N] = Paid(l, date)
  BY DEF f, N, Paid
<1>8. /\ LedgerType(Paid(l, date)) /\ PaysOn(l, Paid(l, date), date)
      /\ \A j \in 1 .. N : ~IsDue(Paid(l, date), PayOrder[j], date)
  BY <1>6, <1>7 DEF Good
<1>9. ASSUME NEW d, IsDue(Paid(l, date), d, date) PROVE FALSE
  <2>1. d \in ReceivableIds
    BY <1>8, <1>9 DEF IsDue, LedgerType
  <2>2. PICK j \in 1 .. N : PayOrder[j] = d
    BY <1>1, <2>1, PayOrderAssumption
  <2> QED BY <1>8, <1>9, <2>2
<1> QED BY <1>8, <1>9

-----------------------------------------------------------------------------
(* The coordinator's invariant *)

Midway == {"dividends", "pay", "entries", "close"}
InputFailures == {"nonpositive_reference_price", "missing_calendar_coverage",
                  "rule_contract_failure"}

RunType ==
    /\ phase \in Midway \cup {"open", "done", "aborted"}
    /\ failure \in InputFailures \cup {"none"}
    /\ phase # "aborted" => failure = "none"
    /\ failure = "rule_contract_failure" =>
          \E y \in Symbols : MissingSchedule(y, "buy", session)
    /\ \A y \in Symbols : bars[y] = NoBar \/ bars[y] \in [open : Price, close : Price]
    /\ actions \in ActionSets
    /\ DOMAIN targets = DOMAIN SymbolOrder
    /\ \A i \in DOMAIN targets : targets[i].used \in Nat

\* Where the loop is: between two sessions, or in the one after the last closed.
Where ==
    /\ {previous, session} \subseteq Calendar
    /\ SignalDate <= previous /\ previous <= session /\ session <= EndDate
    /\ phase \in {"open", "done"} => session = previous
    /\ phase \in Midway => session = NextSession(previous)

\* What the ledger has recorded by then: closed days up to the previous
\* session, on which all lots but today's were bought.
Recorded ==
    /\ \A i \in DOMAIN ledger.snapshots : ledger.snapshots[i].date <= previous
    /\ \A i \in DOMAIN ledger.events : ledger.events[i].date <= session
    /\ \A k \in DOMAIN ledger.lots :
          \/ \E i \in DOMAIN ledger.snapshots : ledger.snapshots[i].date = ledger.lots[k].acquired
          \/ /\ ledger.lots[k].acquired = session
             /\ phase \in {"entries", "close", "aborted"}

\* Ids are those of filled targets and of paid receivables.
Filled(i) == i \in DOMAIN targets /\ targets[i].status = "filled"
Identified ==
    /\ \A e \in DOMAIN ledger.events :
          IF ledger.events[e].kind = "fill"
          THEN \E i \in DOMAIN targets : Filled(i) /\
                  ledger.events[e].id = <<"fill", SymbolOrder[i], targets[i].used>>
          ELSE ledger.events[e].id = CashId(ledger.events[e].ref)
    /\ \A k \in DOMAIN ledger.lots :
          \E i \in DOMAIN targets : Filled(i) /\
             ledger.lots[k].id = <<"lot", SymbolOrder[i], targets[i].used>>

\* The shares bought by a record date.
Bearing(l, symbol, record) ==
    SizeOf(l.lots, {i \in DOMAIN l.lots :
        l.lots[i].symbol = symbol /\ l.lots[i].acquired <= record})

\* Who is owed what: entitlements of past ex-dates by the lots of the record
\* date, and a receivable that is not paid yet is not due either.
Entitled ==
    \A d \in DOMAIN entitled :
        /\ d \in DOMAIN actions /\ actions[d].ex > SignalDate /\ actions[d].ex <= session
        /\ entitled[d] = Bearing(ledger, actions[d].symbol, actions[d].record)
        /\ d \notin DOMAIN ledger.receivables =>
              NotionalFen(actions[d].perUnit, entitled[d]) = 0
Owed ==
    \A d \in DOMAIN ledger.receivables :
        LET r == ledger.receivables[d] IN
        /\ d \in DOMAIN entitled
        /\ r.amount = NotionalFen(actions[d].perUnit, entitled[d])
        /\ r.paid = NoDate =>
              /\ r.actual \in Calendar
              /\ IF phase \in {"dividends", "pay", "aborted"} THEN session <= r.actual
                                                              ELSE session < r.actual
Queued ==
    \A d \in queue :
        /\ d \in DOMAIN actions /\ actions[d].ex = session
        /\ phase = "dividends" => d \notin DOMAIN entitled

RunInv ==
    /\ LedgerInv /\ RunType /\ Where /\ Recorded /\ Identified
    /\ Entitled /\ Owed /\ Queued

-----------------------------------------------------------------------------
(* The steps that leave the ledger alone *)

\* What the numbers of an invariant state are.
LEMMA RunFields ==
    ASSUME RunInv
    PROVE  /\ LedgerInv /\ LedgerType(ledger) /\ Verified(ledger)
           /\ session \in Nat \ {0} /\ previous \in Nat \ {0}
           /\ session \in Calendar /\ previous \in Calendar
           /\ previous <= session /\ session <= EndDate /\ SignalDate <= previous
           /\ EndDate \in Nat /\ SignalDate \in Nat
           /\ NextSession(session) # NoDate /\ NextSession(previous) # NoDate
           /\ NextSession(session) \in Calendar /\ NextSession(previous) \in Calendar
           /\ session < NextSession(session) /\ previous < NextSession(previous)
           /\ \A s \in Calendar : previous < s => NextSession(previous) <= s
<1>1. LedgerInv /\ LedgerType(ledger) /\ Verified(ledger)
  BY DEF RunInv, LedgerInv, TypeOK
<1>2. /\ session \in Calendar /\ previous \in Calendar
      /\ previous <= session /\ session <= EndDate /\ SignalDate <= previous
  BY DEF RunInv, Where
<1>3. /\ Calendar \subseteq Nat \ {0} /\ EndDate \in Calendar /\ SignalDate \in Calendar
      /\ NextSession(EndDate) # NoDate
  BY CalendarAssumption, CoordinatorAssumption
<1>4. session \in Nat \ {0} /\ previous \in Nat \ {0} /\ EndDate \in Nat /\ SignalDate \in Nat
  BY <1>2, <1>3
<1>5. NextSession(EndDate) \in Calendar /\ EndDate < NextSession(EndDate)
  BY <1>3, <1>4, NextSessionIs
<1>6. ASSUME NEW d \in Nat, d <= EndDate
      PROVE  /\ NextSession(d) # NoDate /\ NextSession(d) \in Calendar /\ d < NextSession(d)
             /\ \A s \in Calendar : d < s => NextSession(d) <= s
  <2>1. NextSession(EndDate) \in Nat
    BY <1>3, <1>5
  <2>2. ~(NextSession(EndDate) <= d)
    BY <1>4, <1>5, <1>6, <2>1
  <2>3. NextSession(d) = NoDate => \A s \in Calendar : s <= d
    BY NextSessionIs
  <2>4. NextSession(d) # NoDate
    BY <1>5, <2>2, <2>3
  <2> QED BY <2>4, NextSessionIs
<1>7. previous <= EndDate
  BY <1>2, <1>4
<1> QED BY <1>1, <1>2, <1>4, <1>6, <1>7

LEMMA RunStarts == RunInit => RunInv
<1> SUFFICES ASSUME RunInit PROVE RunInv
  OBVIOUS
<1>1. ledger = CreateLedger(InitialCash) /\ reply = "ok" /\ asOf = NoDate
  BY DEF RunInit
<1>2. LedgerInv
  BY <1>1, InitReplays DEF Init
<1>3. ledger.snapshots = <<>> /\ ledger.events = <<>> /\ ledger.lots = <<>>
      /\ ledger.receivables = <<>>
  BY <1>1 DEF CreateLedger
<1>4. RunType
  BY CoordinatorAssumption DEF RunInit, RunType
<1>5. Where
  <2>1. /\ SignalDate \in Calendar /\ EndDate \in Calendar /\ SignalDate < EndDate
        /\ SignalDate \in Nat /\ EndDate \in Nat
    BY CoordinatorAssumption, CalendarAssumption
  <2>2. phase = "open" /\ session = SignalDate /\ previous = SignalDate
    BY DEF RunInit
  <2> QED BY <2>1, <2>2 DEF Where, Midway
<1>6. Recorded /\ Identified /\ Owed
  BY <1>3 DEF Recorded, Identified, Owed
<1>7. Entitled /\ Queued
  BY DEF RunInit, Entitled, Queued
<1> QED BY <1>2, <1>4, <1>5, <1>6, <1>7 DEF RunInv

LEMMA FinishKeeps == ASSUME RunInv, Finish PROVE RunInv'
<1>1. /\ phase = "open" /\ phase' = "done"
      /\ ledger' = ledger /\ reply' = reply /\ asOf' = asOf
      /\ UNCHANGED <<failure, previous, session, bars, queue, actions, targets, entitled>>
  BY DEF Finish, ledgerVars
<1>2. LedgerInv'
  BY <1>1 DEF RunInv, LedgerInv, TypeOK
<1>3. RunType' /\ Where'
  BY <1>1 DEF RunInv, RunType, Where, Midway
<1>4. Recorded'
  BY <1>1 DEF RunInv, Recorded
<1>5. Identified'
  BY <1>1 DEF RunInv, Identified, Filled
<1>6. Entitled' /\ Owed' /\ Queued'
  BY <1>1 DEF RunInv, Entitled, Owed, Queued
<1> QED BY <1>2, <1>3, <1>4, <1>5, <1>6 DEF RunInv

LEMMA DividendsDoneKeeps == ASSUME RunInv, DividendsDone PROVE RunInv'
<1>1. /\ phase = "dividends" /\ phase' = "pay" /\ queue = {}
      /\ ledger' = ledger /\ reply' = reply /\ asOf' = asOf
      /\ UNCHANGED <<failure, previous, session, bars, queue, actions, targets, entitled>>
  BY DEF DividendsDone, ledgerVars
<1>2. LedgerInv'
  BY <1>1 DEF RunInv, LedgerInv, TypeOK
<1>3. RunType' /\ Where'
  BY <1>1 DEF RunInv, RunType, Where, Midway
<1>4. Recorded'
  BY <1>1 DEF RunInv, Recorded
<1>5. Identified'
  BY <1>1 DEF RunInv, Identified, Filled
<1>6. Entitled' /\ Owed' /\ Queued'
  BY <1>1 DEF RunInv, Entitled, Owed, Queued
<1> QED BY <1>2, <1>3, <1>4, <1>5, <1>6 DEF RunInv

LEMMA EntriesDoneKeeps == ASSUME RunInv, EntriesDone PROVE RunInv'
<1>1. /\ phase = "entries" /\ phase' = "close"
      /\ ledger' = ledger /\ reply' = reply /\ asOf' = asOf
      /\ UNCHANGED <<failure, previous, session, bars, queue, actions, targets, entitled>>
  BY DEF EntriesDone, ledgerVars
<1>2. LedgerInv'
  BY <1>1 DEF RunInv, LedgerInv, TypeOK
<1>3. RunType' /\ Where'
  BY <1>1 DEF RunInv, RunType, Where, Midway
<1>4. Recorded'
  BY <1>1 DEF RunInv, Recorded
<1>5. Identified'
  BY <1>1 DEF RunInv, Identified, Filled
<1>6. Entitled' /\ Owed' /\ Queued'
  BY <1>1 DEF RunInv, Entitled, Owed, Queued
<1> QED BY <1>2, <1>3, <1>4, <1>5, <1>6 DEF RunInv

LEMMA OpenSessionKeeps == ASSUME RunInv, OpenSession PROVE RunInv'
<1>1. /\ phase = "open" /\ phase' = "dividends"
      /\ session' = NextSession(previous) /\ session' <= EndDate
      /\ queue' = ExToday(session')
      /\ bars' \in SessionBars
      /\ ledger' = ledger /\ reply' = reply /\ asOf' = asOf
      /\ UNCHANGED <<failure, previous, actions, targets, entitled>>
  BY DEF OpenSession, ledgerVars
<1>2. /\ session \in Nat /\ previous \in Nat /\ session = previous /\ previous <= session
      /\ SignalDate <= previous
      /\ session' \in Calendar /\ session' \in Nat /\ session < session'
      /\ \A s \in Calendar : session < s => session' <= s
  <2>1. session = previous
    BY <1>1 DEF RunInv, Where
  <2> QED BY <1>1, <2>1, RunFields, CalendarAssumption
<1>3. LedgerInv'
  BY <1>1 DEF RunInv, LedgerInv, TypeOK
<1>4. RunType'
  <2>1. \A y \in Symbols : bars'[y] = NoBar \/ bars'[y] \in [open : Price, close : Price]
    <3>1. \A y \in Symbols : bars'[y] \in Bars[y] \cup {NoBar}
      BY <1>1 DEF SessionBars
    <3>2. \A y \in Symbols : Bars[y] \subseteq [open : Price, close : Price]
      BY CoordinatorAssumption
    <3> QED BY <3>1, <3>2
  <2>2. failure' # "rule_contract_failure" /\ failure' \in InputFailures \cup {"none"}
    BY <1>1 DEF RunInv, RunType
  <2> QED BY <1>1, <2>1, <2>2 DEF RunInv, RunType, Midway
<1>5. Where'
  <2>1. previous' \in Calendar /\ SignalDate <= previous' /\ previous' <= session'
    BY <1>1, <1>2, RunFields
  <2> QED BY <1>1, <1>2, <2>1 DEF Where
<1>6. Recorded'
  <2>1. \A i \in DOMAIN ledger.events : ledger.events[i].date \in Nat
    BY LedgerFields, RunFields
  <2>2. \A i \in DOMAIN ledger.events : ledger.events[i].date <= session'
    BY <1>2, <2>1 DEF RunInv, Recorded
  <2> QED BY <1>1, <2>2 DEF RunInv, Recorded
<1>7. Identified'
  BY <1>1 DEF RunInv, Identified, Filled
<1>8. Entitled' /\ Queued'
  <2>1. \A d \in DOMAIN entitled : d \in DOMAIN actions /\ actions[d].ex \in Nat
    BY CoordinatorAssumption DEF RunInv, Entitled, RunType
  <2>2. \A d \in DOMAIN entitled : actions[d].ex <= session
    BY DEF RunInv, Entitled
  <2>3. \A d \in DOMAIN entitled : actions[d].ex <= session' /\ actions[d].ex # session'
    BY <1>2, <2>1, <2>2
  <2>4. Entitled'
    BY <1>1, <2>3 DEF RunInv, Entitled
  <2> QED BY <1>1, <2>3, <2>4 DEF Queued, ExToday
<1>9. Owed'
  BY <1>1, <1>2 DEF RunInv, Owed
<1> QED BY <1>3, <1>4, <1>5, <1>6, <1>7, <1>8, <1>9 DEF RunInv

-----------------------------------------------------------------------------
(* Registering a dividend *)

LEMMA AbortKeeps ==
    ASSUME RunInv, phase \in Midway, phase' = "aborted", failure' \in InputFailures,
           failure' = "rule_contract_failure" =>
              \E y \in Symbols : MissingSchedule(y, "buy", session),
           UNCHANGED <<ledgerVars, previous, session, bars, queue, actions, targets, entitled>>
    PROVE  RunInv'
<1>1. /\ ledger' = ledger /\ reply' = reply /\ asOf' = asOf
      /\ UNCHANGED <<previous, session, bars, queue, actions, targets, entitled>>
  BY DEF ledgerVars
<1>2. LedgerInv'
  BY <1>1 DEF RunInv, LedgerInv, TypeOK
<1>3. RunType' /\ Where'
  BY <1>1 DEF RunInv, RunType, Where, Midway
<1>4. Recorded'
  BY <1>1 DEF RunInv, Recorded, Midway
<1>5. Identified'
  BY <1>1 DEF RunInv, Identified, Filled
<1>6. Entitled' /\ Queued'
  BY <1>1 DEF RunInv, Entitled, Queued
<1>7. Owed'
  <2>1. \A d \in DOMAIN ledger.receivables :
           ledger.receivables[d].actual \in Nat /\ session \in Nat
    BY RunFields, LedgerFields DEF Receivable
  <2> QED BY <1>1, <2>1 DEF RunInv, Owed, Midway
<1> QED BY <1>2, <1>3, <1>4, <1>5, <1>6, <1>7 DEF RunInv

\* The shares bought by a date are a number.
LEMMA LotsCount ==
    ASSUME NEW l, LedgerType(l), NEW S, S \subseteq DOMAIN l.lots
    PROVE  SizeOf(l.lots, S) \in Nat
<1> DEFINE f == [i \in S |-> l.lots[i].remaining]
<1>1. /\ DOMAIN l.lots = 1 .. Len(l.lots) /\ Len(l.lots) \in Nat
      /\ \A i \in 1 .. Len(l.lots) : l.lots[i] \in Lot
  BY LedgerFields
<1>2. IsFiniteSet(S)
  <2>1. IsFiniteSet(1 .. Len(l.lots))
    BY <1>1, PrefixFinite
  <2> QED BY <1>1, <2>1, FS_Subset
<1>3. DOMAIN f = S /\ \A i \in S : f[i] \in Nat
  BY <1>1 DEF Lot
<1> HIDE DEF f
<1>4. Counts(f)
  BY <1>2, <1>3 DEF Counts
<1>5. SumFunction(f) \in Nat
  BY <1>4, SumIsNat
<1> QED BY <1>5 DEF SizeOf, f

LEMMA BearingIsNat ==
    ASSUME NEW l, LedgerType(l), NEW y, NEW record
    PROVE  Bearing(l, y, record) \in Nat
<1> DEFINE S == {i \in DOMAIN l.lots : l.lots[i].symbol = y /\ l.lots[i].acquired <= record}
<1>1. SizeOf(l.lots, S) \in Nat
  <2>1. S \subseteq DOMAIN l.lots
    OBVIOUS
  <2> HIDE DEF S
  <2> QED BY <2>1, LotsCount
<1> QED BY <1>1 DEF Bearing

LEMMA CashDateIs ==
    ASSUME NEW p \in Nat, ActualCashDate(p) # NoDate
    PROVE  ActualCashDate(p) \in Calendar /\ p <= ActualCashDate(p)
<1>1. CASE p \in Calendar
  BY <1>1 DEF ActualCashDate
<1>2. CASE p \notin Calendar
  <2>1. ActualCashDate(p) = NextSession(p)
    BY <1>2 DEF ActualCashDate
  <2>2. NextSession(p) \in Calendar /\ p < NextSession(p)
    BY <2>1, NextSessionIs
  <2>3. \A n \in Calendar : p < n => p <= n
    BY CalendarAssumption
  <2> QED BY <2>1, <2>2, <2>3
<1> QED BY <1>1, <1>2

\* The dividend that is registered, and what it brings.
LEMMA DividendFields ==
    ASSUME RunInv, phase = "dividends", NEW d \in queue
    PROVE  /\ d \in DOMAIN actions /\ d \in ReceivableIds /\ d \notin DOMAIN entitled
           /\ d \notin DOMAIN ledger.receivables
           /\ actions[d].symbol \in Symbols /\ actions[d].perUnit \in Nat
           /\ actions[d].ex = session /\ actions[d].payable \in Nat \ {0}
           /\ session <= actions[d].payable
           /\ actions[d].record \in Nat /\ actions[d].record < session
           /\ ActualCashDate(actions[d].payable) # NoDate =>
                 /\ ActualCashDate(actions[d].payable) \in Calendar
                 /\ actions[d].payable <= ActualCashDate(actions[d].payable)
           /\ EntitledSize(actions[d].symbol, actions[d].record)
                 = Bearing(ledger, actions[d].symbol, actions[d].record)
           /\ NotionalFen(actions[d].perUnit,
                 Bearing(ledger, actions[d].symbol, actions[d].record)) \in Nat
<1>1. /\ d \in DOMAIN actions /\ actions[d].ex = session /\ d \notin DOMAIN entitled
      /\ d \notin DOMAIN ledger.receivables
  BY DEF RunInv, Queued, Owed
<1>2. actions \in ActionSets
  BY DEF RunInv, RunType
<1>3. /\ d \in ReceivableIds /\ actions[d].symbol \in Symbols
      /\ actions[d].perUnit \in Nat \ {0} /\ actions[d].payable \in Nat \ {0}
      /\ actions[d].record \in Nat /\ actions[d].record < actions[d].ex
      /\ actions[d].ex <= actions[d].payable
  BY <1>1, <1>2, CoordinatorAssumption
<1>4. ActualCashDate(actions[d].payable) # NoDate =>
         /\ ActualCashDate(actions[d].payable) \in Calendar
         /\ actions[d].payable <= ActualCashDate(actions[d].payable)
  BY <1>3, CashDateIs
<1>5. Bearing(ledger, actions[d].symbol, actions[d].record) \in Nat
  BY RunFields, BearingIsNat
<1>6. NotionalFen(actions[d].perUnit,
         Bearing(ledger, actions[d].symbol, actions[d].record)) \in Nat
  BY <1>3, <1>5, NotionalIsNat
<1> QED BY <1>1, <1>3, <1>4, <1>6 DEF EntitledSize, Bearing

\* A day after every closed one is open.
LEMMA StillOpen ==
    ASSUME RunInv, phase \in Midway
    PROVE  ~Closed(ledger, session) /\ previous < session /\ SignalDate < session
<1>1. session = NextSession(previous)
  BY DEF RunInv, Where
<1>2. previous < session /\ SignalDate < session
  BY <1>1, RunFields
<1>3. \A i \in DOMAIN ledger.snapshots : ledger.snapshots[i].date <= previous
  BY DEF RunInv, Recorded
<1>4. /\ Len(ledger.snapshots) \in Nat /\ DOMAIN ledger.snapshots = 1 .. Len(ledger.snapshots)
      /\ ledger.snapshots = <<>> <=> Len(ledger.snapshots) = 0
      /\ \A i \in 1 .. Len(ledger.snapshots) : ledger.snapshots[i].date \in Nat
  BY RunFields, LedgerFields
<1>5. ASSUME Closed(ledger, session) PROVE FALSE
  <2>1. Len(ledger.snapshots) \in DOMAIN ledger.snapshots
    BY <1>4, <1>5 DEF Closed
  <2>2. session <= ledger.snapshots[Len(ledger.snapshots)].date
    BY <1>5 DEF Closed
  <2> QED BY <1>2, <1>3, <1>4, <2>1, <2>2, RunFields
<1> QED BY <1>2, <1>5

LEMMA RegisterKeeps ==
    ASSUME RunInv, RegisterDividend PROVE RunInv'
<1>1. phase = "dividends"
  BY DEF RegisterDividend
<1> DEFINE Size(d)   == Bearing(ledger, actions[d].symbol, actions[d].record)
           Amount(d) == NotionalFen(actions[d].perUnit, Size(d))
           PaidOn(d) == ActualCashDate(actions[d].payable)
           Owing(d)  == [symbol |-> actions[d].symbol, registered |-> session,
                         payable |-> actions[d].payable, actual |-> PaidOn(d),
                         amount |-> Amount(d), paid |-> NoDate]
<1>2. PICK d \in queue :
         \/ /\ Abort("nonpositive_reference_price") \/ Abort("missing_calendar_coverage")
            /\ UNCHANGED <<ledgerVars, queue, entitled>>
         \/ /\ PaidOn(d) # NoDate
            /\ entitled' = [x \in DOMAIN entitled \cup {d} |->
                              IF x = d THEN Size(d) ELSE entitled[x]]
            /\ queue' = queue \ {d}
            /\ \/ Amount(d) = 0 /\ UNCHANGED <<ledgerVars, phase, failure>>
               \/ Amount(d) > 0 /\ RegisterReceivable(d, Owing(d)) /\ ThenGoTo(phase)
  BY <1>1, DividendFields DEF RegisterDividend
<1>3. UNCHANGED <<previous, session, bars, actions, targets>>
  BY DEF RegisterDividend
<1>4. CASE /\ Abort("nonpositive_reference_price") \/ Abort("missing_calendar_coverage")
           /\ UNCHANGED <<ledgerVars, queue, entitled>>
  BY <1>1, <1>3, <1>4, AbortKeeps DEF Abort, Midway, InputFailures
<1>5. CASE /\ PaidOn(d) # NoDate
           /\ entitled' = [x \in DOMAIN entitled \cup {d} |->
                              IF x = d THEN Size(d) ELSE entitled[x]]
           /\ queue' = queue \ {d}
           /\ \/ Amount(d) = 0 /\ UNCHANGED <<ledgerVars, phase, failure>>
              \/ Amount(d) > 0 /\ RegisterReceivable(d, Owing(d)) /\ ThenGoTo(phase)
  <2>1. /\ d \in DOMAIN actions /\ d \in ReceivableIds /\ d \notin DOMAIN entitled
        /\ d \notin DOMAIN ledger.receivables
        /\ actions[d].symbol \in Symbols /\ actions[d].perUnit \in Nat
        /\ actions[d].ex = session /\ actions[d].payable \in Nat \ {0}
        /\ session <= actions[d].payable
        /\ PaidOn(d) \in Calendar /\ actions[d].payable <= PaidOn(d)
        /\ Amount(d) \in Nat
    BY <1>1, <1>5, DividendFields
  <2>2. ~Closed(ledger, session) /\ SignalDate < session
    BY <1>1, StillOpen DEF Midway
  <2>3. session \in Nat \ {0} /\ PaidOn(d) \in Nat \ {0}
    BY <2>1, RunFields, CalendarAssumption
  <2>4. /\ LedgerInv' /\ phase' = phase /\ failure' = failure
        /\ ledger'.lots = ledger.lots /\ ledger'.events = ledger.events
        /\ ledger'.snapshots = ledger.snapshots
        /\ \/ /\ Amount(d) = 0 /\ ledger'.receivables = ledger.receivables
           \/ /\ DOMAIN ledger'.receivables = DOMAIN ledger.receivables \cup {d}
              /\ ledger'.receivables[d] = Owing(d)
              /\ \A x \in DOMAIN ledger.receivables :
                    x # d => ledger'.receivables[x] = ledger.receivables[x]
    <3>1. CASE Amount(d) = 0 /\ UNCHANGED <<ledgerVars, phase, failure>>
      <4>1. LedgerInv'
        BY <3>1 DEF RunInv, LedgerInv, TypeOK, ledgerVars
      <4> QED BY <3>1, <4>1 DEF ledgerVars
    <3>2. CASE Amount(d) > 0 /\ RegisterReceivable(d, Owing(d)) /\ ThenGoTo(phase)
      <4> DEFINE r == Owing(d)
      <4>1. r \in Receivable
        BY <2>1, <2>3 DEF Receivable, NoDate
      <4>2. ~RegisterRefused(ledger, d, r)
        <5>1. ReceivableOK(r)
          BY <2>1, <3>2 DEF ReceivableOK
        <5> QED BY <2>1, <2>2, <5>1 DEF RegisterRefused
      <4>3. r.paid = NoDate
        OBVIOUS
      <4> HIDE DEF r
      <4>4. RegisterReceivable(d, r)
        BY <3>2 DEF r
      <4>5. LedgerInv /\ LedgerType(ledger)
        BY RunFields
      <4>6. LedgerInv' /\ reply' = "ok" /\ ledger' = Registered(ledger, d, r)
        BY <2>1, <4>1, <4>2, <4>4, <4>5, RegisterAnswered
      <4>7. /\ Registered(ledger, d, r).lots = ledger.lots
            /\ Registered(ledger, d, r).events = ledger.events
            /\ Registered(ledger, d, r).snapshots = ledger.snapshots
            /\ DOMAIN Registered(ledger, d, r).receivables = DOMAIN ledger.receivables \cup {d}
            /\ Registered(ledger, d, r).receivables[d] = r
            /\ \A x \in DOMAIN ledger.receivables :
                  x # d => Registered(ledger, d, r).receivables[x] = ledger.receivables[x]
        BY <2>1, <4>1, <4>5, RegisteredFields
      <4>8. phase' = phase /\ failure' = failure
        BY <3>2, <4>6 DEF ThenGoTo
      <4>9. ledger'.receivables[d] = Owing(d)
        BY <4>6, <4>7 DEF r
      <4> QED BY <4>6, <4>7, <4>8, <4>9
    <3> QED BY <1>5, <3>1, <3>2
  <2>5. RunType' /\ Where'
    BY <1>3, <2>4 DEF RunInv, RunType, Where
  <2>6. Recorded'
    BY <1>3, <2>4 DEF RunInv, Recorded
  <2>7. Identified'
    BY <1>3, <2>4 DEF RunInv, Identified, Filled
  <2>8. DOMAIN entitled' = DOMAIN entitled \cup {d} /\ entitled'[d] = Size(d)
        /\ \A x \in DOMAIN entitled : entitled'[x] = entitled[x]
    BY <1>5, <2>1
  <2>9. Queued'
    BY <1>3, <1>5, <2>4, <2>8 DEF RunInv, Queued
  <2>10. \A x \in DOMAIN entitled' : Bearing(ledger', actions[x].symbol, actions[x].record)
                                       = Bearing(ledger, actions[x].symbol, actions[x].record)
    BY <2>4 DEF Bearing
  <2> HIDE DEF Size, PaidOn
  <2>11. Entitled'
    <3> SUFFICES ASSUME NEW x \in DOMAIN entitled'
                 PROVE  /\ x \in DOMAIN actions
                        /\ actions[x].ex > SignalDate /\ actions[x].ex <= session
                        /\ entitled'[x] = Bearing(ledger', actions[x].symbol, actions[x].record)
                        /\ x \notin DOMAIN ledger'.receivables =>
                              NotionalFen(actions[x].perUnit, entitled'[x]) = 0
      BY <1>3 DEF Entitled
    <3>1. CASE x = d
      <4>1. entitled'[x] = Bearing(ledger', actions[x].symbol, actions[x].record)
        BY <2>8, <2>10, <3>1 DEF Size
      <4>2. actions[x].ex > SignalDate /\ actions[x].ex <= session
        BY <2>1, <2>2, <2>3, <3>1, RunFields
      <4>3. x \notin DOMAIN ledger'.receivables =>
                              NotionalFen(actions[x].perUnit, entitled'[x]) = 0
        BY <2>4, <2>8, <3>1
      <4> QED BY <2>1, <3>1, <4>1, <4>2, <4>3
    <3>2. CASE x # d
      <4>1. x \in DOMAIN entitled /\ entitled'[x] = entitled[x]
        BY <2>8, <3>2
      <4>2. x \notin DOMAIN ledger'.receivables => x \notin DOMAIN ledger.receivables
        BY <2>4
      <4> QED BY <2>10, <4>1, <4>2 DEF RunInv, Entitled
    <3> QED BY <3>1, <3>2
  <2>12. Owed'
    <3> SUFFICES ASSUME NEW x \in DOMAIN ledger'.receivables
                 PROVE  /\ x \in DOMAIN entitled'
                        /\ ledger'.receivables[x].amount
                              = NotionalFen(actions[x].perUnit, entitled'[x])
                        /\ ledger'.receivables[x].paid = NoDate =>
                              /\ ledger'.receivables[x].actual \in Calendar
                              /\ session <= ledger'.receivables[x].actual
      BY <1>1, <1>3, <2>4 DEF Owed
    <3>1. CASE x = d
      <4>1. ledger'.receivables[d] = Owing(d)
        BY <2>1, <2>4, <3>1
      <4>2. /\ Owing(d).amount = NotionalFen(actions[d].perUnit, entitled'[d])
            /\ Owing(d).actual = PaidOn(d)
        BY <2>8
      <4>3. session <= PaidOn(d)
        BY <2>1, <2>3
      <4> QED BY <2>1, <2>8, <3>1, <4>1, <4>2, <4>3
    <3>2. CASE x # d
      <4>1. x \in DOMAIN ledger.receivables /\ ledger'.receivables[x] = ledger.receivables[x]
        BY <2>4, <3>2
      <4>2. x \in DOMAIN entitled
        BY <4>1 DEF RunInv, Owed
      <4> QED BY <1>1, <2>8, <4>1, <4>2 DEF RunInv, Owed
    <3> QED BY <3>1, <3>2
  <2> QED BY <2>4, <2>5, <2>6, <2>7, <2>9, <2>11, <2>12 DEF RunInv
<1> QED BY <1>2, <1>4, <1>5

-----------------------------------------------------------------------------
(* Paying and closing *)

LEMMA StillInOrder ==
    ASSUME RunInv, phase \in Midway
    PROVE  ~OutOfOrder(ledger, session)
<1>1. ~Closed(ledger, session)
  BY StillOpen
<1>2. \A i \in DOMAIN ledger.events : ledger.events[i].date <= session
  BY DEF RunInv, Recorded
<1>3. /\ Len(ledger.events) \in Nat /\ DOMAIN ledger.events = 1 .. Len(ledger.events)
      /\ ledger.events = <<>> <=> Len(ledger.events) = 0
      /\ \A i \in 1 .. Len(ledger.events) : ledger.events[i].date \in Nat
  BY RunFields, LedgerFields
<1>4. ASSUME ledger.events # <<>>, session < ledger.events[Len(ledger.events)].date
      PROVE FALSE
  <2>1. Len(ledger.events) \in DOMAIN ledger.events
    BY <1>3, <1>4
  <2> QED BY <1>2, <1>3, <1>4, <2>1, RunFields
<1> QED BY <1>1, <1>4 DEF OutOfOrder

LEMMA PayKeeps ==
    ASSUME RunInv, PayDue PROVE RunInv'
<1>1. /\ phase = "pay" /\ PayReceivables(session) /\ ThenGoTo("entries")
      /\ UNCHANGED <<previous, session, bars, queue, actions, targets, entitled>>
  BY DEF PayDue
<1>2. ~Closed(ledger, session) /\ ~OutOfOrder(ledger, session)
  BY <1>1, StillOpen, StillInOrder DEF Midway
<1>3. /\ LedgerInv /\ LedgerType(ledger) /\ Verified(ledger)
      /\ session \in Nat \ {0} /\ session \in Nat
  BY RunFields
<1>4. \A d \in DOMAIN ledger.receivables : ledger.receivables[d].paid = NoDate =>
         /\ ledger.receivables[d].actual \in Calendar /\ ledger.receivables[d].actual \in Nat
         /\ session <= ledger.receivables[d].actual
  BY <1>1, CalendarAssumption DEF RunInv, Owed
<1>5. ~PayRefused(ledger, session)
  <2>1. ~OverdueBefore(ledger, session)
    BY <1>3, <1>4 DEF OverdueBefore
  <2>2. ASSUME NEW d \in ReceivableIds, IsDue(ledger, d, session), CashId(d) \in EventIds(ledger)
        PROVE  FALSE
    <3>1. PICK e \in DOMAIN ledger.events : ledger.events[e].id = CashId(d)
      BY <2>2 DEF EventIds
    <3>2. ledger.events[e].kind \in {"fill", "dividend"}
      BY <1>3 DEF LedgerType
    <3>3. ledger.events[e].kind # "fill"
      <4>1. ASSUME NEW y, NEW n PROVE CashId(d) # <<"fill", y, n>>
        <5>1. CashId(d)[1] = "cash" /\ <<"fill", y, n>>[1] = "fill"
          BY DEF CashId
        <5> QED BY <5>1
      <4> QED BY <3>1, <4>1 DEF RunInv, Identified
    <3>4. ledger.events[e].id = CashId(ledger.events[e].ref)
      BY <3>3 DEF RunInv, Identified
    <3>5. ledger.events[e].ref = d
      <4>1. CashId(d)[2] = d /\ CashId(ledger.events[e].ref)[2] = ledger.events[e].ref
        BY DEF CashId
      <4> QED BY <3>1, <3>4, <4>1
    <3>6. ledger.receivables[d].paid # NoDate
      BY <1>3, <3>2, <3>3, <3>5 DEF Verified, PaymentsMatchReceivables
    <3> QED BY <2>2, <3>6 DEF IsDue
  <2> QED BY <1>2, <2>1, <2>2 DEF PayRefused
<1>6. LedgerInv' /\ reply' = "ok" /\ ledger' = Paid(ledger, session)
  BY <1>1, <1>2, <1>3, <1>5, PayAnswered
<1>7. phase' = "entries" /\ failure' = failure
  BY <1>1, <1>6 DEF ThenGoTo
<1>8. OnlyPays(ledger, ledger')
  <2>1. OnlyPays(ledger, Paid(ledger, session))
    BY <1>3, PaidReady
  <2> QED BY <1>6, <2>1
<1>9. /\ PaysOn(ledger, ledger', session)
      /\ \A d : ~IsDue(ledger', d, session)
  <2>1. /\ PaysOn(ledger, Paid(ledger, session), session)
        /\ \A d : ~IsDue(Paid(ledger, session), d, session)
    BY <1>3, PaysAll
  <2> QED BY <1>6, <2>1
<1>10. ledger'.lots = ledger.lots /\ ledger'.snapshots = ledger.snapshots
       /\ DOMAIN ledger'.receivables = DOMAIN ledger.receivables
  BY <1>8, <1>9 DEF OnlyPays, PaysOn
<1>11. RunType' /\ Where'
  BY <1>1, <1>7 DEF RunInv, RunType, Where, Midway
<1>12. Recorded'
  <2>1. \A i \in DOMAIN ledger'.events : ledger'.events[i].date <= session
    BY <1>3, <1>9 DEF PaysOn, RunInv, Recorded
  <2> QED BY <1>1, <1>7, <1>10, <2>1 DEF RunInv, Recorded
<1>13. Identified'
  <2>1. \A e \in DOMAIN ledger'.events :
          IF ledger'.events[e].kind = "fill"
          THEN \E i \in DOMAIN targets : Filled(i) /\
                  ledger'.events[e].id = <<"fill", SymbolOrder[i], targets[i].used>>
          ELSE ledger'.events[e].id = CashId(ledger'.events[e].ref)
    BY <1>9 DEF PaysOn, RunInv, Identified
  <2> QED BY <1>1, <1>10, <2>1 DEF RunInv, Identified, Filled
<1>14. Entitled'
  <2>1. \A x \in DOMAIN entitled : Bearing(ledger', actions[x].symbol, actions[x].record)
                                       = Bearing(ledger, actions[x].symbol, actions[x].record)
    BY <1>10 DEF Bearing
  <2> QED BY <1>1, <1>10, <2>1 DEF RunInv, Entitled
<1>15. Queued'
  BY <1>1, <1>7 DEF RunInv, Queued
<1>16. Owed'
  <2> SUFFICES ASSUME NEW x \in DOMAIN ledger'.receivables
               PROVE  /\ x \in DOMAIN entitled
                      /\ ledger'.receivables[x].amount
                              = NotionalFen(actions[x].perUnit, entitled[x])
                      /\ ledger'.receivables[x].paid = NoDate =>
                              /\ ledger'.receivables[x].actual \in Calendar
                              /\ session < ledger'.receivables[x].actual
    BY <1>1, <1>7 DEF Owed
  <2>1. x \in DOMAIN ledger.receivables
    BY <1>10
  <2>2. x \in DOMAIN entitled
        /\ ledger.receivables[x].amount = NotionalFen(actions[x].perUnit, entitled[x])
    BY <2>1 DEF RunInv, Owed
  <2>3. ledger.receivables[x] \in Receivable
    BY <1>3, <2>1, LedgerFields
  <2>4. \/ ledger'.receivables[x] = ledger.receivables[x]
        \/ ledger'.receivables[x] = [ledger.receivables[x] EXCEPT !.paid = session]
    BY <1>9, <2>1 DEF PaysOn
  <2>5. CASE ledger'.receivables[x] = ledger.receivables[x]
    <3>1. ~IsDue(ledger', x, session)
      BY <1>9
    <3>2. ledger.receivables[x].paid = NoDate => ledger.receivables[x].actual # session
      BY <1>10, <2>1, <2>5, <3>1 DEF IsDue
    <3> QED BY <1>3, <1>4, <2>1, <2>2, <2>5, <3>2
  <2>6. CASE ledger'.receivables[x] = [ledger.receivables[x] EXCEPT !.paid = session]
    <3>1. ledger'.receivables[x].paid = session
          /\ ledger'.receivables[x].amount = ledger.receivables[x].amount
      BY <2>3, <2>6 DEF Receivable
    <3> QED BY <1>3, <2>2, <3>1 DEF NoDate
  <2> QED BY <2>4, <2>5, <2>6
<1> QED BY <1>6, <1>11, <1>12, <1>13, <1>14, <1>15, <1>16 DEF RunInv

LEMMA CloseKeeps ==
    ASSUME RunInv, CloseDay PROVE RunInv'
<1>1. /\ phase = "close" /\ CloseSession(session, Valuations) /\ ThenGoTo("open")
      /\ previous' = session
      /\ UNCHANGED <<session, bars, queue, actions, targets, entitled>>
  BY DEF CloseDay
<1>2. ~Closed(ledger, session) /\ ~OutOfOrder(ledger, session)
  BY <1>1, StillOpen, StillInOrder DEF Midway
<1>3. /\ LedgerInv /\ LedgerType(ledger) /\ Verified(ledger)
      /\ session \in Nat /\ previous \in Nat /\ previous <= session
  BY RunFields
<1>4. /\ DOMAIN ledger.lots = 1 .. Len(ledger.lots)
      /\ \A k \in DOMAIN ledger.lots : ledger.lots[k].acquired \in Nat
      /\ Len(ledger.snapshots) \in Nat
      /\ DOMAIN ledger.snapshots = 1 .. Len(ledger.snapshots)
      /\ \A i \in DOMAIN ledger.snapshots : ledger.snapshots[i].date \in Nat
      /\ \A i \in DOMAIN ledger.events : ledger.events[i].date \in Nat
      /\ Len(ledger.events) \in Nat /\ DOMAIN ledger.events = 1 .. Len(ledger.events)
  BY <1>3, LedgerFields DEF Lot
<1>5. \A k \in DOMAIN ledger.lots : ledger.lots[k].acquired <= session
  <2>1. \A i \in DOMAIN ledger.snapshots : ledger.snapshots[i].date <= session
    BY <1>3, <1>4 DEF RunInv, Recorded
  <2> QED BY <1>3, <2>1 DEF RunInv, Recorded
<1>6. ~CloseRefused(ledger, session, Valuations)
  <2>1. ~(ledger.events # <<>> /\ ledger.events[Len(ledger.events)].date > session)
    BY <1>2 DEF OutOfOrder
  <2>2. ~OverdueBy(ledger, session)
    <3>1. \A d \in DOMAIN ledger.receivables : ledger.receivables[d].paid = NoDate =>
             /\ ledger.receivables[d].actual \in Nat
             /\ session < ledger.receivables[d].actual
      BY <1>1, CalendarAssumption DEF RunInv, Owed
    <3> QED BY <1>3, <3>1 DEF OverdueBy
  <2>3. Sizes(Valuations) = PositionSizes(ledger, session)
    <3>1. \A y : HeldLots(ledger, y, session)
                    = {i \in DOMAIN ledger.lots : ledger.lots[i].symbol = y}
      BY <1>5 DEF HeldLots
    <3> QED BY <3>1 DEF Sizes, Valuations, PositionSizes
  <2> QED BY <1>2, <2>1, <2>2, <2>3 DEF CloseRefused
<1> DEFINE v == Valuations
<1>7. LedgerInv' /\ reply' = "ok" /\ ledger' = ClosedWith(ledger, session, v)
  <2>1. CloseSession(session, v) /\ ~CloseRefused(ledger, session, v)
    BY <1>1, <1>6
  <2> HIDE DEF v
  <2> QED BY <1>3, <2>1, CloseAnswered
<1> HIDE DEF v
<1>8. /\ ledger'.lots = ledger.lots
      /\ ledger'.events = ledger.events /\ ledger'.receivables = ledger.receivables
      /\ DOMAIN ledger'.snapshots = 1 .. Len(ledger.snapshots) + 1
      /\ ledger'.snapshots[Len(ledger.snapshots) + 1] = Snapshot(ledger, session, v)
      /\ \A i \in 1 .. Len(ledger.snapshots) : ledger'.snapshots[i] = ledger.snapshots[i]
  <2> DEFINE u == ClosedWith(ledger, session, v)
  <2>1. /\ u.lots = ledger.lots
        /\ u.events = ledger.events /\ u.receivables = ledger.receivables
        /\ DOMAIN u.snapshots = 1 .. Len(ledger.snapshots) + 1
        /\ u.snapshots[Len(ledger.snapshots) + 1] = Snapshot(ledger, session, v)
        /\ \A i \in 1 .. Len(ledger.snapshots) : u.snapshots[i] = ledger.snapshots[i]
    BY <1>3, ClosedFields
  <2>2. ledger' = u
    BY <1>7
  <2> HIDE DEF u
  <2> QED BY <2>1, <2>2
<1>9. phase' = "open" /\ failure' = failure
  BY <1>1, <1>7 DEF ThenGoTo
<1>10. RunType'
  BY <1>1, <1>9 DEF RunInv, RunType
<1>11. Where'
  BY <1>1, <1>3, <1>9, RunFields DEF RunInv, Where, Midway
<1>12. Recorded'
  <2> DEFINE n == Len(ledger.snapshots)
  <2>1. /\ n \in Nat /\ n + 1 \in 1 .. n + 1
        /\ \A i \in 1 .. n + 1 : i \in 1 .. n \/ i = n + 1
        /\ \A i \in 1 .. n : i \in 1 .. n + 1
    BY <1>4
  <2>2. ledger'.snapshots[n + 1].date = session
    BY <1>8 DEF Snapshot
  <2>3. \A i \in 1 .. n : ledger'.snapshots[i].date <= session
    BY <1>3, <1>4, <1>8 DEF RunInv, Recorded
  <2>4. DOMAIN ledger'.snapshots = 1 .. n + 1 /\ DOMAIN ledger.snapshots = 1 .. n
        /\ \A i \in 1 .. n : ledger'.snapshots[i] = ledger.snapshots[i]
    BY <1>4, <1>8
  <2> HIDE DEF n
  <2>5. \A i \in DOMAIN ledger'.snapshots : ledger'.snapshots[i].date <= session
    BY <1>3, <2>1, <2>2, <2>3, <2>4
  <2>6. \A k \in DOMAIN ledger.lots :
           \E i \in DOMAIN ledger'.snapshots :
              ledger'.snapshots[i].date = ledger.lots[k].acquired
    <3> SUFFICES ASSUME NEW k \in DOMAIN ledger.lots
                 PROVE  \E i \in DOMAIN ledger'.snapshots :
                           ledger'.snapshots[i].date = ledger.lots[k].acquired
      OBVIOUS
    <3>1. CASE ledger.lots[k].acquired = session
      BY <2>1, <2>2, <2>4, <3>1
    <3>2. CASE \E i \in DOMAIN ledger.snapshots :
                  ledger.snapshots[i].date = ledger.lots[k].acquired
      BY <2>1, <2>4, <3>2
    <3> QED BY <3>1, <3>2 DEF RunInv, Recorded
  <2>7. \A i \in DOMAIN ledger'.events : ledger'.events[i].date <= session
    BY <1>8 DEF RunInv, Recorded
  <2> QED BY <1>1, <1>8, <2>5, <2>6, <2>7 DEF Recorded
<1>13. Identified'
  BY <1>1, <1>8 DEF RunInv, Identified, Filled
<1>14. Entitled'
  <2>1. \A x \in DOMAIN entitled : Bearing(ledger', actions[x].symbol, actions[x].record)
                                       = Bearing(ledger, actions[x].symbol, actions[x].record)
    BY <1>8 DEF Bearing
  <2> QED BY <1>1, <1>8, <2>1 DEF RunInv, Entitled
<1>15. Owed' /\ Queued'
  BY <1>1, <1>8, <1>9 DEF RunInv, Owed, Queued
<1> QED BY <1>7, <1>10, <1>11, <1>12, <1>13, <1>14, <1>15 DEF RunInv

-----------------------------------------------------------------------------
(* Entries *)

LEMMA RejectKeeps ==
    ASSUME RunInv, NEW i \in DOMAIN targets, targets[i].status = "pending",
           targets' = [targets EXCEPT ![i] = RecordRejection(@)],
           UNCHANGED <<ledgerVars, phase, failure, previous, session, bars, queue,
                       actions, entitled>>
    PROVE  RunInv'
<1>1. /\ ledger' = ledger /\ reply' = reply /\ asOf' = asOf
      /\ UNCHANGED <<phase, failure, previous, session, bars, queue, actions, entitled>>
  BY DEF ledgerVars
<1>2. /\ DOMAIN targets' = DOMAIN targets
      /\ targets'[i].used = targets[i].used + 1
      /\ \A j \in DOMAIN targets : j # i => targets'[j] = targets[j]
  BY DEF RecordRejection
<1>3. LedgerInv'
  BY <1>1 DEF RunInv, LedgerInv, TypeOK
<1>4. RunType' /\ Where'
  <2>1. \A j \in DOMAIN targets' : targets'[j].used \in Nat
    <3>1. targets[i].used + 1 \in Nat
      BY DEF RunInv, RunType
    <3> QED BY <1>2, <3>1 DEF RunInv, RunType
  <2> QED BY <1>1, <1>2, <2>1 DEF RunInv, RunType, Where
<1>5. Recorded'
  BY <1>1 DEF RunInv, Recorded
<1>6. Identified'
  <2>1. \A j \in DOMAIN targets : targets[j].status = "filled" =>
           targets'[j].status = "filled" /\ targets'[j].used = targets[j].used
    BY <1>2
  <2>2. \A e \in DOMAIN ledger.events :
          IF ledger.events[e].kind = "fill"
          THEN \E j \in DOMAIN targets' : targets'[j].status = "filled" /\
                  ledger.events[e].id = <<"fill", SymbolOrder[j], targets'[j].used>>
          ELSE ledger.events[e].id = CashId(ledger.events[e].ref)
    BY <1>2, <2>1 DEF RunInv, Identified, Filled
  <2>3. \A k \in DOMAIN ledger.lots :
          \E j \in DOMAIN targets' : targets'[j].status = "filled" /\
             ledger.lots[k].id = <<"lot", SymbolOrder[j], targets'[j].used>>
    BY <1>2, <2>1 DEF RunInv, Identified, Filled
  <2> QED BY <1>1, <2>2, <2>3 DEF Identified, Filled
<1>7. Entitled' /\ Owed' /\ Queued'
  BY <1>1 DEF RunInv, Entitled, Owed, Queued
<1> QED BY <1>3, <1>4, <1>5, <1>6, <1>7 DEF RunInv

\* Where the size loop stops: every larger size was too dear.
LEMMA CandidateIs ==
    ASSUME NEW i, NEW n \in Nat
    PROVE  \/ /\ Candidate(i, LotSize * n) = 0
              /\ \A k \in 1 .. n : EvaluateOrder(Order(i, k * LotSize)) = "insufficient_cash"
           \/ \E k \in 1 .. n :
              /\ Candidate(i, LotSize * n) = k * LotSize
              /\ \A j \in k + 1 .. n :
                    EvaluateOrder(Order(i, j * LotSize)) = "insufficient_cash"
<1> DEFINE Dear(k) == EvaluateOrder(Order(i, k * LotSize)) = "insufficient_cash"
           sizes == {k * LotSize : k \in 1 .. n}
           open == {size \in sizes : EvaluateOrder(Order(i, size)) # "insufficient_cash"}
           T == {n - k : k \in {j \in 1 .. n : ~Dear(j)}}
<1>1. (LotSize * n) \div LotSize = n
  BY DEF LotSize
<1>2. Candidate(i, LotSize * n) = IF open = {} THEN 0 ELSE Max(open)
  BY <1>1 DEF Candidate
<1>3. \A k \in 1 .. n : k * LotSize \in open <=> ~Dear(k)
  OBVIOUS
<1>4. \A s \in open : \E k \in 1 .. n : s = k * LotSize /\ ~Dear(k)
  OBVIOUS
<1>5. CASE open = {}
  <2>1. \A k \in 1 .. n : Dear(k)
    BY <1>3, <1>5
  <2> QED BY <1>2, <1>5, <2>1
<1>6. CASE open # {}
  <2> HIDE DEF Dear, open
  <2>1. PICK k0 \in 1 .. n : ~Dear(k0)
    BY <1>4, <1>6
  <2>2. T \subseteq Nat /\ T # {}
    BY <2>1
  <2>3. PICK m \in T : \A t \in T : m <= t
    <3> HIDE DEF T
    <3> QED BY <2>2, NatMin
  <2>4. PICK k \in 1 .. n : ~Dear(k) /\ m = n - k
    BY <2>3
  <2>5. \A j \in 1 .. n : ~Dear(j) => j <= k
    <3>1. \A j \in 1 .. n : ~Dear(j) => n - j \in T
      OBVIOUS
    <3> HIDE DEF T
    <3> QED BY <2>3, <2>4, <3>1
  <2>6. k * LotSize \in open
    BY <1>3, <2>4
  <2>7. \A s \in open : k * LotSize >= s
    <3> SUFFICES ASSUME NEW s \in open PROVE k * LotSize >= s
      OBVIOUS
    <3>1. PICK j \in 1 .. n : s = j * LotSize /\ ~Dear(j)
      BY <1>4
    <3>2. j <= k
      BY <2>5, <3>1
    <3> QED BY <3>1, <3>2 DEF LotSize
  <2>8. Max(open) = k * LotSize
    <3>1. \A x \in open : (\A s \in open : x >= s) => x = k * LotSize
      <4> SUFFICES ASSUME NEW x \in open, \A s \in open : x >= s PROVE x = k * LotSize
        OBVIOUS
      <4>1. PICK j \in 1 .. n : x = j * LotSize
        BY <1>4
      <4>2. x >= k * LotSize /\ k * LotSize >= x
        BY <2>6, <2>7
      <4>3. x \in Int /\ k * LotSize \in Int
        BY <4>1 DEF LotSize
      <4> QED BY <4>2, <4>3
    <3> QED BY <2>6, <2>7, <3>1 DEF Max
  <2>9. \A j \in k + 1 .. n : Dear(j)
    <3>1. \A j \in k + 1 .. n : j \in 1 .. n /\ ~(j <= k)
      OBVIOUS
    <3> QED BY <2>5, <3>1
  <2>10. Candidate(i, LotSize * n) = k * LotSize
    BY <1>2, <1>6, <2>8
  <2> QED BY <2>9, <2>10 DEF Dear
<1> QED BY <1>5, <1>6

LEMMA InitialCandidateIs ==
    ASSUME NEW price \in Nat \ {0}
    PROVE  \E n \in Nat : InitialCandidate(price) = LotSize * n
<1>1. Len(SymbolOrder) \in Nat \ {0}
  BY CoordinatorAssumption, EmptySeq, LenProperties
<1>2. GrossTarget \in Nat
  <2>1. InitialCash \in Nat /\ GrossPercent \in Nat
    BY InitialCashAssumption, CoordinatorAssumption
  <2>2. InitialCash * GrossPercent \in Nat
    BY <2>1
  <2> QED BY <2>2 DEF GrossTarget
<1>3. TargetFen \in Nat
  BY <1>1, <1>2 DEF TargetFen
<1>4. TargetFen * 10 \in Nat
  BY <1>3
<1>5. (TargetFen * 10) \div price \in Nat
  BY <1>4
<1>6. ((TargetFen * 10) \div price) \div LotSize \in Nat
  BY <1>5 DEF LotSize
<1> QED BY <1>6 DEF InitialCandidate

\* A bought lot counts for no record date before it.
LEMMA BearingStands ==
    ASSUME NEW l, NEW u, LedgerType(l), NEW record, NEW y,
           DOMAIN l.lots \subseteq DOMAIN u.lots,
           \A k \in DOMAIN l.lots : u.lots[k] = l.lots[k],
           \A k \in DOMAIN u.lots \ DOMAIN l.lots : ~(u.lots[k].acquired <= record)
    PROVE  Bearing(u, y, record) = Bearing(l, y, record)
<1> DEFINE S == {i \in DOMAIN l.lots : l.lots[i].symbol = y /\ l.lots[i].acquired <= record}
<1>1. S = {i \in DOMAIN u.lots : u.lots[i].symbol = y /\ u.lots[i].acquired <= record}
  OBVIOUS
<1>2. \A i \in S : u.lots[i] = l.lots[i]
  OBVIOUS
<1>3. SizeOf(u.lots, S) = SizeOf(l.lots, S)
  <2> HIDE DEF S
  <2> QED BY <1>2, SameSize
<1> QED BY <1>1, <1>3 DEF Bearing

\* The posting of a fill.
FillPosting(i, size) ==
    LET y == SymbolOrder[i]
        n == targets[i].used + 1
    IN  [event |-> <<"fill", y, n>>,
         fees  |-> TotalFees(y, "buy", session, bars[y].open, size),
         lot   |-> [id |-> <<"lot", y, n>>, symbol |-> y,
                    acquired |-> session, available |-> NextSession(session),
                    remaining |-> size, cost |-> bars[y].open]]

\* What an order that may be filled says of its posting.
LEMMA FillFields ==
    ASSUME RunInv, phase = "entries", NEW i \in DOMAIN targets,
           bars[SymbolOrder[i]] # NoBar, NEW initial, NEW size,
           initial = InitialCandidate(bars[SymbolOrder[i]].open), initial > 0,
           size = Candidate(i, initial),
           EvaluateOrder(Order(i, IF size = 0 THEN LotSize ELSE size)) = "allowed"
    PROVE  /\ SymbolOrder[i] \in Symbols
           /\ bars[SymbolOrder[i]].open \in Nat \ {0}
           /\ size \in Nat /\ size > 0 /\ size % LotSize = 0
           /\ TotalFees(SymbolOrder[i], "buy", session, bars[SymbolOrder[i]].open, size) \in Nat
           /\ CashRequired(i, size) \in Nat /\ ledger.cash >= CashRequired(i, size)
           /\ EvidenceHolds(i, initial, size)
<1> DEFINE y == SymbolOrder[i]
           price == bars[y].open
           o(s) == Order(i, s)
<1>1. y \in Symbols
  <2>1. i \in DOMAIN SymbolOrder /\ SymbolOrder \in Seq(Symbols)
    BY CoordinatorAssumption DEF RunInv, RunType
  <2> QED BY <2>1, ElementOfSeq, LenProperties
<1>2. price \in Nat \ {0}
  BY <1>1 DEF RunInv, RunType, Price
<1>3. /\ session \in Nat /\ NextSession(previous) = session
      /\ ledger.cash \in Nat /\ LedgerType(ledger)
  BY RunFields, LedgerFields DEF RunInv, Where, Midway
<1>4. \A s : /\ o(s).symbol = y /\ o(s).side = "buy" /\ o(s).signal = previous
             /\ o(s).size = s /\ o(s).open = price /\ o(s).cash = ledger.cash
  BY DEF Order
<1>5. PICK n \in Nat : initial = LotSize * n
  <2> HIDE DEF y
  <2>1. initial = InitialCandidate(price)
    BY DEF y
  <2> HIDE DEF price
  <2> QED BY <1>2, <2>1, InitialCandidateIs
<1>6. n \in 1 .. n
  BY <1>5 DEF LotSize
<1> HIDE DEF o, price, y
<1>7. size # 0
  <2> SUFFICES ASSUME size = 0 PROVE FALSE
    OBVIOUS
  <2>1. EvaluateOrder(Order(i, LotSize)) = "allowed"
    OBVIOUS
  <2>2. \A k \in 1 .. n : k * LotSize # 0
    BY DEF LotSize
  <2>3. Candidate(i, LotSize * n) = 0
    BY <1>5
  <2>4. \A k \in 1 .. n : EvaluateOrder(Order(i, k * LotSize)) = "insufficient_cash"
    BY <2>2, <2>3, CandidateIs
  <2>5. 1 \in 1 .. n /\ 1 * LotSize = LotSize
    BY <1>6 DEF LotSize
  <2> QED BY <2>1, <2>4, <2>5
<1>8. PICK k \in 1 .. n : /\ size = k * LotSize
                          /\ \A j \in k + 1 .. n :
                                EvaluateOrder(Order(i, j * LotSize)) = "insufficient_cash"
  <2>1. Candidate(i, LotSize * n) # 0
    BY <1>5, <1>7
  <2>2. \E k \in 1 .. n :
              /\ Candidate(i, LotSize * n) = k * LotSize
              /\ \A j \in k + 1 .. n :
                    EvaluateOrder(Order(i, j * LotSize)) = "insufficient_cash"
    BY <2>1, CandidateIs
  <2> QED BY <1>5, <2>2
<1>9. size \in Nat /\ size > 0 /\ initial \in Nat
  BY <1>5, <1>8 DEF LotSize
<1>10. o(size).side = "buy" /\ EvaluateOrder(o(size)) = "allowed"
  BY <1>4, <1>7 DEF o
<1>11. /\ o(size).size % LotSize = 0
       /\ ~MissingSchedule(o(size).symbol, "buy", NextSession(o(size).signal))
       /\ ~(o(size).cash < NotionalFen(o(size).open, o(size).size)
              + TotalFees(o(size).symbol, "buy", NextSession(o(size).signal),
                          o(size).open, o(size).size))
  BY <1>10, AllowedBuy
<1>12. /\ size % LotSize = 0
       /\ ~MissingSchedule(y, "buy", session)
       /\ ~(ledger.cash < NotionalFen(price, size) + TotalFees(y, "buy", session, price, size))
  BY <1>3, <1>4, <1>11
<1>13. \A s \in Nat : /\ TotalFees(y, "buy", session, price, s) \in Nat
                      /\ NotionalFen(price, s) \in Nat
  BY <1>1, <1>2, <1>3, <1>12, BuyFees, NotionalIsNat
<1>14. \A s \in Nat : CashRequired(i, s) \in Nat
  BY <1>13 DEF CashRequired, price, y
<1>15. ledger.cash >= CashRequired(i, size)
  <2>1. CashRequired(i, size) = NotionalFen(price, size) + TotalFees(y, "buy", session, price, size)
    BY DEF CashRequired, price, y
  <2> QED BY <1>3, <1>9, <1>12, <1>14, <2>1
<1>16. EvidenceHolds(i, initial, size)
  <2>1. ASSUME size < initial PROVE ledger.cash < CashRequired(i, initial)
    <3>1. n \in k + 1 .. n
      BY <1>5, <1>8, <2>1 DEF LotSize
    <3>2. n * LotSize = initial
      BY <1>5 DEF LotSize
    <3>3. EvaluateOrder(o(initial)) = "insufficient_cash"
      BY <1>8, <3>1, <3>2 DEF o
    <3>4. o(initial).side = "buy"
      BY <1>4
    <3>5. o(initial).cash < NotionalFen(o(initial).open, o(initial).size)
              + TotalFees(o(initial).symbol, "buy", NextSession(o(initial).signal),
                          o(initial).open, o(initial).size)
      BY <3>3, <3>4, DearBuy
    <3>6. ledger.cash < NotionalFen(price, initial) + TotalFees(y, "buy", session, price, initial)
      BY <1>3, <1>4, <3>5
    <3> QED BY <3>6 DEF CashRequired, price, y
  <2>2. CashRequired(i, size) \in Nat /\ CashRequired(i, initial) \in Nat
    BY <1>9, <1>14
  <2>3. size < initial => CashRequired(i, initial) > CashRequired(i, size)
    BY <1>3, <1>15, <2>1, <2>2
  <2> QED BY <1>15, <2>1, <2>3 DEF EvidenceHolds
<1> QED BY <1>1, <1>2, <1>9, <1>12, <1>13, <1>14, <1>15, <1>16 DEF price, y

\* The ledger takes it.
LEMMA FillTaken ==
    ASSUME RunInv, phase = "entries", NEW i \in DOMAIN targets, targets[i].status = "pending",
           NEW size \in Nat, size > 0, size % LotSize = 0,
           SymbolOrder[i] \in Symbols, bars[SymbolOrder[i]].open \in Nat \ {0},
           TotalFees(SymbolOrder[i], "buy", session, bars[SymbolOrder[i]].open, size) \in Nat,
           CashRequired(i, size) \in Nat, ledger.cash >= CashRequired(i, size)
    PROVE  /\ FillPosting(i, size).lot \in Lot /\ FillPosting(i, size).fees \in Nat
           /\ ~BuyRefused(ledger, FillPosting(i, size))
           /\ ~OutOfOrder(ledger, FillPosting(i, size).lot.acquired)
<1> DEFINE y == SymbolOrder[i]
           n == targets[i].used + 1
           p == FillPosting(i, size)
<1>1. /\ p.event = <<"fill", y, n>> /\ p.lot.id = <<"lot", y, n>>
      /\ p.fees = TotalFees(y, "buy", session, bars[y].open, size)
      /\ p.lot = [id |-> <<"lot", y, n>>, symbol |-> y,
                  acquired |-> session, available |-> NextSession(session),
                  remaining |-> size, cost |-> bars[y].open]
  BY DEF FillPosting
<1>2. n \in Nat
  BY DEF RunInv, RunType
<1>3. /\ session \in Nat /\ NextSession(session) \in Nat /\ session < NextSession(session)
      /\ ledger.cash \in Nat /\ LedgerType(ledger)
  BY RunFields, LedgerFields, CalendarAssumption
<1> HIDE DEF p, n
<1>4. p.lot \in Lot
  <2>1. <<"lot", y, n>> \in LotNames
    BY <1>2 DEF LotNames
  <2> QED BY <1>1, <1>3, <2>1 DEF Lot
<1>5. p.fees \in Nat
  BY <1>1
<1>6. LotOK(p.lot)
  BY <1>1, <1>3 DEF LotOK
<1>7. \A j \in DOMAIN targets : Filled(j) => SymbolOrder[j] # y
  <2>1. DOMAIN targets = DOMAIN SymbolOrder
    BY DEF RunInv, RunType
  <2> QED BY <2>1, CoordinatorAssumption DEF Filled
<1>8. p.event \notin EventIds(ledger)
  <2> SUFFICES ASSUME NEW e \in DOMAIN ledger.events, ledger.events[e].id = p.event PROVE FALSE
    BY DEF EventIds
  <2>1. p.event[1] = "fill" /\ p.event[2] = y
    BY <1>1
  <2>2. CASE ledger.events[e].kind = "fill"
    <3>1. PICK j \in DOMAIN targets : Filled(j) /\
             ledger.events[e].id = <<"fill", SymbolOrder[j], targets[j].used>>
      BY <2>2 DEF RunInv, Identified
    <3> QED BY <1>7, <2>1, <3>1
  <2>3. CASE ledger.events[e].kind # "fill"
    <3>1. ledger.events[e].id = CashId(ledger.events[e].ref)
      BY <2>3 DEF RunInv, Identified
    <3>2. CashId(ledger.events[e].ref)[1] = "cash"
      BY DEF CashId
    <3> QED BY <2>1, <3>1, <3>2
  <2> QED BY <2>2, <2>3
<1>9. p.lot.id \notin LotIds(ledger)
  <2> SUFFICES ASSUME NEW k \in DOMAIN ledger.lots, ledger.lots[k].id = p.lot.id PROVE FALSE
    BY DEF LotIds
  <2>1. p.lot.id[2] = y
    BY <1>1
  <2>2. PICK j \in DOMAIN targets : Filled(j) /\
             ledger.lots[k].id = <<"lot", SymbolOrder[j], targets[j].used>>
    BY DEF RunInv, Identified
  <2> QED BY <1>7, <2>1, <2>2
<1>10. ~(BuyEvent(ledger, p).after < 0)
  <2>1. BuyEvent(ledger, p).after
           = ledger.cash - NotionalFen(bars[y].open, size)
             - TotalFees(y, "buy", session, bars[y].open, size)
    BY <1>1 DEF BuyEvent, CashAfterFill, LotCost
  <2>2. CashRequired(i, size)
           = NotionalFen(bars[y].open, size) + TotalFees(y, "buy", session, bars[y].open, size)
    BY DEF CashRequired
  <2>3. NotionalFen(bars[y].open, size) \in Nat
    BY NotionalIsNat
  <2> QED BY <1>3, <2>1, <2>2, <2>3
<1>11. ~OutOfOrder(ledger, p.lot.acquired)
  BY <1>1, StillInOrder DEF Midway
<1> QED BY <1>4, <1>5, <1>6, <1>8, <1>9, <1>10, <1>11 DEF BuyRefused, p

\* The run after a fill.
LEMMA FillKeeps ==
    ASSUME RunInv, phase = "entries", phase' = "entries",
           NEW i \in DOMAIN targets, targets[i].status = "pending",
           NEW size, FillPosting(i, size).lot \in Lot, FillPosting(i, size).fees \in Nat,
           ~BuyRefused(ledger, FillPosting(i, size)),
           LedgerInv', ledger' = Bought(ledger, FillPosting(i, size)),
           targets' = [targets EXCEPT ![i] = [used |-> targets[i].used + 1,
                                              status |-> "filled"]],
           UNCHANGED <<failure, previous, session, bars, queue, actions, entitled>>
    PROVE  RunInv'
<1> DEFINE y == SymbolOrder[i]
           n == targets[i].used + 1
           p == FillPosting(i, size)
           h == Len(ledger.events)
           m == Len(ledger.lots)
<1>1. /\ p.event = <<"fill", y, n>> /\ p.lot.id = <<"lot", y, n>> /\ p.lot.acquired = session
  BY DEF FillPosting
<1>2. n \in Nat
  BY DEF RunInv, RunType
<1>3. /\ LedgerType(ledger) /\ session \in Nat
      /\ h \in Nat /\ DOMAIN ledger.events = 1 .. h
      /\ m \in Nat /\ DOMAIN ledger.lots = 1 .. m
  BY RunFields, LedgerFields
<1>4. /\ DOMAIN targets' = DOMAIN targets
      /\ targets'[i].used = n /\ targets'[i].status = "filled"
      /\ \A j \in DOMAIN targets : j # i => targets'[j] = targets[j]
  OBVIOUS
<1> HIDE DEF n
<1>5. /\ ledger'.receivables = ledger.receivables /\ ledger'.snapshots = ledger.snapshots
      /\ Len(ledger'.lots) = m + 1 /\ ledger'.lots[m + 1] = p.lot
      /\ \A k \in 1 .. m : ledger'.lots[k] = ledger.lots[k]
      /\ Len(ledger'.events) = h + 1 /\ ledger'.events[h + 1] = BuyEvent(ledger, p)
      /\ \A e \in 1 .. h : ledger'.events[e] = ledger.events[e]
  <2> DEFINE u == Bought(ledger, p)
  <2>1. p.lot \in Lot /\ p.fees \in Nat /\ ~BuyRefused(ledger, p)
    OBVIOUS
  <2> HIDE DEF p
  <2>2. /\ u.receivables = ledger.receivables /\ u.snapshots = ledger.snapshots
        /\ Len(u.lots) = m + 1 /\ u.lots[m + 1] = p.lot
        /\ \A k \in 1 .. m : u.lots[k] = ledger.lots[k]
        /\ Len(u.events) = h + 1 /\ u.events[h + 1] = BuyEvent(ledger, p)
        /\ \A e \in 1 .. h : u.events[e] = ledger.events[e]
    BY <1>3, <2>1, BoughtFields
  <2>3. ledger' = u
    BY DEF p
  <2> HIDE DEF u
  <2> QED BY <2>2, <2>3
<1>6. DOMAIN ledger'.lots = 1 .. m + 1 /\ DOMAIN ledger'.events = 1 .. h + 1
  <2>1. LedgerType(ledger')
    BY DEF LedgerInv, TypeOK
  <2>2. DOMAIN ledger'.lots = 1 .. Len(ledger'.lots)
        /\ DOMAIN ledger'.events = 1 .. Len(ledger'.events)
    BY <2>1, LedgerFields
  <2> QED BY <1>5, <2>2
<1>7. /\ BuyEvent(ledger, p).kind = "fill" /\ BuyEvent(ledger, p).id = <<"fill", y, n>>
      /\ BuyEvent(ledger, p).date = session
  BY <1>1 DEF BuyEvent
<1>8. /\ \A k \in 1 .. m + 1 : k \in 1 .. m \/ k = m + 1
      /\ \A e \in 1 .. h + 1 : e \in 1 .. h \/ e = h + 1
  BY <1>3
<1> HIDE DEF p, h, m
<1>9. RunType' /\ Where'
  <2>1. \A j \in DOMAIN targets' : targets'[j].used \in Nat
    BY <1>2, <1>4 DEF RunInv, RunType
  <2> QED BY <1>4, <2>1 DEF RunInv, RunType, Where
<1>10. Recorded'
  <2>1. \A e \in DOMAIN ledger'.events : ledger'.events[e].date <= session
    <3> SUFFICES ASSUME NEW e \in DOMAIN ledger'.events
                 PROVE  ledger'.events[e].date <= session
      OBVIOUS
    <3>1. CASE e \in 1 .. h
      BY <1>3, <1>5, <3>1 DEF RunInv, Recorded
    <3>2. CASE e = h + 1
      BY <1>3, <1>5, <1>7, <3>2
    <3> QED BY <1>6, <1>8, <3>1, <3>2
  <2>2. \A k \in DOMAIN ledger'.lots :
          \/ \E s \in DOMAIN ledger.snapshots :
                ledger.snapshots[s].date = ledger'.lots[k].acquired
          \/ ledger'.lots[k].acquired = session
    <3> SUFFICES ASSUME NEW k \in DOMAIN ledger'.lots
                 PROVE  \/ \E s \in DOMAIN ledger.snapshots :
                              ledger.snapshots[s].date = ledger'.lots[k].acquired
                        \/ ledger'.lots[k].acquired = session
      OBVIOUS
    <3>1. CASE k \in 1 .. m
      BY <1>3, <1>5, <3>1 DEF RunInv, Recorded
    <3>2. CASE k = m + 1
      BY <1>1, <1>5, <3>2
    <3> QED BY <1>6, <1>8, <3>1, <3>2
  <2> QED BY <1>5, <2>1, <2>2 DEF RunInv, Recorded
<1>11. Identified'
  <2>1. \A j \in DOMAIN targets : targets[j].status = "filled" =>
           targets'[j].status = "filled" /\ targets'[j].used = targets[j].used
    BY <1>4
  <2>2. \A e \in DOMAIN ledger'.events :
          IF ledger'.events[e].kind = "fill"
          THEN \E j \in DOMAIN targets' : targets'[j].status = "filled" /\
                  ledger'.events[e].id = <<"fill", SymbolOrder[j], targets'[j].used>>
          ELSE ledger'.events[e].id = CashId(ledger'.events[e].ref)
    <3> SUFFICES ASSUME NEW e \in DOMAIN ledger'.events
                 PROVE  IF ledger'.events[e].kind = "fill"
                        THEN \E j \in DOMAIN targets' : targets'[j].status = "filled" /\
                           ledger'.events[e].id = <<"fill", SymbolOrder[j], targets'[j].used>>
                        ELSE ledger'.events[e].id = CashId(ledger'.events[e].ref)
      OBVIOUS
    <3>1. CASE e \in 1 .. h
      <4>1. e \in DOMAIN ledger.events /\ ledger'.events[e] = ledger.events[e]
        BY <1>3, <1>5, <3>1
      <4> QED BY <1>4, <2>1, <4>1 DEF RunInv, Identified, Filled
    <3>2. CASE e = h + 1
      BY <1>4, <1>5, <1>7, <3>2
    <3> QED BY <1>6, <1>8, <3>1, <3>2
  <2>3. \A k \in DOMAIN ledger'.lots :
          \E j \in DOMAIN targets' : targets'[j].status = "filled" /\
             ledger'.lots[k].id = <<"lot", SymbolOrder[j], targets'[j].used>>
    <3> SUFFICES ASSUME NEW k \in DOMAIN ledger'.lots
                 PROVE  \E j \in DOMAIN targets' : targets'[j].status = "filled" /\
                           ledger'.lots[k].id = <<"lot", SymbolOrder[j], targets'[j].used>>
      OBVIOUS
    <3>1. CASE k \in 1 .. m
      <4>1. k \in DOMAIN ledger.lots /\ ledger'.lots[k] = ledger.lots[k]
        BY <1>3, <1>5, <3>1
      <4> QED BY <1>4, <2>1, <4>1 DEF RunInv, Identified, Filled
    <3>2. CASE k = m + 1
      BY <1>1, <1>4, <1>5, <3>2
    <3> QED BY <1>6, <1>8, <3>1, <3>2
  <2> QED BY <2>2, <2>3 DEF Identified, Filled
<1>12. Entitled'
  <2>1. ASSUME NEW x \in DOMAIN entitled
        PROVE  Bearing(ledger', actions[x].symbol, actions[x].record)
                  = Bearing(ledger, actions[x].symbol, actions[x].record)
    <3>1. actions \in ActionSets /\ x \in DOMAIN actions /\ actions[x].ex <= session
      BY DEF RunInv, RunType, Entitled
    <3>2. /\ actions[x].record \in Nat /\ actions[x].ex \in Nat
          /\ actions[x].record < actions[x].ex
      BY <3>1, CoordinatorAssumption
    <3>3. ~(session <= actions[x].record)
      BY <1>3, <3>1, <3>2
    <3>4. \A k \in DOMAIN ledger'.lots \ DOMAIN ledger.lots :
             ~(ledger'.lots[k].acquired <= actions[x].record)
      BY <1>1, <1>3, <1>5, <1>6, <1>8, <3>3
    <3>5. DOMAIN ledger.lots \subseteq DOMAIN ledger'.lots
      BY <1>3, <1>6
    <3>6. \A k \in DOMAIN ledger.lots : ledger'.lots[k] = ledger.lots[k]
      BY <1>3, <1>5
    <3> DEFINE u == ledger'
               r == actions[x].record
               s == actions[x].symbol
    <3>7. /\ DOMAIN ledger.lots \subseteq DOMAIN u.lots
          /\ \A k \in DOMAIN ledger.lots : u.lots[k] = ledger.lots[k]
          /\ \A k \in DOMAIN u.lots \ DOMAIN ledger.lots : ~(u.lots[k].acquired <= r)
      BY <3>4, <3>5, <3>6
    <3> HIDE DEF u, r, s
    <3>8. Bearing(u, s, r) = Bearing(ledger, s, r)
      BY <1>3, <3>7, BearingStands
    <3> QED BY <3>8 DEF u, r, s
  <2> QED BY <1>5, <2>1 DEF RunInv, Entitled
<1>13. Owed' /\ Queued'
  BY <1>5 DEF RunInv, Owed, Queued
<1> QED BY <1>9, <1>10, <1>11, <1>12, <1>13 DEF RunInv

LEMMA EntryKeeps ==
    ASSUME RunInv, NEW i \in DOMAIN targets, TryEntry(i) PROVE RunInv'
<1>1. /\ phase = "entries" /\ targets[i].status = "pending"
      /\ UNCHANGED <<previous, session, bars, queue, actions, entitled>>
  BY DEF TryEntry, NextPending
<1>2. ASSUME NEW initial, NEW requested, NEW reason, Rejected(i, initial, requested, reason)
      PROVE  RunInv'
  <2>1. /\ targets' = [targets EXCEPT ![i] = RecordRejection(@)]
        /\ UNCHANGED <<ledgerVars, phase, failure>>
    BY <1>2 DEF Rejected
  <2> QED BY <1>1, <2>1, RejectKeeps
<1>3. CASE \E a, b, c : Rejected(i, a, b, c)
  BY <1>2, <1>3
<1>4. CASE /\ bars[SymbolOrder[i]] # NoBar
           /\ \E initial \in {InitialCandidate(bars[SymbolOrder[i]].open)} :
              \E size \in {Candidate(i, initial)} :
              \E decision \in {EvaluateOrder(Order(i, IF size = 0 THEN LotSize ELSE size))} :
                \/ /\ initial > 0 /\ decision = "allowed"
                   /\ Fill(i, initial, size)
                \/ /\ initial > 0 /\ decision \in ContractFailures
                   /\ Abort("rule_contract_failure")
                   /\ UNCHANGED <<ledgerVars, attempts, targets, cursor>>
  <2>1. PICK initial, size, s :
             /\ initial = InitialCandidate(bars[SymbolOrder[i]].open)
             /\ size = Candidate(i, initial)
             /\ s = (IF size = 0 THEN LotSize ELSE size)
             /\ initial > 0
             /\ \/ EvaluateOrder(Order(i, s)) = "allowed" /\ Fill(i, initial, size)
                \/ /\ EvaluateOrder(Order(i, s)) \in ContractFailures
                   /\ Abort("rule_contract_failure")
                   /\ UNCHANGED <<ledgerVars, attempts, targets, cursor>>
    BY <1>4
  <2>2. CASE /\ EvaluateOrder(Order(i, s)) \in ContractFailures
             /\ Abort("rule_contract_failure")
             /\ UNCHANGED <<ledgerVars, attempts, targets, cursor>>
    <3> DEFINE o == Order(i, s)
    <3>1. o.signal = previous /\ o.symbol = SymbolOrder[i] /\ o.side = "buy"
      BY DEF Order
    <3>2. /\ previous \in Calendar /\ NextSession(previous) = session
          /\ NextSession(previous) # NoDate /\ NextSession(session) # NoDate
      BY <1>1, RunFields DEF RunInv, Where, Midway
    <3>3. EvaluateOrder(o) \in ContractFailures
      BY <2>2
    <3> HIDE DEF o
    <3>4. MissingSchedule(o.symbol, o.side, NextSession(o.signal))
      BY <3>1, <3>2, <3>3, BrokenContract
    <3>5. MissingSchedule(SymbolOrder[i], "buy", session)
      BY <3>1, <3>2, <3>4
    <3>6. SymbolOrder[i] \in Symbols
      <4>1. i \in DOMAIN SymbolOrder /\ SymbolOrder \in Seq(Symbols)
        BY CoordinatorAssumption DEF RunInv, RunType
      <4> QED BY <4>1, ElementOfSeq, LenProperties
    <3>7. phase' = "aborted" /\ failure' = "rule_contract_failure" /\ UNCHANGED <<ledgerVars, targets>>
      BY <2>2 DEF Abort
    <3> QED BY <1>1, <3>5, <3>6, <3>7, AbortKeeps DEF Midway, InputFailures
  <2>3. CASE EvaluateOrder(Order(i, s)) = "allowed" /\ Fill(i, initial, size)
    <3>1. /\ SymbolOrder[i] \in Symbols
          /\ bars[SymbolOrder[i]].open \in Nat \ {0}
          /\ size \in Nat /\ size > 0 /\ size % LotSize = 0
          /\ TotalFees(SymbolOrder[i], "buy", session, bars[SymbolOrder[i]].open, size) \in Nat
          /\ CashRequired(i, size) \in Nat /\ ledger.cash >= CashRequired(i, size)
          /\ EvidenceHolds(i, initial, size)
      BY <1>1, <1>4, <2>1, <2>3, FillFields
    <3>2. /\ FillPosting(i, size).lot \in Lot /\ FillPosting(i, size).fees \in Nat
          /\ ~BuyRefused(ledger, FillPosting(i, size))
          /\ ~OutOfOrder(ledger, FillPosting(i, size).lot.acquired)
      BY <1>1, <3>1, FillTaken
    <3>3. PostBuy(FillPosting(i, size))
      BY <2>3 DEF Fill, FillPosting
    <3>4. LedgerInv' /\ reply' = "ok" /\ ledger' = Bought(ledger, FillPosting(i, size))
      <4> DEFINE p == FillPosting(i, size)
      <4>1. /\ p.lot \in Lot /\ p.fees \in Nat /\ PostBuy(p)
            /\ ~BuyRefused(ledger, p) /\ ~OutOfOrder(ledger, p.lot.acquired)
        BY <3>2, <3>3
      <4>2. LedgerInv
        BY RunFields
      <4> HIDE DEF p
      <4>3. LedgerInv' /\ reply' = "ok" /\ ledger' = Bought(ledger, p)
        BY <4>1, <4>2, BuyAnswered
      <4> QED BY <4>3 DEF p
    <3>5. targets' = [targets EXCEPT ![i] = [used |-> targets[i].used + 1,
                                             status |-> "filled"]]
      BY <2>3 DEF Fill
    <3>6. phase' = "entries" /\ failure' = failure
      BY <2>3, <3>1, <3>4 DEF Fill, ThenGoTo
    <3> QED BY <1>1, <3>2, <3>4, <3>5, <3>6, FillKeeps
  <2> QED BY <2>1, <2>2, <2>3
<1> QED BY <1>3, <1>4 DEF TryEntry

LEMMA RunStep == RunInv /\ [RunNext]_vars => RunInv'
<1> SUFFICES ASSUME RunInv, [RunNext]_vars PROVE RunInv'
  OBVIOUS
<1>1. CASE OpenSession
  BY <1>1, OpenSessionKeeps
<1>2. CASE Finish
  BY <1>2, FinishKeeps
<1>3. CASE RegisterDividend
  BY <1>3, RegisterKeeps
<1>4. CASE DividendsDone
  BY <1>4, DividendsDoneKeeps
<1>5. CASE PayDue
  BY <1>5, PayKeeps
<1>6. CASE \E i \in DOMAIN targets : TryEntry(i)
  BY <1>6, EntryKeeps
<1>7. CASE EntriesDone
  BY <1>7, EntriesDoneKeeps
<1>8. CASE CloseDay
  BY <1>8, CloseKeeps
<1>9. CASE UNCHANGED vars
  <2>1. /\ ledger' = ledger /\ reply' = reply /\ asOf' = asOf
        /\ UNCHANGED <<phase, failure, previous, session, bars, queue, actions, targets,
                       entitled>>
    BY <1>9 DEF vars, ledgerVars, runVars
  <2>2. LedgerInv'
    BY <2>1 DEF RunInv, LedgerInv, TypeOK
  <2>3. RunType' /\ Where' /\ Recorded'
    BY <2>1 DEF RunInv, RunType, Where, Recorded
  <2>4. Identified'
    BY <2>1 DEF RunInv, Identified, Filled
  <2>5. Entitled' /\ Owed' /\ Queued'
    BY <2>1 DEF RunInv, Entitled, Owed, Queued
  <2> QED BY <2>2, <2>3, <2>4, <2>5 DEF RunInv
<1> QED BY <1>1, <1>2, <1>3, <1>4, <1>5, <1>6, <1>7, <1>8, <1>9 DEF RunNext

\* The ledger of a run always replays, and the run is always where its
\* invariant says.
THEOREM RunsAlwaysReplay == RunSpec => []RunInv
<1>1. RunInit => RunInv
  BY RunStarts
<1>2. RunInv /\ [RunNext]_vars => RunInv'
  BY RunStep
<1> QED BY <1>1, <1>2, PTL DEF RunSpec

\* Whatever bars, fees and dividends a run meets, it ends early only for a
\* reason its inputs give: the ledger takes every call the loop makes, its
\* replay never fails, and every fill passes EntryAttempt's own validation.
THEOREM OnlyInputsEverAbort == RunSpec => []OnlyInputsAbort
<1>1. RunInv => OnlyInputsAbort
  BY DEF RunInv, RunType, OnlyInputsAbort, InputFailures
<1> QED BY <1>1, RunsAlwaysReplay, PTL

\* The last snapshot up to a record date shows the lots bought by then.
LEMMA RecordDateHolding ==
    ASSUME RunInv, NEW y \in Symbols, NEW record \in Nat, record < session,
           NEW upTo, upTo = {i \in DOMAIN Snapshots : Snapshots[i].date <= record}
    PROVE  Bearing(ledger, y, record) =
              IF upTo = {} \/ y \notin DOMAIN Snapshots[Max(upTo)].valuations THEN 0
              ELSE Snapshots[Max(upTo)].valuations[y].total
<1> DEFINE n == Len(Snapshots)
           held == {i \in DOMAIN ledger.lots :
                      ledger.lots[i].symbol = y /\ ledger.lots[i].acquired <= record}
<1>1. /\ LedgerType(ledger) /\ Verified(ledger) /\ session \in Nat
      /\ n \in Nat /\ DOMAIN Snapshots = 1 .. n
      /\ \A i \in 1 .. n : Snapshots[i].date \in Nat
      /\ DOMAIN ledger.lots = 1 .. Len(ledger.lots)
      /\ \A k \in DOMAIN ledger.lots : ledger.lots[k].acquired \in Nat
  BY RunFields, LedgerFields DEF Snapshots, Lot
<1>2. Bearing(ledger, y, record) = SizeOf(ledger.lots, held)
  BY DEF Bearing
<1>3. \A k \in held : \E i \in upTo : Snapshots[i].date = ledger.lots[k].acquired
  BY <1>1 DEF RunInv, Recorded, Snapshots
<1>4. SizeOf(ledger.lots, {}) = 0
  <2>1. [i \in {} |-> ledger.lots[i].remaining] = [x \in {} |-> 0]
    OBVIOUS
  <2> QED BY <2>1, SumOfNothing DEF SizeOf
<1> HIDE DEF n, held
<1>5. CASE upTo = {}
  <2>1. held = {}
    BY <1>3, <1>5
  <2> QED BY <1>2, <1>4, <1>5, <2>1
<1>6. CASE upTo # {}
  <2>1. Max(upTo) \in upTo /\ \A i \in upTo : i <= Max(upTo)
    <3> DEFINE T == {n - i : i \in upTo}
    <3>1. \A i \in upTo : i \in 1 .. n
      BY <1>1
    <3>2. T \subseteq Nat /\ T # {}
      BY <1>1, <1>6, <3>1
    <3>3. PICK t \in T : \A k \in T : t <= k
      <4> HIDE DEF T
      <4> QED BY <3>2, NatMin
    <3>4. PICK m \in upTo : t = n - m
      BY <3>3
    <3>5. \A i \in upTo : n - m <= n - i
      BY <3>3, <3>4
    <3>6. \A i \in upTo : m >= i
      BY <1>1, <3>1, <3>4, <3>5
    <3>7. Max(upTo) \in upTo /\ \A i \in upTo : Max(upTo) >= i
      BY <3>4, <3>6 DEF Max
    <3> QED BY <1>1, <3>1, <3>7
  <2> DEFINE m == Max(upTo)
             s == Snapshots[m]
  <2>2. m \in 1 .. n /\ s.date <= record /\ s.date \in Nat
    BY <1>1, <2>1
  <2>3. SnapshotReconciles(ledger, s)
        /\ \A i, j \in 1 .. n : i < j => Snapshots[i].date < Snapshots[j].date
    BY <1>1, <2>2 DEF Verified, SnapshotsReconcile, Snapshots
  <2> HIDE DEF m, s
  <2>4. \A i \in upTo : Snapshots[i].date <= s.date
    <3> SUFFICES ASSUME NEW i \in upTo PROVE Snapshots[i].date <= s.date
      OBVIOUS
    <3>1. i \in 1 .. n /\ i <= m /\ Snapshots[i].date \in Nat
      BY <1>1, <2>1 DEF m
    <3>2. CASE i = m
      BY <2>2, <3>1, <3>2 DEF s
    <3>3. CASE i # m
      <4>1. i < m
        BY <2>2, <3>1, <3>3
      <4>2. Snapshots[i].date < s.date
        BY <2>2, <2>3, <3>1, <4>1 DEF s
      <4> QED BY <2>2, <3>1, <4>2
    <3> QED BY <3>2, <3>3
  <2>5. HeldLots(ledger, y, s.date) = held
    <3>1. \A k \in DOMAIN ledger.lots :
             ledger.lots[k].acquired <= s.date => ledger.lots[k].acquired <= record
      BY <1>1, <2>2
    <3>2. \A k \in held : ledger.lots[k].acquired <= s.date
      BY <1>3, <2>4
    <3> QED BY <3>1, <3>2 DEF HeldLots, held
  <2>6. Sizes(s.valuations) = PositionSizes(ledger, s.date)
    BY <2>3 DEF SnapshotReconciles
  <2>7. DOMAIN s.valuations = {x \in Symbols : HeldLots(ledger, x, s.date) # {}}
    <3>1. DOMAIN Sizes(s.valuations) = DOMAIN s.valuations
      BY DEF Sizes
    <3>2. DOMAIN PositionSizes(ledger, s.date)
             = {x \in Symbols : HeldLots(ledger, x, s.date) # {}}
      BY DEF PositionSizes
    <3> QED BY <2>6, <3>1, <3>2
  <2>8. CASE held = {}
    <3>1. y \notin DOMAIN s.valuations
      BY <2>5, <2>7, <2>8
    <3> QED BY <1>2, <1>4, <2>8, <3>1 DEF s, m
  <2>9. CASE held # {}
    <3>1. y \in DOMAIN s.valuations
      BY <2>5, <2>7, <2>9
    <3>2. Sizes(s.valuations)[y].total = s.valuations[y].total
      BY <3>1 DEF Sizes
    <3>3. PositionSizes(ledger, s.date)[y].total = SizeOf(ledger.lots, held)
      BY <2>5, <2>9 DEF PositionSizes
    <3> QED BY <1>2, <1>6, <2>6, <3>1, <3>2, <3>3 DEF s, m
  <2> QED BY <2>8, <2>9
<1> QED BY <1>5, <1>6

\* Every dividend of every run is owed on the shares the account held at the
\* close of its record date, as the snapshot taken then says.
THEOREM EntitlementsFollowRecordDate == RunSpec => []EntitlementIsRecordDateHolding
<1>1. RunInv => EntitlementIsRecordDateHolding
  <2> SUFFICES ASSUME RunInv, NEW d \in DOMAIN entitled
               PROVE LET y     == actions[d].symbol
                         upTo  == {i \in DOMAIN Snapshots : Snapshots[i].date <= actions[d].record}
                         held  == IF upTo = {} \/ y \notin DOMAIN Snapshots[Max(upTo)].valuations
                                  THEN 0 ELSE Snapshots[Max(upTo)].valuations[y].total
                         owed  == NotionalFen(actions[d].perUnit, held)
                     IN  /\ entitled[d] = held
                         /\ IF d \in DOMAIN ledger.receivables
                            THEN ledger.receivables[d].amount = owed ELSE owed = 0
    BY DEF EntitlementIsRecordDateHolding
  <2> DEFINE y    == actions[d].symbol
             upTo == {i \in DOMAIN Snapshots : Snapshots[i].date <= actions[d].record}
             held == IF upTo = {} \/ y \notin DOMAIN Snapshots[Max(upTo)].valuations
                     THEN 0 ELSE Snapshots[Max(upTo)].valuations[y].total
  <2>1. /\ d \in DOMAIN actions /\ actions[d].ex <= session
        /\ entitled[d] = Bearing(ledger, y, actions[d].record)
        /\ d \notin DOMAIN ledger.receivables => NotionalFen(actions[d].perUnit, entitled[d]) = 0
        /\ actions \in ActionSets
    BY DEF RunInv, Entitled, RunType
  <2>2. /\ y \in Symbols /\ actions[d].record \in Nat /\ actions[d].ex \in Nat
        /\ actions[d].record < actions[d].ex
    BY <2>1, CoordinatorAssumption
  <2>3. actions[d].record < session
    BY <2>1, <2>2, RunFields
  <2>4. Bearing(ledger, y, actions[d].record) = held
    <3> DEFINE r == actions[d].record
    <3>1. r \in Nat /\ r < session /\ upTo = {i \in DOMAIN Snapshots : Snapshots[i].date <= r}
      BY <2>2, <2>3
    <3> HIDE DEF y, r, upTo
    <3>2. Bearing(ledger, y, r) = held
      BY <2>2, <3>1, RecordDateHolding
    <3> QED BY <3>2 DEF r
  <2>5. d \in DOMAIN ledger.receivables =>
           ledger.receivables[d].amount = NotionalFen(actions[d].perUnit, entitled[d])
    BY DEF RunInv, Owed
  <2> HIDE DEF held
  <2>6. entitled[d] = held
    BY <2>1, <2>4
  <2>7. IF d \in DOMAIN ledger.receivables
        THEN ledger.receivables[d].amount = NotionalFen(actions[d].perUnit, held)
        ELSE NotionalFen(actions[d].perUnit, held) = 0
    BY <2>1, <2>5, <2>6
  <2> QED BY <2>6, <2>7 DEF held
<1> QED BY <1>1, RunsAlwaysReplay, PTL

=============================================================================
