------------------------------ MODULE LoopProofs -----------------------------
(***************************************************************************)
(* Proofs, for any calendar, market, dividends, strategy, capital and lot  *)
(* size, of what the research loop does with its ledger: that an attempt   *)
(* goes as far as it can, that a target of zero ends flat, and that        *)
(* entitlement follows the record date.                                    *)
(*                                                                         *)
(* The invariant is LoopInv.  The ledger of a path replays, its lots are   *)
(* dated within the path and whole board lots (LoopLedger, LotsDated); a   *)
(* close is on record for every session so far and a snapshot for each,    *)
(* covering what is left (DaysOK, ClosedBefore); what a rebalance still    *)
(* has to do is what is left between positions and targets (Trading); and  *)
(* unless another rebalance is to come, nothing is left of a symbol whose  *)
(* target is zero (Flat).                                                  *)
(***************************************************************************)
EXTENDS ResearchLoop, RuleProofs

-----------------------------------------------------------------------------
(* The ledger of a path *)

\* A lot the loop buys carries the id of its attempt.
LoopLot == [id : {"buy"} \X Symbols \X Nat, symbol : Symbols, acquired : Nat, available : Nat,
            original : Nat, remaining : Nat, cost : Nat]

\* A receivable the loop registers.
LoopReceivable == [symbol : Symbols, registered : Nat, payable : Nat, actual : Nat,
                   amount : Nat, paid : Nat]

\* What the proofs ask of the ledger, beside that it replays: its cash, lots and
\* receivables are what they should be, and every position is of whole board lots.
LedgerFields(l) ==
    l \in [initial : Nat, cash : Int, lots : Seq(LoopLot), events : {l.events},
           receivables : {l.receivables}, snapshots : Seq(Range(l.snapshots))]
LoopLedger(l) ==
    /\ LedgerFields(l)
    /\ \A d \in DOMAIN l.receivables :
          d \in ReceivableIds /\ l.receivables[d] \in LoopReceivable
    /\ \A i \in DOMAIN l.snapshots : l.snapshots[i].equity \in Int
    /\ \A y \in Symbols : Realized(l, y) % LotSize = 0

\* The lots of a typed ledger.
LEMMA LoopLots ==
    ASSUME NEW l, LoopLedger(l)
    PROVE  /\ Len(l.lots) \in Nat /\ DOMAIN l.lots = 1 .. Len(l.lots)
           /\ \A k \in DOMAIN l.lots : l.lots[k] \in LoopLot
           /\ Sized(l.lots)
           /\ Len(l.snapshots) \in Nat /\ DOMAIN l.snapshots = 1 .. Len(l.snapshots)
           /\ l.snapshots \in Seq(Range(l.snapshots))
           /\ l.snapshots = <<>> <=> Len(l.snapshots) = 0
<1>1. l.lots \in Seq(LoopLot) /\ l.snapshots \in Seq(Range(l.snapshots))
  BY DEF LoopLedger, LedgerFields
<1>2. Len(l.lots) \in Nat /\ DOMAIN l.lots = 1 .. Len(l.lots)
  BY <1>1, LenProperties
<1>3. \A k \in DOMAIN l.lots : l.lots[k] \in LoopLot
  BY <1>1, <1>2, ElementOfSeq
<1>4. Sized(l.lots)
  <2>1. IsFiniteSet(DOMAIN l.lots)
    BY <1>2, PrefixFinite
  <2> QED BY <1>3, <2>1 DEF Sized, LoopLot
<1>5. Len(l.snapshots) \in Nat /\ DOMAIN l.snapshots = 1 .. Len(l.snapshots)
      /\ (l.snapshots = <<>> <=> Len(l.snapshots) = 0)
  BY <1>1, LenProperties, EmptySeq
<1> QED BY <1>1, <1>2, <1>3, <1>4, <1>5

\* A position is a number of shares.
LEMMA RealizedIsNat ==
    ASSUME NEW l, LoopLedger(l), NEW y
    PROVE  Realized(l, y) \in Nat
<1>1. LotsOf(l, y) \in SUBSET DOMAIN l.lots
  BY DEF LotsOf
<1>2. Sized(l.lots)
  BY LoopLots
<1> QED BY <1>1, <1>2, SizesAddUp DEF Realized

\* A size depends on the lots indexed and nothing else.
LEMMA SizeStands ==
    ASSUME NEW s, NEW t, NEW S, \A i \in S : s[i] = t[i]
    PROVE  SizeOf(s, S) = SizeOf(t, S)
<1>1. [i \in S |-> s[i].remaining] = [i \in S |-> t[i].remaining]
  OBVIOUS
<1> QED BY <1>1 DEF SizeOf

\* Ledgers with the same lots hold the same.
LEMMA SameLots ==
    ASSUME NEW l, NEW u, u.lots = l.lots
    PROVE  /\ \A y : Realized(u, y) = Realized(l, y)
           /\ \A y, date : {k \in LotsOf(u, y) : u.lots[k].acquired <= date}
                              = {k \in LotsOf(l, y) : l.lots[k].acquired <= date}
BY DEF Realized, LotsOf

\* What a sell leaves: less of its symbol by its size, all else as it was.
Leaves(l, u, q) ==
    /\ LoopLedger(u) /\ u.snapshots = l.snapshots
    /\ DOMAIN u.lots = DOMAIN l.lots
    /\ \A k \in DOMAIN l.lots :
          /\ u.lots[k].symbol = l.lots[k].symbol /\ u.lots[k].acquired = l.lots[k].acquired
          /\ u.lots[k].available = l.lots[k].available
          /\ u.lots[k].remaining <= l.lots[k].remaining
          /\ l.lots[k].symbol # q.symbol => u.lots[k] = l.lots[k]
    /\ Realized(u, q.symbol) = Realized(l, q.symbol) - q.size
    /\ \A y : y # q.symbol => Realized(u, y) = Realized(l, y)

LEMMA SoldLeaves ==
    ASSUME NEW l, LoopLedger(l), NEW q, q.symbol \in Symbols, q.size \in Nat,
           q.price \in Nat, q.fees \in Nat, ~SellRefused(l, q)
    PROVE  Leaves(l, Sold(l, q), q)
<1> DEFINE s == l.lots
           G == SellableLots(l, q.symbol, q.date)
           H == LotsOf(l, q.symbol)
           t == ConsumeFifo(s, G, q.size)
           c == Consumption(l, q)
           u == Sold(l, q)
           left == LotsLeft(l, c)
<1>1. /\ DOMAIN s = 1 .. Len(s) /\ Len(s) \in Nat /\ Sized(s)
      /\ \A k \in DOMAIN s : s[k] \in LoopLot
  BY LoopLots
<1>2. G \in SUBSET H /\ H \in SUBSET DOMAIN s /\ G \subseteq Nat
  <2>1. G \in SUBSET H /\ H \in SUBSET DOMAIN s
    BY DEF SellableLots, LotsOf
  <2>2. DOMAIN s \subseteq Nat
    BY <1>1
  <2> QED BY <2>1, <2>2
<1>3. /\ q.size <= SizeOf(s, G)
      /\ ValidSellSize(Realized(l, q.symbol), q.size)
  <2>1. SizeOf(s, G) \in Nat
    BY <1>1, <1>2, SizesAddUp
  <2> HIDE DEF s
  <2>2. ~(q.size > SizeOf(s, G))
    BY DEF SellRefused, s
  <2>3. ValidSellSize(Realized(l, q.symbol), q.size)
    BY DEF SellRefused, Realized
  <2> QED BY <2>1, <2>2, <2>3
<1>4. /\ \A k \in G : t[k] \in Nat /\ t[k] <= s[k].remaining
      /\ SumFunction([k \in G |-> t[k]]) = q.size
  <2> HIDE DEF G, s
  <2>1. Sized(s) /\ G \in SUBSET DOMAIN s /\ G \subseteq Nat /\ q.size \in Nat
        /\ q.size <= SizeOf(s, G)
    BY <1>1, <1>2, <1>3
  <2> QED BY <2>1, FifoTakesAll
<1>5. c = [k \in {x \in DOMAIN t : t[x] > 0} |-> t[k]] /\ DOMAIN t = G
  BY DEF Consumption, Positive, ConsumeFifo
<1>6. DOMAIN left = DOMAIN s /\ \A k \in DOMAIN s :
         /\ k \in G => left[k] = [s[k] EXCEPT !.remaining = s[k].remaining - t[k]]
         /\ k \notin G => left[k] = s[k]
  <2> HIDE DEF t, G
  <2>1. DOMAIN c = {x \in G : t[x] > 0} /\ \A k \in DOMAIN c : c[k] = t[k]
    BY <1>5
  <2> HIDE DEF c
  <2>2. /\ DOMAIN left = DOMAIN s
        /\ \A k \in DOMAIN s :
              left[k] = IF k \in DOMAIN c THEN [s[k] EXCEPT !.remaining = s[k].remaining - c[k]]
                                          ELSE s[k]
    BY DEF LotsLeft
  <2> HIDE DEF left, s
  <2> SUFFICES ASSUME NEW k \in DOMAIN s
               PROVE  /\ k \in G => left[k] = [s[k] EXCEPT !.remaining = s[k].remaining - t[k]]
                      /\ k \notin G => left[k] = s[k]
    BY <2>2
  <2>3. CASE k \in DOMAIN c
    BY <2>1, <2>2, <2>3
  <2>4. CASE k \in G /\ k \notin DOMAIN c
    <3>1. t[k] = 0
      <4>1. t[k] \in Nat /\ ~(t[k] > 0)
        BY <1>4, <2>1, <2>4
      <4> QED BY <4>1
    <3>2. s[k] \in LoopLot
      BY <1>1
    <3>3. [s[k] EXCEPT !.remaining = s[k].remaining - 0] = s[k]
      BY <3>2 DEF LoopLot
    <3> QED BY <2>2, <2>4, <3>1, <3>3
  <2>5. CASE k \notin G
    BY <2>1, <2>2, <2>5
  <2> QED BY <2>3, <2>4, <2>5
<1> HIDE DEF left
<1>7. \A k \in DOMAIN s :
         /\ left[k] \in LoopLot
         /\ left[k].symbol = s[k].symbol /\ left[k].acquired = s[k].acquired
         /\ left[k].available = s[k].available
         /\ left[k].remaining <= s[k].remaining
         /\ left[k].remaining = s[k].remaining - (IF k \in G THEN t[k] ELSE 0)
         /\ s[k].symbol # q.symbol => left[k] = s[k]
  <2> SUFFICES ASSUME NEW k \in DOMAIN s
               PROVE  /\ left[k] \in LoopLot
                      /\ left[k].symbol = s[k].symbol /\ left[k].acquired = s[k].acquired
                      /\ left[k].available = s[k].available
                      /\ left[k].remaining <= s[k].remaining
                      /\ left[k].remaining = s[k].remaining - (IF k \in G THEN t[k] ELSE 0)
                      /\ s[k].symbol # q.symbol => left[k] = s[k]
    OBVIOUS
  <2>1. s[k] \in LoopLot
    BY <1>1
  <2>2. CASE k \in G
    <3>1. left[k] = [s[k] EXCEPT !.remaining = s[k].remaining - t[k]]
      BY <1>6, <2>2
    <3>2. t[k] \in Nat /\ t[k] <= s[k].remaining
      BY <1>4, <2>2
    <3>3. s[k].symbol = q.symbol
      BY <1>2, <2>2 DEF LotsOf
    <3> HIDE DEF t, G, s
    <3> QED BY <2>1, <2>2, <3>1, <3>2, <3>3 DEF LoopLot
  <2>3. CASE k \notin G
    <3>1. left[k] = s[k]
      BY <1>6, <2>3
    <3> HIDE DEF t, G, s
    <3> QED BY <2>1, <2>3, <3>1 DEF LoopLot
  <2> QED BY <2>2, <2>3
<1>8. /\ u.lots = left /\ u.snapshots = l.snapshots
      /\ LedgerFields(u) /\ u.receivables = l.receivables
  <2>1. left \in Seq(LoopLot)
    <3>1. left \in [1 .. Len(s) -> LoopLot]
      <4>1. left = [k \in DOMAIN left |-> left[k]]
        BY DEF left, LotsLeft
      <4> HIDE DEF s
      <4> QED BY <1>1, <1>6, <1>7, <4>1
    <3> HIDE DEF s
    <3> QED BY <1>1, <3>1, SeqDef
  <2>2. u = [l EXCEPT !.cash = SellProceeds(l, q), !.lots = left,
                      !.events = Append(@, SellEvent(l, q))]
    BY DEF Sold, left
  <2>3. SellProceeds(l, q) \in Int
    <3>1. l.cash \in Int
      BY DEF LoopLedger, LedgerFields
    <3>2. NotionalFen(q.price, q.size) \in Nat
      BY NotionalIsNat
    <3>3. SellProceeds(l, q) = l.cash + NotionalFen(q.price, q.size) - q.fees
      BY DEF SellProceeds
    <3> QED BY <3>1, <3>2, <3>3
  <2> HIDE DEF left, u
  <2> QED BY <2>1, <2>2, <2>3 DEF LoopLedger, LedgerFields
<1>9. DOMAIN left = DOMAIN s /\ \A y : LotsOf(u, y) = LotsOf(l, y)
  <2>1. \A k \in DOMAIN s : u.lots[k].symbol = s[k].symbol
    BY <1>7, <1>8
  <2>2. DOMAIN u.lots = DOMAIN s
    BY <1>6, <1>8
  <2> HIDE DEF u
  <2> QED BY <1>6, <2>1, <2>2 DEF LotsOf
<1>10. Realized(u, q.symbol) = Realized(l, q.symbol) - q.size
  <2> DEFINE f == [k \in H |-> left[k].remaining]
             g == [k \in H |-> IF k \in G THEN t[k] ELSE 0]
             h == [k \in H |-> s[k].remaining]
  <2>1. IsFiniteSet(H)
    BY <1>1, <1>2, FS_Subset DEF Sized
  <2>2. \A k \in H : /\ f[k] \in Nat /\ g[k] \in Nat /\ h[k] \in Nat
                     /\ h[k] = f[k] + g[k]
    <3> SUFFICES ASSUME NEW k \in H
                 PROVE  /\ f[k] \in Nat /\ g[k] \in Nat /\ h[k] \in Nat
                        /\ h[k] = f[k] + g[k]
      OBVIOUS
    <3>1. k \in DOMAIN s /\ left[k].remaining \in Nat /\ s[k].remaining \in Nat
      BY <1>1, <1>2, <1>7 DEF LoopLot
    <3>2. g[k] \in Nat
      BY <1>4
    <3>3. left[k].remaining = s[k].remaining - g[k]
      BY <1>7, <3>1
    <3>4. f[k] = left[k].remaining /\ h[k] = s[k].remaining
      OBVIOUS
    <3> HIDE DEF f, g, h, s
    <3> QED BY <3>1, <3>2, <3>3, <3>4
  <2>3. Counts(f) /\ Counts(g) /\ Counts(h) /\ DOMAIN f = DOMAIN h /\ DOMAIN g = DOMAIN h
    BY <2>1, <2>2 DEF Counts
  <2>4. \A x \in DOMAIN h : h[x] = f[x] + g[x]
    BY <2>2
  <2>5. SumFunction(g) = SumFunction([k \in G |-> g[k]])
    <3>1. G \in SUBSET DOMAIN g /\ \A x \in DOMAIN g \ G : g[x] = 0
      BY <1>2
    <3> HIDE DEF g
    <3> QED BY <2>3, <3>1, SumSkipsZeros
  <2>6. [k \in G |-> g[k]] = [k \in G |-> t[k]]
    BY <1>2
  <2>7. SumFunction(h) = SumFunction(f) + SumFunction(g) /\ SumFunction(f) \in Nat
    <3> HIDE DEF f, g, h
    <3> QED BY <2>3, <2>4, SumAdds, SumIsNat
  <2>8. Realized(u, q.symbol) = SumFunction(f)
    BY <1>8, <1>9 DEF Realized, SizeOf
  <2>9. Realized(l, q.symbol) = SumFunction(h)
    BY DEF Realized, SizeOf
  <2> HIDE DEF f, g, h
  <2> QED BY <1>4, <2>5, <2>6, <2>7, <2>8, <2>9
<1>11. \A y : y # q.symbol => Realized(u, y) = Realized(l, y)
  <2> SUFFICES ASSUME NEW y, y # q.symbol PROVE Realized(u, y) = Realized(l, y)
    OBVIOUS
  <2>1. \A k \in LotsOf(l, y) : left[k] = s[k]
    <3>1. \A k \in LotsOf(l, y) : k \in DOMAIN s /\ s[k].symbol = y
      BY DEF LotsOf
    <3> HIDE DEF s
    <3> QED BY <1>7, <3>1
  <2>2. SizeOf(left, LotsOf(l, y)) = SizeOf(s, LotsOf(l, y))
    BY <2>1, SizeStands
  <2> QED BY <1>8, <1>9, <2>2 DEF Realized
<1>12. \A y \in Symbols : Realized(u, y) % LotSize = 0
  <2>1. \A y \in Symbols : Realized(l, y) % LotSize = 0 /\ Realized(l, y) \in Nat
    BY RealizedIsNat DEF LoopLedger
  <2>2. (Realized(l, q.symbol) - q.size) % LotSize = 0
    <3> DEFINE r == Realized(l, q.symbol)
    <3>1. r \in Nat /\ r % LotSize = 0
      BY <2>1
    <3>2. q.size % LotSize = 0 \/ q.size = r
      BY <1>3 DEF ValidSellSize
    <3> DEFINE m == q.size
    <3>3. m \in Nat
      OBVIOUS
    <3> HIDE DEF r, m
    <3>4. r % 100 = 0 /\ (m % 100 = 0 \/ m = r) => (r - m) % 100 = 0
      BY <3>1, <3>3
    <3>5. (r - m) % LotSize = 0
      BY <3>1, <3>2, <3>4 DEF LotSize, m
    <3> QED BY <3>5 DEF r, m
  <2> HIDE DEF u
  <2> QED BY <1>10, <1>11, <2>1, <2>2
<1>13. DOMAIN u.lots = DOMAIN l.lots /\ \A k \in DOMAIN l.lots :
          /\ u.lots[k].symbol = l.lots[k].symbol /\ u.lots[k].acquired = l.lots[k].acquired
          /\ u.lots[k].available = l.lots[k].available
          /\ u.lots[k].remaining <= l.lots[k].remaining
          /\ l.lots[k].symbol # q.symbol => u.lots[k] = l.lots[k]
  BY <1>6, <1>7, <1>8
<1> HIDE DEF u, t, G, H, c
<1> QED BY <1>8, <1>10, <1>11, <1>12, <1>13 DEF Leaves, LoopLedger, u

\* What a buy adds: one lot, and nothing to any other symbol.
Adds(l, u, lot) ==
    /\ LoopLedger(u) /\ u.snapshots = l.snapshots
    /\ DOMAIN u.lots = 1 .. Len(l.lots) + 1 /\ u.lots[Len(l.lots) + 1] = lot
    /\ \A k \in DOMAIN l.lots : u.lots[k] = l.lots[k]
    /\ \A y : y # lot.symbol => Realized(u, y) = Realized(l, y)

LEMMA BoughtAdds ==
    ASSUME NEW l, LoopLedger(l), NEW p, AsRollingLot(p.lot) \in LoopLot,
           AsRollingLot(p.lot).remaining % LotSize = 0, p.fees \in Nat
    PROVE  Adds(l, RollingBought(l, p), AsRollingLot(p.lot))
<1> DEFINE s == l.lots
           n == Len(l.lots)
           x == AsRollingLot(p.lot)
           u == RollingBought(l, p)
           all == Append(s, x)
<1>1. /\ s \in Seq(LoopLot) /\ n \in Nat /\ DOMAIN s = 1 .. n /\ Sized(s)
      /\ \A k \in DOMAIN s : s[k] \in LoopLot
  BY LoopLots DEF LoopLedger, LedgerFields
<1>2. x \in LoopLot /\ x.remaining % LotSize = 0
  OBVIOUS
<1> HIDE DEF x
<1>3. /\ all \in Seq(LoopLot) /\ Len(all) = n + 1 /\ DOMAIN all = 1 .. n + 1
      /\ all[n + 1] = x /\ \A k \in DOMAIN s : all[k] = s[k]
  <2>1. /\ all \in Seq(LoopLot) /\ Len(all) = n + 1
        /\ \A i \in 1 .. n : all[i] = s[i]
        /\ all[n + 1] = x
    BY <1>1, <1>2, AppendProperties
  <2> HIDE DEF all
  <2>2. DOMAIN all = 1 .. Len(all)
    BY <2>1, LenProperties
  <2> HIDE DEF s, n
  <2> QED BY <1>1, <2>1, <2>2
<1>4. /\ u.lots = all /\ u.snapshots = l.snapshots
      /\ LedgerFields(u) /\ u.receivables = l.receivables
  <2>1. u = [l EXCEPT !.cash = BuyEvent(l, p).after, !.lots = all,
                      !.events = Append(@, BuyEvent(l, p))]
    BY DEF RollingBought, x
  <2>2. BuyEvent(l, p).after \in Int
    <3>1. l.cash \in Int
      BY DEF LoopLedger, LedgerFields
    <3>2. p.lot.cost \in Nat /\ p.lot.remaining \in Nat
      <4>1. x.cost = p.lot.cost /\ x.remaining = p.lot.remaining
        BY DEF x, AsRollingLot
      <4> QED BY <1>2, <4>1 DEF LoopLot
    <3>3. LotCost(p.lot) \in Nat
      BY <3>2, NotionalIsNat DEF LotCost
    <3>4. BuyEvent(l, p).after = l.cash - LotCost(p.lot) - p.fees
      BY DEF BuyEvent, CashAfterFill
    <3> QED BY <3>1, <3>3, <3>4
  <2> HIDE DEF all, u
  <2> QED BY <1>3, <2>1, <2>2 DEF LoopLedger, LedgerFields
<1> HIDE DEF all, u
<1>5. ASSUME NEW y
      PROVE  /\ y # x.symbol => LotsOf(u, y) = LotsOf(l, y)
             /\ y = x.symbol => /\ LotsOf(u, y) = LotsOf(l, y) \cup {n + 1}
                                /\ n + 1 \notin LotsOf(l, y)
  <2>1. /\ DOMAIN u.lots = DOMAIN s \cup {n + 1} /\ n + 1 \notin DOMAIN s
        /\ u.lots[n + 1] = x /\ \A k \in DOMAIN s : u.lots[k] = s[k]
    BY <1>1, <1>3, <1>4
  <2> HIDE DEF n
  <2> QED BY <2>1 DEF LotsOf
<1>6. ASSUME NEW y PROVE SizeOf(u.lots, LotsOf(l, y)) = Realized(l, y)
  <2>1. \A k \in LotsOf(l, y) : u.lots[k] = s[k]
    BY <1>3, <1>4 DEF LotsOf
  <2> QED BY <2>1, SizeStands DEF Realized
<1>7. \A y : y # x.symbol => Realized(u, y) = Realized(l, y)
  BY <1>5, <1>6 DEF Realized
<1>8. Realized(u, x.symbol) = Realized(l, x.symbol) + x.remaining
  <2> DEFINE H == LotsOf(u, x.symbol)
             f == [k \in H |-> u.lots[k].remaining]
  <2>1. Counts(f) /\ n + 1 \in DOMAIN f /\ f[n + 1] = x.remaining
    <3>1. H \subseteq 1 .. n + 1 /\ n + 1 \in H
      BY <1>3, <1>4, <1>5 DEF LotsOf
    <3>2. IsFiniteSet(H)
      BY <1>1, <3>1, PrefixFinite, FS_Subset
    <3>3. \A k \in H : u.lots[k] \in LoopLot
      <4>1. \A k \in 1 .. n + 1 : u.lots[k] \in LoopLot
        BY <1>3, <1>4, ElementOfSeq
      <4> QED BY <3>1, <4>1
    <3>4. \A k \in H : f[k] \in Nat
      BY <3>3 DEF LoopLot
    <3>5. u.lots[n + 1] = x
      BY <1>3, <1>4
    <3> HIDE DEF H
    <3> QED BY <3>1, <3>2, <3>4, <3>5 DEF Counts
  <2>2. [k \in DOMAIN f \ {n + 1} |-> f[k]] = [k \in LotsOf(l, x.symbol) |-> u.lots[k].remaining]
    <3>1. DOMAIN f \ {n + 1} = LotsOf(l, x.symbol)
      BY <1>5
    <3>2. \A k \in LotsOf(l, x.symbol) : f[k] = u.lots[k].remaining
      BY <1>5
    <3> HIDE DEF f
    <3> QED BY <3>1, <3>2
  <2>3. SumFunction(f) = f[n + 1] + SumFunction([k \in DOMAIN f \ {n + 1} |-> f[k]])
    <3> HIDE DEF f
    <3> QED BY <2>1, SumTakesOut
  <2>4. SumFunction([k \in LotsOf(l, x.symbol) |-> u.lots[k].remaining]) = Realized(l, x.symbol)
    BY <1>6 DEF SizeOf
  <2>5. Realized(u, x.symbol) = SumFunction(f)
    BY DEF Realized, SizeOf
  <2>6. Realized(l, x.symbol) \in Nat /\ x.remaining \in Nat
    BY <1>2, RealizedIsNat DEF LoopLot
  <2> HIDE DEF f
  <2> QED BY <2>1, <2>2, <2>3, <2>4, <2>5, <2>6
<1>9. \A y \in Symbols : Realized(u, y) % LotSize = 0
  <2>1. \A y \in Symbols : Realized(l, y) % LotSize = 0 /\ Realized(l, y) \in Nat
    BY RealizedIsNat DEF LoopLedger
  <2>2. x.symbol \in Symbols /\ x.remaining \in Nat
    BY <1>2 DEF LoopLot
  <2>3. (Realized(l, x.symbol) + x.remaining) % LotSize = 0
    <3> DEFINE r == Realized(l, x.symbol)
               m == x.remaining
    <3>1. r \in Nat /\ r % LotSize = 0 /\ m \in Nat /\ m % LotSize = 0
      BY <1>2, <2>1, <2>2
    <3> HIDE DEF r, m
    <3>2. (r + m) % LotSize = 0
      BY <3>1 DEF LotSize
    <3> QED BY <3>2 DEF r, m
  <2> QED BY <1>7, <1>8, <2>1, <2>3
<1>10. LoopLedger(u)
  BY <1>4, <1>9 DEF LoopLedger
<1> QED BY <1>3, <1>4, <1>7, <1>10 DEF Adds, u, x

\* A step that leaves the lots and the days alone.
SameHoldings(l, u) == LoopLedger(u) /\ u.lots = l.lots /\ u.snapshots = l.snapshots

LEMMA RegisteredSame ==
    ASSUME NEW l, LoopLedger(l), NEW d \in ReceivableIds, NEW r \in LoopReceivable
    PROVE  SameHoldings(l, Registered(l, d, r))
<1> DEFINE u == Registered(l, d, r)
           all == [x \in DOMAIN l.receivables \cup {d} |-> IF x = d THEN r ELSE l.receivables[x]]
<1>1. u = [l EXCEPT !.receivables = all]
  BY DEF Registered
<1>2. \A x \in DOMAIN all : x \in ReceivableIds /\ all[x] \in LoopReceivable
  BY DEF LoopLedger
<1> HIDE DEF u, all
<1>3. u.lots = l.lots /\ u.snapshots = l.snapshots /\ u.receivables = all /\ LedgerFields(u)
  BY <1>1 DEF LoopLedger, LedgerFields
<1>4. LoopLedger(u)
  BY <1>2, <1>3, SameLots DEF LoopLedger
<1> QED BY <1>3, <1>4 DEF SameHoldings, u

LEMMA PaidOneSame ==
    ASSUME NEW l, LoopLedger(l), NEW d, NEW date \in Nat, IsDue(l, d, date)
    PROVE  SameHoldings(l, PayOne(l, d, date))
<1> DEFINE u == PayOne(l, d, date)
           all == [l.receivables EXCEPT ![d].paid = date]
           cash == Payment(l, d, date).after
           log == Append(l.events, Payment(l, d, date))
<1>1. u = [l EXCEPT !.cash = cash, !.events = log, !.receivables = all]
  BY DEF PayOne, LoopLedger, LedgerFields
<1>2. /\ DOMAIN all = DOMAIN l.receivables
      /\ all[d] = [l.receivables[d] EXCEPT !.paid = date]
      /\ \A x \in DOMAIN all : x # d => all[x] = l.receivables[x]
  BY DEF IsDue
<1>3. d \in DOMAIN l.receivables /\ l.receivables[d] \in LoopReceivable
  BY DEF IsDue, LoopLedger
<1>4. cash \in Int
  <2>1. l.cash \in Int
    BY DEF LoopLedger, LedgerFields
  <2>2. l.receivables[d].amount \in Nat
    BY <1>3 DEF LoopReceivable
  <2>3. cash = l.cash + l.receivables[d].amount
    BY DEF Payment
  <2> QED BY <2>1, <2>2, <2>3
<1> HIDE DEF u, all, cash, log
<1>5. all[d] \in LoopReceivable
  BY <1>2, <1>3 DEF LoopReceivable
<1>6. \A x \in DOMAIN all : x \in ReceivableIds /\ all[x] \in LoopReceivable
  BY <1>2, <1>5 DEF LoopLedger
<1>7. u.lots = l.lots /\ u.snapshots = l.snapshots /\ u.receivables = all /\ LedgerFields(u)
  BY <1>1, <1>4 DEF LoopLedger, LedgerFields
<1>8. LoopLedger(u)
  BY <1>6, <1>7, SameLots DEF LoopLedger
<1> QED BY <1>7, <1>8 DEF SameHoldings, u

\* What is held is worth, and what is owed comes to, a natural number.
LEMMA OrderedSetIsFinite ==
    ASSUME NEW X, NEW s \in Seq(X), \A x \in X : \E i \in DOMAIN s : s[i] = x
    PROVE  IsFiniteSet(X)
<1>1. Len(s) \in Nat /\ DOMAIN s = 1 .. Len(s) /\ IsFiniteSet(1 .. Len(s))
  BY LenProperties, PrefixFinite
<1> DEFINE f == [i \in 1 .. Len(s) |-> s[i]]
           S == {f[i] : i \in 1 .. Len(s)}
<1>2. f \in Surjection(1 .. Len(s), S)
  BY DEF Surjection
<1>3. IsFiniteSet(S)
  <2> HIDE DEF f, S
  <2> QED BY <1>1, <1>2, FS_Surjection
<1>4. X \subseteq S
  BY <1>1
<1> QED BY <1>3, <1>4, FS_Subset

LEMMA MarketIsNat ==
    ASSUME NEW v, DOMAIN v \subseteq Symbols,
           \A y \in DOMAIN v : v[y].mark \in Nat /\ v[y].total \in Nat
    PROVE  MarketValue(v) \in Nat
<1> DEFINE f == [y \in DOMAIN v |-> NotionalFen(v[y].mark, v[y].total)]
<1>1. IsFiniteSet(DOMAIN f)
  BY SymbolOrderAssumption, OrderedSetIsFinite, FS_Subset
<1>2. \A y \in DOMAIN f : f[y] \in Nat
  BY NotionalIsNat
<1>3. Counts(f)
  BY <1>1, <1>2 DEF Counts
<1>4. MarketValue(v) = SumFunction(f)
  BY DEF MarketValue
<1> HIDE DEF f
<1> QED BY <1>3, <1>4, SumIsNat

LEMMA OutstandingIsNat ==
    ASSUME NEW l, LoopLedger(l), NEW date
    PROVE  Outstanding(l, date) \in Nat
<1> DEFINE S == {x \in DOMAIN l.receivables :
                   /\ l.receivables[x].registered <= date
                   /\ \/ l.receivables[x].paid = NoDate
                      \/ l.receivables[x].paid > date}
           f == [d \in S |-> l.receivables[d].amount]
<1>1. \A x \in S : x \in ReceivableIds /\ l.receivables[x] \in LoopReceivable
  BY DEF LoopLedger
<1>2. IsFiniteSet(S)
  <2>1. S \subseteq ReceivableIds
    BY <1>1
  <2> HIDE DEF S
  <2> QED BY <2>1, PayOrderAssumption, OrderedSetIsFinite, FS_Subset
<1>3. Outstanding(l, date) = SumFunction(f)
  BY DEF Outstanding
<1> HIDE DEF S
<1>4. \A x \in S : f[x] \in Nat
  BY <1>1 DEF LoopReceivable
<1>5. Counts(f)
  BY <1>2, <1>4 DEF Counts
<1> HIDE DEF f
<1> QED BY <1>3, <1>5, SumIsNat

\* Closing a day adds its snapshot and nothing else.
LEMMA ClosedAdds ==
    ASSUME NEW l, LoopLedger(l), NEW date \in Nat, NEW v,
           DOMAIN v \subseteq Symbols, \A y \in DOMAIN v : v[y].mark \in Nat /\ v[y].total \in Nat
    PROVE  LET u == ClosedWith(l, date, v)
               n == Len(l.snapshots)
           IN  /\ LoopLedger(u) /\ u.lots = l.lots
               /\ DOMAIN u.snapshots = 1 .. n + 1 /\ Len(u.snapshots) = n + 1
               /\ u.snapshots[n + 1] = Snapshot(l, date, v)
               /\ \A i \in DOMAIN l.snapshots : u.snapshots[i] = l.snapshots[i]
<1> DEFINE u == ClosedWith(l, date, v)
           n == Len(l.snapshots)
           x == Snapshot(l, date, v)
           all == Append(l.snapshots, x)
<1>1. l.snapshots \in Seq(Range(l.snapshots))
  BY DEF LoopLedger, LedgerFields
<1>2. /\ all \in Seq(Range(all)) /\ Len(all) = n + 1
      /\ DOMAIN l.snapshots = 1 .. n /\ DOMAIN all = 1 .. n + 1
      /\ \A i \in 1 .. n : all[i] = l.snapshots[i]
      /\ all[n + 1] = x
  <2> HIDE DEF x
  <2> QED BY <1>1, AppendToRange
<1>3. u = [l EXCEPT !.snapshots = all]
  BY DEF ClosedWith
<1>4. x.equity \in Int
  <2>1. l.cash \in Int
    BY DEF LoopLedger, LedgerFields
  <2>2. x.equity = l.cash + MarketValue(v) + Outstanding(l, date)
    BY DEF Snapshot
  <2> HIDE DEF x
  <2> QED BY <2>1, <2>2, MarketIsNat, OutstandingIsNat
<1> HIDE DEF u, all, x
<1>5. /\ u.lots = l.lots /\ u.snapshots = all
      /\ LedgerFields(u) /\ u.receivables = l.receivables
  BY <1>2, <1>3 DEF LoopLedger, LedgerFields
<1>6. \A i \in DOMAIN u.snapshots : u.snapshots[i].equity \in Int
  <2>1. \A i \in 1 .. n : l.snapshots[i].equity \in Int
    BY <1>2 DEF LoopLedger
  <2>2. \A i \in 1 .. n + 1 : i = n + 1 \/ i \in 1 .. n
    BY LoopLots
  <2> QED BY <1>2, <1>4, <1>5, <2>1, <2>2
<1>7. LoopLedger(u)
  BY <1>5, <1>6, SameLots DEF LoopLedger
<1> QED BY <1>2, <1>5, <1>7 DEF u, x

-----------------------------------------------------------------------------
(* Loops over sequences, by induction on their length *)

\* One turn of the payments: the k-th receivable is paid if it is due.
PayTurn(x, k, date) ==
    IF IsDue(x, PayOrder[k], date) THEN PayOne(x, PayOrder[k], date) ELSE x

\* The recursive function of PaidUpTo exists and satisfies its equation.
LEMMA PaidUpToDef ==
    ASSUME NEW l, NEW date
    PROVE  PaidUpTo(l, date) =
              [k \in 0 .. Len(PayOrder) |->
                 IF k = 0 THEN l ELSE PayTurn(PaidUpTo(l, date)[k-1], k, date)]
<1> DEFINE Body(f, n) == [k \in 0 .. n |-> IF k = 0 THEN l ELSE PayTurn(f[k-1], k, date)]
           T == {n \in Nat : ~\E f : f = Body(f, n)}
<1>1. \E f : f = Body(f, 0)
  <2> DEFINE g == [k \in 0 .. 0 |-> l]
  <2>1. \A k \in 0 .. 0 : k = 0
    OBVIOUS
  <2>2. g = Body(g, 0)
    BY <2>1
  <2> QED BY <2>2
<1>2. ASSUME NEW n \in Nat, NEW f, f = Body(f, n)
      PROVE  \E g : g = Body(g, n + 1)
  <2> DEFINE g == [k \in 0 .. n + 1 |-> IF k = n + 1 THEN PayTurn(f[n], n + 1, date) ELSE f[k]]
             h == Body(g, n + 1)
  <2>1. \A k \in 0 .. n : f[k] = IF k = 0 THEN l ELSE PayTurn(f[k-1], k, date)
    <3> DEFINE b == Body(f, n)
    <3>1. \A k \in 0 .. n : b[k] = IF k = 0 THEN l ELSE PayTurn(f[k-1], k, date)
      OBVIOUS
    <3> HIDE DEF b
    <3> QED BY <1>2, <3>1 DEF b
  <2>2. \A k \in 0 .. n + 1 : g[k] = h[k]
    <3> SUFFICES ASSUME NEW k \in 0 .. n + 1 PROVE g[k] = h[k]
      OBVIOUS
    <3>1. CASE k = n + 1
      <4>1. g[k] = PayTurn(f[n], n + 1, date) /\ g[n] = f[n]
        BY <3>1
      <4>2. h[k] = PayTurn(g[n], n + 1, date)
        BY <3>1
      <4> QED BY <4>1, <4>2
    <3>2. CASE k = 0
      BY <2>1, <3>2
    <3>3. CASE k \in 1 .. n
      <4>1. g[k] = f[k] /\ g[k-1] = f[k-1]
        BY <3>3
      <4>2. h[k] = PayTurn(g[k-1], k, date)
        BY <3>3
      <4> QED BY <2>1, <3>3, <4>1, <4>2
    <3> QED BY <3>1, <3>2, <3>3
  <2>3. g = h
    <3> g = [k \in 0 .. n + 1 |-> g[k]] /\ h = [k \in 0 .. n + 1 |-> h[k]]
      OBVIOUS
    <3> HIDE DEF g, h
    <3> QED BY <2>2
  <2> HIDE DEF g
  <2> QED BY <2>3
<1>3. T = {}
  <2> SUFFICES ASSUME T # {} PROVE FALSE
    OBVIOUS
  <2>1. T \subseteq Nat
    OBVIOUS
  <2>2. PICK m \in T : \A k \in T : m <= k
    <3> HIDE DEF T
    <3> QED BY <2>1, NatMin
  <2>3. m # 0
    BY <1>1, <2>2
  <2>4. m - 1 \in Nat /\ m - 1 \notin T
    <3>1. m \in Nat
      BY <2>2
    <3>2. m - 1 \in Nat /\ ~(m <= m - 1)
      BY <2>3, <3>1
    <3> HIDE DEF T
    <3> QED BY <2>2, <3>2
  <2>5. PICK f : f = Body(f, m - 1)
    BY <2>4
  <2>6. \E g : g = Body(g, m - 1 + 1)
    <3> HIDE DEF Body
    <3> QED BY <1>2, <2>4, <2>5
  <2>7. m - 1 + 1 = m
    BY <2>2
  <2> HIDE DEF Body
  <2> QED BY <2>2, <2>6, <2>7
<1>4. Len(PayOrder) \in Nat
  BY PayOrderAssumption, LenProperties
<1>5. \E f : f = Body(f, Len(PayOrder))
  <2> HIDE DEF Body
  <2> QED BY <1>3, <1>4
<1>6. PaidUpTo(l, date) = CHOOSE f : f = Body(f, Len(PayOrder))
  BY DEF PaidUpTo, PayTurn
<1>7. PaidUpTo(l, date) = Body(PaidUpTo(l, date), Len(PayOrder))
  <2> HIDE DEF Body
  <2> QED BY <1>5, <1>6
<1> QED BY <1>7

\* pay_receivables leaves the lots and the days alone.
LEMMA PaidSame ==
    ASSUME NEW l, LoopLedger(l), NEW date \in Nat
    PROVE  SameHoldings(l, Paid(l, date))
<1> DEFINE f == PaidUpTo(l, date)
           N == Len(PayOrder)
           T == {k \in 0 .. N : ~SameHoldings(l, f[k])}
<1>1. N \in Nat
  BY PayOrderAssumption, LenProperties
<1>2. /\ f[0] = l
      /\ \A k \in 1 .. N : f[k] = PayTurn(f[k-1], k, date)
  BY <1>1, PaidUpToDef
<1>3. SameHoldings(l, l)
  BY DEF SameHoldings
<1>4. ASSUME NEW x, NEW k, SameHoldings(l, x) PROVE SameHoldings(l, PayTurn(x, k, date))
  <2>1. LoopLedger(x)
    BY <1>4 DEF SameHoldings
  <2>2. CASE IsDue(x, PayOrder[k], date)
    <3>1. SameHoldings(x, PayOne(x, PayOrder[k], date))
      BY <2>1, <2>2, PaidOneSame
    <3> QED BY <1>4, <2>2, <3>1 DEF PayTurn, SameHoldings
  <2>3. CASE ~IsDue(x, PayOrder[k], date)
    BY <1>4, <2>3 DEF PayTurn
  <2> QED BY <2>2, <2>3
<1> HIDE DEF f, N
<1>5. T = {}
  <2> SUFFICES ASSUME T # {} PROVE FALSE
    OBVIOUS
  <2>1. T \subseteq Nat
    BY <1>1
  <2>2. PICK m \in T : \A k \in T : m <= k
    <3> HIDE DEF T
    <3> QED BY <2>1, NatMin
  <2>3. m \in 0 .. N /\ ~SameHoldings(l, f[m])
    BY <2>2
  <2>4. m # 0
    BY <1>2, <1>3, <2>3
  <2>5. m \in 1 .. N /\ m - 1 \in 0 .. N /\ ~(m <= m - 1)
    BY <1>1, <2>3, <2>4
  <2>6. SameHoldings(l, f[m-1])
    BY <2>2, <2>5
  <2> QED BY <1>2, <1>4, <2>3, <2>5, <2>6
<1>6. SameHoldings(l, f[N])
  BY <1>1, <1>5
<1> QED BY <1>6 DEF Paid, f, N

\* One turn of Among: the i-th element is taken if it is in the set.
TakeTurn(r, x, S) == IF x \in S THEN Append(r, x) ELSE r
AmongUpTo(s, S) ==
    LET run[i \in 0 .. Len(s)] == IF i = 0 THEN <<>> ELSE TakeTurn(run[i-1], s[i], S)
    IN  run
LEMMA AmongUpToDef ==
    ASSUME NEW s, NEW S, Len(s) \in Nat
    PROVE  AmongUpTo(s, S) =
              [k \in 0 .. Len(s) |->
                 IF k = 0 THEN <<>> ELSE TakeTurn(AmongUpTo(s, S)[k-1], s[k], S)]
<1> DEFINE Body(f, n) == [k \in 0 .. n |-> IF k = 0 THEN <<>> ELSE TakeTurn(f[k-1], s[k], S)]
           T == {n \in Nat : ~\E f : f = Body(f, n)}
<1>1. \E f : f = Body(f, 0)
  <2> DEFINE g == [k \in 0 .. 0 |-> <<>>]
  <2>1. \A k \in 0 .. 0 : k = 0
    OBVIOUS
  <2>2. g = Body(g, 0)
    BY <2>1
  <2> QED BY <2>2
<1>2. ASSUME NEW n \in Nat, NEW f, f = Body(f, n)
      PROVE  \E g : g = Body(g, n + 1)
  <2> DEFINE g == [k \in 0 .. n + 1 |-> IF k = n + 1 THEN TakeTurn(f[n], s[n + 1], S) ELSE f[k]]
             h == Body(g, n + 1)
  <2>1. \A k \in 0 .. n : f[k] = IF k = 0 THEN <<>> ELSE TakeTurn(f[k-1], s[k], S)
    <3> DEFINE b == Body(f, n)
    <3>1. \A k \in 0 .. n : b[k] = IF k = 0 THEN <<>> ELSE TakeTurn(f[k-1], s[k], S)
      OBVIOUS
    <3> HIDE DEF b
    <3> QED BY <1>2, <3>1 DEF b
  <2>2. \A k \in 0 .. n + 1 : g[k] = h[k]
    <3> SUFFICES ASSUME NEW k \in 0 .. n + 1 PROVE g[k] = h[k]
      OBVIOUS
    <3>1. CASE k = n + 1
      <4>1. g[k] = TakeTurn(f[n], s[n + 1], S) /\ g[n] = f[n]
        BY <3>1
      <4>2. h[k] = TakeTurn(g[n], s[n + 1], S)
        BY <3>1
      <4> QED BY <4>1, <4>2
    <3>2. CASE k = 0
      BY <2>1, <3>2
    <3>3. CASE k \in 1 .. n
      <4>1. g[k] = f[k] /\ g[k-1] = f[k-1]
        BY <3>3
      <4>2. h[k] = TakeTurn(g[k-1], s[k], S)
        BY <3>3
      <4> QED BY <2>1, <3>3, <4>1, <4>2
    <3> QED BY <3>1, <3>2, <3>3
  <2>3. g = h
    <3> g = [k \in 0 .. n + 1 |-> g[k]] /\ h = [k \in 0 .. n + 1 |-> h[k]]
      OBVIOUS
    <3> HIDE DEF g, h
    <3> QED BY <2>2
  <2> HIDE DEF g
  <2> QED BY <2>3
<1>3. T = {}
  <2> SUFFICES ASSUME T # {} PROVE FALSE
    OBVIOUS
  <2>1. T \subseteq Nat
    OBVIOUS
  <2>2. PICK m \in T : \A k \in T : m <= k
    <3> HIDE DEF T
    <3> QED BY <2>1, NatMin
  <2>3. m # 0
    BY <1>1, <2>2
  <2>4. m - 1 \in Nat /\ m - 1 \notin T
    <3>1. m \in Nat
      BY <2>2
    <3>2. m - 1 \in Nat /\ ~(m <= m - 1)
      BY <2>3, <3>1
    <3> HIDE DEF T
    <3> QED BY <2>2, <3>2
  <2>5. PICK f : f = Body(f, m - 1)
    BY <2>4
  <2>6. \E g : g = Body(g, m - 1 + 1)
    <3> HIDE DEF Body
    <3> QED BY <1>2, <2>4, <2>5
  <2>7. m - 1 + 1 = m
    BY <2>2
  <2> HIDE DEF Body
  <2> QED BY <2>2, <2>6, <2>7
<1>4. \E f : f = Body(f, Len(s))
  <2> HIDE DEF Body
  <2> QED BY <1>3
<1>5. AmongUpTo(s, S) = CHOOSE f : f = Body(f, Len(s))
  BY DEF AmongUpTo
<1>6. AmongUpTo(s, S) = Body(AmongUpTo(s, S), Len(s))
  <2> HIDE DEF Body
  <2> QED BY <1>4, <1>5
<1> QED BY <1>6

\* The elements of a sequence in the set: each of them once for each of its
\* places, in their order.
PicksAt(r, m, s, n, S) ==
    \E place \in [1 .. m -> 1 .. n] :
        /\ \A i \in 1 .. m : r[i] = s[place[i]] /\ r[i] \in S
        /\ \A i, j \in 1 .. m : i < j => place[i] < place[j]
        /\ \A k \in 1 .. n : s[k] \in S => \E i \in 1 .. m : place[i] = k
Picks(r, s, n, S) == PicksAt(r, Len(r), s, n, S)

LEMMA AmongPicks ==
    ASSUME NEW X, NEW s \in Seq(X), NEW S
    PROVE  /\ Among(s, S) \in Seq(X)
           /\ Picks(Among(s, S), s, Len(s), S)
<1> DEFINE f == AmongUpTo(s, S)
           N == Len(s)
           Good(k) == f[k] \in Seq(X) /\ Picks(f[k], s, k, S)
           T == {k \in 0 .. N : ~Good(k)}
<1>1. N \in Nat /\ \A k \in 1 .. N : s[k] \in X
  BY LenProperties, ElementOfSeq
<1>2. /\ f[0] = <<>>
      /\ \A k \in 1 .. N : f[k] = TakeTurn(f[k-1], s[k], S)
  BY <1>1, AmongUpToDef
<1>3. Good(0)
  <2>1. <<>> \in Seq(X) /\ Len(<<>>) = 0
    OBVIOUS
  <2>2. Picks(<<>>, s, 0, S)
    <3> DEFINE e == [i \in 1 .. 0 |-> 0]
    <3>1. \A i \in 1 .. 0 : FALSE
      OBVIOUS
    <3>2. e \in [1 .. 0 -> 1 .. 0]
      BY <3>1
    <3>3. \E place \in [1 .. 0 -> 1 .. 0] :
             /\ \A i \in 1 .. 0 : <<>>[i] = s[place[i]] /\ <<>>[i] \in S
             /\ \A i, j \in 1 .. 0 : i < j => place[i] < place[j]
             /\ \A k \in 1 .. 0 : s[k] \in S => \E i \in 1 .. 0 : place[i] = k
      BY <3>1, <3>2
    <3>4. PicksAt(<<>>, 0, s, 0, S)
      BY <3>3 DEF PicksAt
    <3> QED BY <2>1, <3>4 DEF Picks
  <2> HIDE DEF f
  <2> QED BY <1>2, <2>1, <2>2
<1> HIDE DEF f
<1>4. ASSUME NEW k \in 1 .. N, Good(k - 1) PROVE Good(k)
  <2> DEFINE r == f[k - 1]
             x == s[k]
             n == Len(r)
  <2>1. PICK place \in [1 .. n -> 1 .. k - 1] :
           /\ \A i \in 1 .. n : r[i] = s[place[i]] /\ r[i] \in S
           /\ \A i, j \in 1 .. n : i < j => place[i] < place[j]
           /\ \A j \in 1 .. k - 1 : s[j] \in S => \E i \in 1 .. n : place[i] = j
    BY <1>4 DEF Picks, PicksAt
  <2>2. r \in Seq(X) /\ n \in Nat /\ x \in X /\ f[k] = TakeTurn(r, x, S) /\ k \in Nat
    BY <1>1, <1>2, <1>4, LenProperties
  <2>3. CASE x \notin S
    <3>1. f[k] = r
      BY <2>2, <2>3 DEF TakeTurn
    <3>2. place \in [1 .. n -> 1 .. k]
      BY <2>1, <2>2
    <3>3. \A j \in 1 .. k : s[j] \in S => \E i \in 1 .. n : place[i] = j
      <4>1. \A j \in 1 .. k : j = k \/ j \in 1 .. k - 1
        BY <2>2
      <4> QED BY <2>1, <2>3, <4>1
    <3> QED BY <2>1, <2>2, <3>1, <3>2, <3>3 DEF Picks, PicksAt
  <2>4. CASE x \in S
    <3> DEFINE a == Append(r, x)
               q == [i \in 1 .. n + 1 |-> IF i = n + 1 THEN k ELSE place[i]]
    <3>1. /\ f[k] = a /\ a \in Seq(X) /\ Len(a) = n + 1
          /\ a[n + 1] = x /\ \A i \in 1 .. n : a[i] = r[i]
      BY <2>2, <2>4, AppendProperties DEF TakeTurn
    <3>2. /\ q \in [1 .. n + 1 -> 1 .. k] /\ q[n + 1] = k
          /\ \A i \in 1 .. n : q[i] = place[i] /\ place[i] \in 1 .. k - 1
      <4> HIDE DEF n
      <4>1. \A i \in 1 .. n : place[i] \in 1 .. k - 1
        BY <2>1
      <4>2. \A i \in 1 .. n + 1 : q[i] = IF i = n + 1 THEN k ELSE place[i]
        OBVIOUS
      <4>3. /\ n \in Nat /\ k \in Nat /\ k \in 1 .. k /\ \A j \in 1 .. k - 1 : j \in 1 .. k
            /\ n + 1 \in 1 .. n + 1
            /\ \A i \in 1 .. n + 1 : i = n + 1 \/ i \in 1 .. n
            /\ \A i \in 1 .. n : i # n + 1 /\ i \in 1 .. n + 1
        <5>1. k \in 1 .. k
          BY <1>1, <1>4
        <5> QED BY <2>2, <5>1
      <4>4. \A i \in 1 .. n + 1 : q[i] \in 1 .. k
        <5> HIDE DEF q
        <5> QED BY <4>1, <4>2, <4>3
      <4>5. q \in [1 .. n + 1 -> 1 .. k]
        BY <4>4
      <4> HIDE DEF q
      <4> QED BY <4>1, <4>2, <4>3, <4>5
    <3> HIDE DEF a, q, r, n, x
    <3>3. \A i \in 1 .. n + 1 : i = n + 1 \/ i \in 1 .. n
      BY <2>2
    <3>4. \A i \in 1 .. n + 1 : a[i] = s[q[i]] /\ a[i] \in S
      BY <2>1, <2>4, <3>1, <3>2, <3>3 DEF x
    <3>5. \A i, j \in 1 .. n + 1 : i < j => q[i] < q[j]
      <4> SUFFICES ASSUME NEW i \in 1 .. n + 1, NEW j \in 1 .. n + 1, i < j PROVE q[i] < q[j]
        OBVIOUS
      <4>1. i \in 1 .. n
        BY <2>2
      <4>2. CASE j = n + 1
        BY <2>2, <3>2, <4>1, <4>2
      <4>3. CASE j \in 1 .. n
        BY <2>1, <3>2, <4>1, <4>3
      <4> QED BY <3>3, <4>2, <4>3
    <3>6. \A j \in 1 .. k : s[j] \in S => \E i \in 1 .. n + 1 : q[i] = j
      <4> SUFFICES ASSUME NEW j \in 1 .. k, s[j] \in S PROVE \E i \in 1 .. n + 1 : q[i] = j
        OBVIOUS
      <4>1. CASE j = k
        BY <2>2, <3>2, <4>1
      <4>2. CASE j # k
        <5>1. j \in 1 .. k - 1
          BY <2>2, <4>2
        <5>2. PICK i \in 1 .. n : place[i] = j
          BY <2>1, <5>1
        <5>3. i \in 1 .. n + 1 /\ q[i] = j
          BY <2>2, <3>2, <5>2
        <5> QED BY <5>3
      <4> QED BY <4>1, <4>2
    <3>7. Picks(a, s, k, S)
      <4>1. \E p \in [1 .. n + 1 -> 1 .. k] :
               /\ \A i \in 1 .. n + 1 : a[i] = s[p[i]] /\ a[i] \in S
               /\ \A i, j \in 1 .. n + 1 : i < j => p[i] < p[j]
               /\ \A j \in 1 .. k : s[j] \in S => \E i \in 1 .. n + 1 : p[i] = j
        BY <3>2, <3>4, <3>5, <3>6
      <4>2. PicksAt(a, n + 1, s, k, S)
        BY <4>1 DEF PicksAt
      <4> QED BY <3>1, <4>2 DEF Picks
    <3> QED BY <3>1, <3>7
  <2> QED BY <2>3, <2>4
<1> HIDE DEF Good, N
<1>5. T = {}
  <2> SUFFICES ASSUME T # {} PROVE FALSE
    OBVIOUS
  <2>1. T \subseteq Nat
    BY <1>1
  <2>2. PICK m \in T : \A k \in T : m <= k
    <3> HIDE DEF T
    <3> QED BY <2>1, NatMin
  <2>3. m \in 0 .. N /\ ~Good(m)
    BY <2>2
  <2>4. m # 0
    BY <1>3, <2>3
  <2>5. m \in 1 .. N /\ m - 1 \in 0 .. N /\ ~(m <= m - 1)
    BY <1>1, <2>3, <2>4
  <2>6. Good(m - 1)
    BY <2>2, <2>5
  <2> QED BY <1>4, <2>3, <2>5, <2>6
<1>6. Good(N)
  BY <1>1, <1>5
<1>7. Among(s, S) = f[N]
  BY DEF Among, f, AmongUpTo, TakeTurn, N
<1> QED BY <1>6, <1>7 DEF Good, N

-----------------------------------------------------------------------------
(* What a rebalance sets out to do *)

\* Plans and bars as the loop makes and reads them.
PlanOK(p) ==
    /\ p.asOf \in Nat /\ DOMAIN p.targets \subseteq Symbols
    /\ \A y \in DOMAIN p.targets : p.targets[y] \in 0 .. 100
QuotesOK(q) ==
    \A y \in Symbols : q[y] # NoBar => q[y].open \in Nat \ {0} /\ q[y].close \in Nat

\* A known target is of whole board lots.
LEMMA TargetIs ==
    ASSUME PlanOK(plan), QuotesOK(quotes), NEW fen \in Nat, NEW y \in DOMAIN plan.targets,
           TargetShares(y, fen) # Unknown
    PROVE  TargetShares(y, fen) \in Nat /\ TargetShares(y, fen) % LotSize = 0
<1>1. plan.targets[y] \in Nat /\ y \in Symbols
  BY DEF PlanOK
<1>2. CASE plan.targets[y] = 0
  BY <1>2 DEF TargetShares, LotSize
<1>3. CASE plan.targets[y] # 0
  <2>1. quotes[y] # NoBar
    BY <1>3 DEF TargetShares
  <2>2. quotes[y].open \in Nat \ {0}
    BY <1>1, <2>1 DEF QuotesOK
  <2> DEFINE a == plan.targets[y] * fen
             b == 10 * quotes[y].open * LotSize
             k == a \div b
  <2>3. TargetShares(y, fen) = LotSize * k
    BY <1>3, <2>1 DEF TargetShares
  <2>4. a \in Nat /\ b \in Nat \ {0}
    <3>1. ASSUME NEW m \in Nat, NEW n \in Nat PROVE m * n \in Nat
      OBVIOUS
    <3>2. a \in Nat
      BY <1>1, <3>1
    <3> QED BY <2>2, <3>2 DEF LotSize
  <2> HIDE DEF a, b
  <2>5. k \in Nat
    BY <2>4
  <2> HIDE DEF k
  <2>6. LotSize * k \in Nat /\ (LotSize * k) % LotSize = 0
    BY <2>5 DEF LotSize
  <2> QED BY <2>3, <2>6
<1> QED BY <1>2, <1>3

\* An attempt still to make; everything left of the lots of a symbol can be sold.
Todo == [side : {"buy", "sell"}, symbol : Symbols, before : Nat, requested : Nat]
AllSellable(l, y, date) ==
    \A k \in LotsOf(l, y) : l.lots[k].remaining > 0 => l.lots[k].available <= date

\* What one side of a rebalance asks for.
AskedOf(side, l, w) ==
    /\ w \in Seq(Todo)
    /\ \A i \in DOMAIN w :
          /\ w[i].side = side /\ w[i].requested > 0 /\ w[i].requested % LotSize = 0
          /\ side = "sell" => w[i].requested <= Realized(l, w[i].symbol)
    /\ \A i, j \in DOMAIN w : i < j => w[i].symbol # w[j].symbol

LEMMA WantingAsks ==
    ASSUME PlanOK(plan), QuotesOK(quotes), NEW fen \in Nat, NEW l, LoopLedger(l),
           NEW side \in {"buy", "sell"}
    PROVE  AskedOf(side, l, Wanting(side, l, fen))
<1> DEFINE delta(y) == TargetShares(y, fen) - Realized(l, y)
           wanted == {y \in DOMAIN plan.targets :
                         /\ TargetShares(y, fen) # Unknown
                         /\ IF side = "sell" THEN delta(y) < 0 ELSE delta(y) > 0}
           asked(y) == [side |-> side, symbol |-> y, before |-> Realized(l, y),
                        requested |-> IF side = "sell" THEN -delta(y) ELSE delta(y)]
           mine == Among(SymbolOrder, wanted)
           w == [i \in DOMAIN mine |-> asked(mine[i])]
<1>1. Wanting(side, l, fen) = w
  BY DEF Wanting
<1>2. ASSUME NEW y \in wanted
      PROVE  /\ asked(y) \in Todo /\ asked(y).side = side /\ asked(y).symbol = y
             /\ asked(y).requested > 0 /\ asked(y).requested % LotSize = 0
             /\ side = "sell" => asked(y).requested <= Realized(l, y)
  <2> DEFINE r == Realized(l, y)
             g == TargetShares(y, fen)
             v == IF side = "sell" THEN -delta(y) ELSE delta(y)
  <2>1. y \in Symbols /\ g \in Nat /\ g % LotSize = 0
    BY <1>2, TargetIs DEF PlanOK
  <2>2. r \in Nat /\ r % LotSize = 0
    BY <2>1, RealizedIsNat DEF LoopLedger
  <2>3. /\ side = "sell" => g - r < 0 /\ v = -(g - r)
        /\ side # "sell" => g - r > 0 /\ v = g - r
    BY <1>2
  <2>4. asked(y) = [side |-> side, symbol |-> y, before |-> r, requested |-> v]
    OBVIOUS
  <2> HIDE DEF r, g, v
  <2>5. /\ v \in Nat /\ v > 0 /\ v % LotSize = 0
        /\ side = "sell" => v <= r
    BY <2>1, <2>2, <2>3 DEF LotSize
  <2> HIDE DEF asked
  <2>6. asked(y) \in Todo
    BY <2>1, <2>2, <2>4, <2>5 DEF Todo
  <2>7. asked(y).side = side /\ asked(y).symbol = y /\ asked(y).requested = v
    BY <2>4
  <2> QED BY <2>5, <2>6, <2>7 DEF r
<1>3. /\ SymbolOrder \in Seq(Symbols) /\ Len(SymbolOrder) \in Nat
      /\ \A i, j \in 1 .. Len(SymbolOrder) : SymbolOrder[i] = SymbolOrder[j] => i = j
  <2>1. SymbolOrder \in Seq(Symbols)
    BY SymbolOrderAssumption
  <2>2. Len(SymbolOrder) \in Nat /\ DOMAIN SymbolOrder = 1 .. Len(SymbolOrder)
    BY <2>1, LenProperties
  <2> QED BY <2>1, <2>2, SymbolOrderAssumption
<1> HIDE DEF wanted
<1>4. mine \in Seq(Symbols) /\ Picks(mine, SymbolOrder, Len(SymbolOrder), wanted)
  BY <1>3, AmongPicks
<1> HIDE DEF mine
<1>5. Len(mine) \in Nat /\ DOMAIN mine = 1 .. Len(mine)
  BY <1>4, LenProperties
<1>6. /\ \A i \in DOMAIN mine : mine[i] \in wanted
      /\ \A i, j \in DOMAIN mine : i < j => mine[i] # mine[j]
  <2>1. PICK place \in [1 .. Len(mine) -> 1 .. Len(SymbolOrder)] :
           /\ \A i \in 1 .. Len(mine) : mine[i] = SymbolOrder[place[i]] /\ mine[i] \in wanted
           /\ \A i, j \in 1 .. Len(mine) : i < j => place[i] < place[j]
    BY <1>4 DEF Picks, PicksAt
  <2>2. \A i \in 1 .. Len(mine) : place[i] \in 1 .. Len(SymbolOrder)
    BY <2>1
  <2>3. ASSUME NEW i \in 1 .. Len(mine), NEW j \in 1 .. Len(mine), i < j
        PROVE  mine[i] # mine[j]
    <3>1. place[i] < place[j] /\ place[i] \in 1 .. Len(SymbolOrder)
          /\ place[j] \in 1 .. Len(SymbolOrder)
      BY <2>1, <2>2, <2>3
    <3>2. place[i] # place[j]
      BY <1>3, <3>1
    <3> QED BY <1>3, <2>1, <3>1, <3>2
  <2> QED BY <1>5, <2>1, <2>3
<1>7. DOMAIN w = DOMAIN mine /\ \A i \in DOMAIN mine : w[i] = asked(mine[i])
  OBVIOUS
<1>8. w \in [1 .. Len(mine) -> Todo]
  <2>1. \A i \in 1 .. Len(mine) : asked(mine[i]) \in Todo
    BY <1>2, <1>5, <1>6
  <2> HIDE DEF asked
  <2> QED BY <1>5, <2>1
<1> HIDE DEF w, asked
<1>9. w \in Seq(Todo)
  BY <1>5, <1>8, SeqDef
<1>10. \A i \in DOMAIN w :
          /\ w[i].side = side /\ w[i].requested > 0 /\ w[i].requested % LotSize = 0
          /\ w[i].symbol = mine[i]
          /\ side = "sell" => w[i].requested <= Realized(l, w[i].symbol)
  BY <1>2, <1>6, <1>7
<1>11. \A i, j \in DOMAIN w : i < j => w[i].symbol # w[j].symbol
  BY <1>6, <1>7, <1>10
<1> QED BY <1>1, <1>9, <1>10, <1>11 DEF AskedOf

\* What is still to do: first the sells, of different symbols and each of what
\* is held and can be sold, then the buys.
TodoOK(l, date, w) ==
    /\ w \in Seq(Todo)
    /\ \A i \in DOMAIN w :
          /\ w[i].requested > 0 /\ w[i].requested % LotSize = 0
          /\ w[i].side = "sell" => /\ w[i].requested <= Realized(l, w[i].symbol)
                                   /\ AllSellable(l, w[i].symbol, date)
    /\ \A i, j \in DOMAIN w : i < j /\ w[j].side = "sell" =>
          w[i].side = "sell" /\ w[i].symbol # w[j].symbol

LEMMA StagedIsTodo ==
    ASSUME PlanOK(plan), QuotesOK(quotes), NEW fen \in Nat, NEW l, LoopLedger(l),
           NEW date, \A y \in Symbols : AllSellable(l, y, date)
    PROVE  TodoOK(l, date, Staged(l, fen))
<1> DEFINE a == Wanting("sell", l, fen)
           b == Wanting("buy", l, fen)
           m == Len(a)
           n == Len(b)
           w == a \o b
<1>1. AskedOf("sell", l, a) /\ AskedOf("buy", l, b)
  BY WantingAsks
<1>2. Staged(l, fen) = w
  BY DEF Staged
<1> HIDE DEF a, b
<1>3. /\ a \in Seq(Todo) /\ b \in Seq(Todo) /\ m \in Nat /\ n \in Nat
      /\ DOMAIN a = 1 .. m /\ DOMAIN b = 1 .. n
  BY <1>1, LenProperties DEF AskedOf
<1>4. /\ w \in Seq(Todo) /\ Len(w) = m + n
      /\ \A i \in 1 .. m + n : w[i] = IF i <= m THEN a[i] ELSE b[i - m]
  BY <1>3, ConcatProperties
<1>5. DOMAIN w = 1 .. m + n
  BY <1>4, LenProperties
<1> HIDE DEF m, n, w
<1>6. ASSUME NEW i \in 1 .. m + n
      PROVE  \/ i \in 1 .. m /\ w[i] = a[i] /\ a[i].side = "sell"
             \/ i - m \in 1 .. n /\ w[i] = b[i - m] /\ b[i - m].side = "buy" /\ ~(i <= m)
  <2>1. CASE i <= m
    <3>1. i \in 1 .. m
      BY <1>3, <2>1
    <3> QED BY <1>1, <1>3, <1>4, <2>1, <3>1 DEF AskedOf
  <2>2. CASE ~(i <= m)
    <3>1. i - m \in 1 .. n
      BY <1>3, <2>2
    <3> QED BY <1>1, <1>3, <1>4, <2>2, <3>1 DEF AskedOf
  <2> QED BY <2>1, <2>2
<1>7. ASSUME NEW i \in 1 .. m + n
      PROVE  /\ w[i].requested > 0 /\ w[i].requested % LotSize = 0
             /\ w[i].side = "sell" => /\ w[i].requested <= Realized(l, w[i].symbol)
                                      /\ AllSellable(l, w[i].symbol, date)
  <2>1. w[i].symbol \in Symbols
    <3>1. w[i] \in Todo
      BY <1>4, <1>5, ElementOfSeq
    <3> QED BY <3>1 DEF Todo
  <2>2. CASE i \in 1 .. m /\ w[i] = a[i]
    <3>1. /\ a[i].requested > 0 /\ a[i].requested % LotSize = 0
          /\ a[i].requested <= Realized(l, a[i].symbol)
      BY <1>1, <1>3, <2>2 DEF AskedOf
    <3> QED BY <2>1, <2>2, <3>1
  <2>3. CASE i - m \in 1 .. n /\ w[i] = b[i - m] /\ b[i - m].side = "buy"
    <3>1. b[i - m].requested > 0 /\ b[i - m].requested % LotSize = 0
      BY <1>1, <1>3, <2>3 DEF AskedOf
    <3> QED BY <2>3, <3>1
  <2> QED BY <1>6, <2>2, <2>3
<1>8. ASSUME NEW i \in 1 .. m + n, NEW j \in 1 .. m + n, i < j, w[j].side = "sell"
      PROVE  w[i].side = "sell" /\ w[i].symbol # w[j].symbol
  <2>1. j \in 1 .. m /\ w[j] = a[j]
    BY <1>6, <1>8
  <2>2. i \in 1 .. m
    BY <1>3, <1>8, <2>1
  <2>3. w[i] = a[i] /\ a[i].side = "sell"
    BY <1>3, <1>6, <2>2
  <2>4. a[i].symbol # a[j].symbol
    BY <1>1, <1>3, <1>8, <2>1, <2>2 DEF AskedOf
  <2> QED BY <2>1, <2>3, <2>4
<1> QED BY <1>2, <1>4, <1>5, <1>7, <1>8 DEF TodoOK

\* An attempt made leaves the others as they are, if all it can change for a
\* sell to come is nothing.
LEMMA TodoRest ==
    ASSUME NEW l, NEW date, NEW w, TodoOK(l, date, w), w # <<>>, NEW u,
           \A y \in Symbols : Head(w).side = "sell" /\ y # Head(w).symbol =>
              /\ Realized(u, y) = Realized(l, y)
              /\ AllSellable(l, y, date) => AllSellable(u, y, date)
    PROVE  TodoOK(u, date, Tail(w))
<1> DEFINE n == Len(w)
           r == Tail(w)
<1>1. w \in Seq(Todo) /\ n \in Nat /\ n # 0 /\ DOMAIN w = 1 .. n
  BY LenProperties, EmptySeq DEF TodoOK
<1>2. /\ Head(w) = w[1] /\ r \in Seq(Todo) /\ Len(r) = n - 1
      /\ \A i \in 1 .. Len(r) : r[i] = w[i + 1]
  BY <1>1, HeadTailProperties
<1>3. DOMAIN r = 1 .. n - 1
  BY <1>2, LenProperties
<1> HIDE DEF r, n
<1>4. \A i \in 1 .. n - 1 : i + 1 \in 1 .. n /\ r[i] = w[i + 1] /\ 1 < i + 1 /\ 1 \in 1 .. n
  BY <1>1, <1>2
<1>5. ASSUME NEW i \in 1 .. n - 1
      PROVE  /\ r[i].requested > 0 /\ r[i].requested % LotSize = 0
             /\ r[i].side = "sell" => /\ r[i].requested <= Realized(u, r[i].symbol)
                                      /\ AllSellable(u, r[i].symbol, date)
  <2>1. /\ r[i].requested > 0 /\ r[i].requested % LotSize = 0
        /\ r[i].side = "sell" => /\ r[i].requested <= Realized(l, r[i].symbol)
                                 /\ AllSellable(l, r[i].symbol, date)
    BY <1>1, <1>4 DEF TodoOK
  <2>2. r[i].side = "sell" => w[1].side = "sell" /\ w[1].symbol # r[i].symbol
    BY <1>1, <1>4 DEF TodoOK
  <2>3. r[i].symbol \in Symbols
    <3>1. r[i] \in Todo
      BY <1>2, <1>3, ElementOfSeq
    <3> QED BY <3>1 DEF Todo
  <2> QED BY <1>2, <2>1, <2>2, <2>3
<1>6. ASSUME NEW i \in 1 .. n - 1, NEW j \in 1 .. n - 1, i < j, r[j].side = "sell"
      PROVE  r[i].side = "sell" /\ r[i].symbol # r[j].symbol
  <2>1. i + 1 < j + 1
    BY <1>1, <1>6
  <2>2. i + 1 \in 1 .. n /\ j + 1 \in 1 .. n /\ w[j + 1].side = "sell"
    BY <1>4, <1>6
  <2>3. w[i + 1].side = "sell" /\ w[i + 1].symbol # w[j + 1].symbol
    BY <1>1, <2>1, <2>2 DEF TodoOK
  <2> QED BY <1>4, <2>3
<1> QED BY <1>2, <1>3, <1>5, <1>6 DEF TodoOK, r

-----------------------------------------------------------------------------
(* What was held on a day *)

\* What is left of the lots of a symbol bought by a date.
LotsBy(l, y, date) == {k \in LotsOf(l, y) : l.lots[k].acquired <= date}
HeldBy(l, y, date) == SizeOf(l.lots, LotsBy(l, y, date))

LEMMA HeldByIsNat ==
    ASSUME NEW l, LoopLedger(l), NEW y, NEW date
    PROVE  HeldBy(l, y, date) \in Nat /\ HeldBy(l, y, date) <= Realized(l, y)
<1>1. LotsBy(l, y, date) \in SUBSET LotsOf(l, y) /\ LotsOf(l, y) \in SUBSET DOMAIN l.lots
  BY DEF LotsBy, LotsOf
<1>2. Sized(l.lots)
  BY LoopLots
<1>3. LotsBy(l, y, date) \in SUBSET DOMAIN l.lots
  BY <1>1
<1>4. SizeOf(l.lots, LotsBy(l, y, date)) \in Nat
  BY <1>2, <1>3, SizesAddUp
<1>5. \A T \in SUBSET LotsOf(l, y) : SizeOf(l.lots, T) <= SizeOf(l.lots, LotsOf(l, y))
  BY <1>1, <1>2, SizesAddUp
<1> QED BY <1>1, <1>4, <1>5 DEF HeldBy, Realized

\* Sums of less are less.
LEMMA SumOfSmaller ==
    ASSUME NEW f, Counts(f), NEW g, Counts(g), DOMAIN f = DOMAIN g,
           \A x \in DOMAIN f : f[x] <= g[x]
    PROVE  SumFunction(f) <= SumFunction(g)
<1> DEFINE h == [x \in DOMAIN f |-> g[x] - f[x]]
<1>1. \A x \in DOMAIN f : f[x] \in Nat /\ g[x] \in Nat
  BY DEF Counts
<1>2. \A x \in DOMAIN f : h[x] \in Nat /\ g[x] = f[x] + h[x]
  BY <1>1
<1>3. DOMAIN h = DOMAIN f
  OBVIOUS
<1> HIDE DEF h
<1>4. Counts(h)
  BY <1>2, <1>3 DEF Counts
<1>5. SumFunction(g) = SumFunction(f) + SumFunction(h)
  BY <1>2, <1>3, <1>4, SumAdds
<1>6. SumFunction(f) \in Nat /\ SumFunction(h) \in Nat
  BY <1>4, SumIsNat
<1> QED BY <1>5, <1>6

LEMMA LeavesLess ==
    ASSUME NEW l, LoopLedger(l), NEW u, NEW q, Leaves(l, u, q), NEW y, NEW date
    PROVE  HeldBy(u, y, date) <= HeldBy(l, y, date)
<1> DEFINE S == LotsBy(l, y, date)
           f == [k \in S |-> u.lots[k].remaining]
           g == [k \in S |-> l.lots[k].remaining]
<1>1. /\ DOMAIN u.lots = DOMAIN l.lots /\ LoopLedger(u)
      /\ \A k \in DOMAIN l.lots :
            /\ u.lots[k].symbol = l.lots[k].symbol /\ u.lots[k].acquired = l.lots[k].acquired
            /\ u.lots[k].remaining <= l.lots[k].remaining
  BY DEF Leaves
<1>2. LotsBy(u, y, date) = S
  BY <1>1 DEF LotsBy, LotsOf
<1>3. S \subseteq DOMAIN l.lots
  BY DEF LotsBy, LotsOf
<1> HIDE DEF S
<1>4. IsFiniteSet(S)
  BY <1>3, LoopLots, FS_Subset DEF Sized
<1>5. \A k \in S : f[k] \in Nat /\ g[k] \in Nat /\ f[k] <= g[k]
  <2>1. \A k \in S : u.lots[k] \in LoopLot /\ l.lots[k] \in LoopLot
    BY <1>1, <1>3, LoopLots
  <2> QED BY <1>1, <1>3, <2>1 DEF LoopLot
<1>6. DOMAIN f = S /\ DOMAIN g = S
  OBVIOUS
<1>7. HeldBy(u, y, date) = SumFunction(f) /\ HeldBy(l, y, date) = SumFunction(g)
  BY <1>2 DEF HeldBy, SizeOf, S
<1> HIDE DEF f, g
<1>8. Counts(f) /\ Counts(g)
  BY <1>4, <1>5, <1>6 DEF Counts
<1>9. SumFunction(f) <= SumFunction(g)
  BY <1>5, <1>6, <1>8, SumOfSmaller
<1> QED BY <1>7, <1>9

LEMMA AddsLater ==
    ASSUME NEW l, LoopLedger(l), NEW u, NEW lot, Adds(l, u, lot), NEW y, NEW date,
           ~(lot.acquired <= date)
    PROVE  HeldBy(u, y, date) = HeldBy(l, y, date)
<1> DEFINE n == Len(l.lots)
           S == LotsBy(l, y, date)
<1>1. n \in Nat /\ DOMAIN l.lots = 1 .. n
  BY LoopLots
<1>2. /\ DOMAIN u.lots = 1 .. n + 1 /\ u.lots[n + 1] = lot
      /\ \A k \in DOMAIN l.lots : u.lots[k] = l.lots[k]
  BY DEF Adds
<1> HIDE DEF n
<1>3. DOMAIN u.lots = DOMAIN l.lots \cup {n + 1}
  BY <1>1, <1>2
<1>4. LotsBy(u, y, date) = S
  BY <1>2, <1>3 DEF LotsBy, LotsOf
<1>5. \A k \in S : u.lots[k] = l.lots[k]
  BY <1>2 DEF LotsBy, LotsOf
<1> HIDE DEF S
<1>6. SizeOf(u.lots, S) = SizeOf(l.lots, S)
  BY <1>5, SizeStands
<1> QED BY <1>4, <1>6 DEF HeldBy, S

LEMMA SameHeld ==
    ASSUME NEW l, NEW u, u.lots = l.lots, NEW y, NEW date
    PROVE  HeldBy(u, y, date) = HeldBy(l, y, date)
BY DEF HeldBy, LotsBy, LotsOf

\* Every lot was bought on one of the sessions of the path, up to the date.
LotsDated(l, date) ==
    \A k \in DOMAIN l.lots :
        /\ l.lots[k].acquired \in Calendar
        /\ FirstSession <= l.lots[k].acquired /\ l.lots[k].acquired <= date

LEMMA LeavesDated ==
    ASSUME NEW l, NEW u, NEW q, Leaves(l, u, q), NEW date, LotsDated(l, date)
    PROVE  LotsDated(u, date)
BY DEF Leaves, LotsDated

LEMMA AddsDated ==
    ASSUME NEW l, LoopLedger(l), NEW u, NEW lot, Adds(l, u, lot), NEW date \in Calendar,
           lot.acquired = date, FirstSession <= date, LotsDated(l, date)
    PROVE  LotsDated(u, date)
<1>1. Len(l.lots) \in Nat /\ DOMAIN l.lots = 1 .. Len(l.lots)
  BY LoopLots
<1>2. \A k \in 1 .. Len(l.lots) + 1 : k = Len(l.lots) + 1 \/ k \in DOMAIN l.lots
  BY <1>1
<1>3. date <= date
  BY CalendarAssumption
<1> QED BY <1>2, <1>3 DEF Adds, LotsDated

\* On a later date, everything held was bought by it.
LEMMA AllHeld ==
    ASSUME NEW l, LoopLedger(l), NEW date \in Nat, LotsDated(l, date), NEW later \in Nat,
           date <= later, NEW y
    PROVE  HeldBy(l, y, later) = Realized(l, y)
<1>1. \A k \in DOMAIN l.lots : l.lots[k].acquired <= later
  <2>1. \A k \in DOMAIN l.lots : l.lots[k].acquired \in Nat /\ l.lots[k].acquired <= date
    BY LoopLots DEF LoopLot, LotsDated
  <2> QED BY <2>1
<1>2. LotsBy(l, y, later) = LotsOf(l, y)
  BY <1>1 DEF LotsBy, LotsOf
<1> QED BY <1>2 DEF HeldBy, Realized

-----------------------------------------------------------------------------
(* The days closed *)

TotalOn(s, y) == IF y \in DOMAIN s.valuations THEN s.valuations[y].total ELSE 0

\* The closes are of sessions, in order, and say of no symbol less than what is
\* still left of what was held.
DaysOK(l) ==
    /\ \A i \in DOMAIN l.snapshots :
          /\ l.snapshots[i].date \in Calendar
          /\ \A y \in Symbols : /\ TotalOn(l.snapshots[i], y) \in Nat
                                /\ HeldBy(l, y, l.snapshots[i].date) <= TotalOn(l.snapshots[i], y)
    /\ \A i, j \in DOMAIN l.snapshots :
          i < j => l.snapshots[i].date < l.snapshots[j].date

\* Every session so far has its close.
ClosedBefore(l, date) ==
    /\ \A s \in Calendar : FirstSession <= s /\ s < date =>
          \E i \in DOMAIN l.snapshots : l.snapshots[i].date = s
    /\ \A i \in DOMAIN l.snapshots : l.snapshots[i].date < date
ClosedThrough(l, date) ==
    /\ \A s \in Calendar : FirstSession <= s /\ s <= date =>
          \E i \in DOMAIN l.snapshots : l.snapshots[i].date = s
    /\ \A i \in DOMAIN l.snapshots : l.snapshots[i].date <= date
    /\ \A y \in Symbols : l.snapshots # <<>> =>
          TotalOn(l.snapshots[Len(l.snapshots)], y) = Realized(l, y)

\* A ledger with the same days that holds no more of what was held.
NoMore(l, u) ==
    /\ LoopLedger(u) /\ u.snapshots = l.snapshots
    /\ \A i \in DOMAIN l.snapshots : \A y \in Symbols :
          HeldBy(u, y, l.snapshots[i].date) <= HeldBy(l, y, l.snapshots[i].date)

LEMMA DaysStand ==
    ASSUME NEW l, LoopLedger(l), DaysOK(l), NEW u, NoMore(l, u)
    PROVE  DaysOK(u)
<1>1. ASSUME NEW i \in DOMAIN l.snapshots, NEW y \in Symbols
      PROVE  HeldBy(u, y, l.snapshots[i].date) <= TotalOn(l.snapshots[i], y)
  <2>1. LoopLedger(u)
    BY DEF NoMore
  <2>2. /\ HeldBy(u, y, l.snapshots[i].date) <= HeldBy(l, y, l.snapshots[i].date)
        /\ HeldBy(l, y, l.snapshots[i].date) <= TotalOn(l.snapshots[i], y)
        /\ TotalOn(l.snapshots[i], y) \in Nat
    BY DEF NoMore, DaysOK
  <2>3. HeldBy(u, y, l.snapshots[i].date) \in Nat /\ HeldBy(l, y, l.snapshots[i].date) \in Nat
    BY <2>1, HeldByIsNat
  <2> QED BY <2>2, <2>3
<1> QED BY <1>1 DEF DaysOK, NoMore

\* Shares of a symbol entitled on the open of a session are those of the close
\* of the record date.
EntitledFrom(l, y, record, n, onNext) ==
    LET upTo == {i \in DOMAIN l.snapshots : l.snapshots[i].date <= record}
        held == IF upTo = {} \/ y \notin DOMAIN l.snapshots[Max(upTo)].valuations
                THEN 0 ELSE l.snapshots[Max(upTo)].valuations[y].total
    IN  n <= held /\ (onNext => n = held)

LEMMA HeldOnRecordDate ==
    ASSUME NEW l, LoopLedger(l), NEW today \in Calendar \cup {NoDate}, today \in Nat,
           LotsDated(l, today), DaysOK(l), ClosedThrough(l, today),
           NEW y \in Symbols, NEW record \in Nat, NEW ex \in Calendar, today < ex,
           record < ex
    PROVE  EntitledFrom(l, y, record, HeldBy(l, y, record), NextSession(record) = ex)
<1> DEFINE N == Len(l.snapshots)
           upTo == {i \in DOMAIN l.snapshots : l.snapshots[i].date <= record}
           m == Max(upTo)
<1>1. N \in Nat /\ DOMAIN l.snapshots = 1 .. N /\ (l.snapshots = <<>> <=> N = 0)
  BY LoopLots
<1>2. \A i \in 1 .. N : l.snapshots[i].date \in Calendar /\ l.snapshots[i].date \in Nat
                        /\ l.snapshots[i].date <= today
  BY <1>1, CalendarAssumption DEF DaysOK, ClosedThrough
<1>3. \A k \in DOMAIN l.lots : /\ l.lots[k].acquired \in Nat /\ l.lots[k].acquired \in Calendar
                               /\ FirstSession <= l.lots[k].acquired
                               /\ l.lots[k].acquired <= today
                               /\ \E i \in 1 .. N : l.snapshots[i].date = l.lots[k].acquired
  BY <1>1, CalendarAssumption DEF LotsDated, ClosedThrough
<1>4. CASE upTo = {}
  <2>1. LotsBy(l, y, record) = {}
    <3> SUFFICES ASSUME NEW k \in LotsBy(l, y, record) PROVE FALSE
      OBVIOUS
    <3>1. k \in DOMAIN l.lots /\ l.lots[k].acquired <= record
      BY DEF LotsBy, LotsOf
    <3>2. PICK i \in 1 .. N : l.snapshots[i].date = l.lots[k].acquired
      BY <1>3, <3>1
    <3>3. i \in upTo
      BY <1>1, <3>1, <3>2
    <3> QED BY <1>4, <3>3
  <2>2. HeldBy(l, y, record) = 0
    <3>1. [i \in {} |-> l.lots[i].remaining] = [x \in {} |-> 0]
      OBVIOUS
    <3> QED BY <2>1, <3>1, SumOfNothing DEF HeldBy, SizeOf
  <2> QED BY <1>4, <2>2 DEF EntitledFrom
<1>5. CASE upTo # {}
  <2>1. upTo \subseteq 1 .. N /\ upTo \subseteq Nat /\ IsFiniteSet(upTo)
    <3>1. upTo \subseteq 1 .. N
      BY <1>1
    <3>2. IsFiniteSet(1 .. N) /\ 1 .. N \subseteq Nat
      BY <1>1, PrefixFinite
    <3> HIDE DEF upTo, N
    <3> QED BY <3>1, <3>2, FS_Subset
  <2>2. m \in upTo /\ \A k \in upTo : k <= m
    <3> HIDE DEF upTo
    <3> QED BY <1>5, <2>1, FiniteMax
  <2> DEFINE held == TotalOn(l.snapshots[m], y)
             date == l.snapshots[m].date
  <2>3. m \in 1 .. N /\ date \in Nat /\ date <= record
    BY <1>1, <1>2, <2>2
  <2>4. \A k \in DOMAIN l.lots : l.lots[k].acquired <= record <=> l.lots[k].acquired <= date
    <3> SUFFICES ASSUME NEW k \in DOMAIN l.lots
                 PROVE  l.lots[k].acquired <= record <=> l.lots[k].acquired <= date
      OBVIOUS
    <3>1. l.lots[k].acquired \in Nat
      BY <1>3
    <3>2. l.lots[k].acquired <= date => l.lots[k].acquired <= record
      BY <2>3, <3>1
    <3>3. ASSUME l.lots[k].acquired <= record PROVE l.lots[k].acquired <= date
      <4>1. PICK i \in 1 .. N : l.snapshots[i].date = l.lots[k].acquired
        BY <1>3
      <4>2. i \in upTo
        BY <1>1, <3>3, <4>1
      <4>3. i <= m
        BY <2>2, <4>2
      <4>4. i < m => l.snapshots[i].date < date
        BY <1>1, <2>3 DEF DaysOK
      <4> HIDE DEF date, m
      <4>5. i = m \/ i < m
        BY <2>1, <2>2, <4>2, <4>3
      <4>6. CASE i = m
        BY <2>3, <4>1, <4>6 DEF date
      <4>7. CASE i < m
        BY <2>3, <3>1, <4>1, <4>4, <4>7
      <4> QED BY <4>5, <4>6, <4>7
    <3> QED BY <3>2, <3>3
  <2>5. HeldBy(l, y, record) = HeldBy(l, y, date)
    <3>1. LotsBy(l, y, record) = LotsBy(l, y, date)
      <4> HIDE DEF date
      <4> QED BY <2>4 DEF LotsBy, LotsOf
    <3> QED BY <3>1 DEF HeldBy
  <2>6. HeldBy(l, y, date) <= held
    BY <1>1, <2>3 DEF DaysOK
  <2>7. ASSUME NextSession(record) = ex PROVE HeldBy(l, y, record) = held
    <3>1. today <= record
      <4>1. CASE today = NoDate
        BY <4>1 DEF NoDate
      <4>2. CASE today \in Calendar
        <5>1. ex # NoDate
          BY CalendarAssumption DEF NoDate
        <5>2. \A s \in Calendar : record < s => ex <= s
          BY <2>7, <5>1, NextSessionIs
        <5>3. ~(record < today)
          <6>1. ex \in Nat /\ ~(ex <= today)
            BY CalendarAssumption
          <6> QED BY <4>2, <5>2, <6>1
        <5> QED BY <5>3
      <4> QED BY <4>1, <4>2
    <3>2. N \in 1 .. N /\ N \in upTo
      <4>1. N \in 1 .. N
        <5> HIDE DEF m
        <5> QED BY <1>1, <2>3
      <4>2. l.snapshots[N].date <= record
        BY <1>2, <3>1, <4>1
      <4> QED BY <1>1, <4>1, <4>2
    <3>3. m = N
      <4>1. N <= m
        BY <2>2, <3>2
      <4> HIDE DEF m
      <4> QED BY <1>1, <2>3, <4>1
    <3>4. held = Realized(l, y)
      <4>1. l.snapshots # <<>>
        BY <1>1, <3>2
      <4> HIDE DEF m
      <4> QED BY <3>3, <4>1 DEF ClosedThrough
    <3>5. HeldBy(l, y, record) = Realized(l, y)
      BY <3>1, AllHeld
    <3> QED BY <3>4, <3>5
  <2>8. HeldBy(l, y, record) <= held /\ (NextSession(record) = ex => HeldBy(l, y, record) = held)
    BY <2>5, <2>6, <2>7
  <2> QED BY <1>5, <2>8 DEF EntitledFrom, TotalOn
<1> QED BY <1>4, <1>5

\* What is said of a past record date stays true when days are closed after it.
LEMMA EntitledStands ==
    ASSUME NEW l, LoopLedger(l), NEW u, NEW y, NEW record, NEW n, NEW onNext,
           EntitledFrom(l, y, record, n, onNext),
           \/ u.snapshots = l.snapshots
           \/ /\ DOMAIN u.snapshots = DOMAIN l.snapshots \cup {Len(l.snapshots) + 1}
              /\ \A i \in DOMAIN l.snapshots : u.snapshots[i] = l.snapshots[i]
              /\ ~(u.snapshots[Len(l.snapshots) + 1].date <= record)
    PROVE  EntitledFrom(u, y, record, n, onNext)
<1> DEFINE upTo == {i \in DOMAIN l.snapshots : l.snapshots[i].date <= record}
           now == {i \in DOMAIN u.snapshots : u.snapshots[i].date <= record}
<1>1. now = upTo /\ \A i \in upTo : u.snapshots[i] = l.snapshots[i]
  OBVIOUS
<1> DEFINE m == Max(upTo)
<1>2. upTo # {} => m \in upTo
  <2>1. /\ Len(l.snapshots) \in Nat /\ upTo \subseteq 1 .. Len(l.snapshots)
        /\ IsFiniteSet(1 .. Len(l.snapshots)) /\ 1 .. Len(l.snapshots) \subseteq Nat
    BY LoopLots, PrefixFinite
  <2> HIDE DEF upTo
  <2> QED BY <2>1, FS_Subset, FiniteMax
<1>3. upTo # {} => u.snapshots[m] = l.snapshots[m]
  BY <1>1, <1>2
<1> HIDE DEF m
<1>4. CASE upTo = {}
  BY <1>1, <1>4 DEF EntitledFrom
<1>5. CASE upTo # {}
  <2> DEFINE held(x) == IF y \notin DOMAIN x.valuations THEN 0 ELSE x.valuations[y].total
  <2>1. n <= held(l.snapshots[m]) /\ (onNext => n = held(l.snapshots[m]))
    BY <1>5 DEF EntitledFrom, m
  <2>2. n <= held(u.snapshots[m]) /\ (onNext => n = held(u.snapshots[m]))
    BY <1>3, <1>5, <2>1
  <2>3. now # {} /\ m = Max(now)
    BY <1>1, <1>5 DEF m
  <2> QED BY <2>2, <2>3 DEF EntitledFrom
<1> QED BY <1>4, <1>5

LEMMA DayCloses ==
    ASSUME NEW l, LoopLedger(l), DaysOK(l), NEW date \in Calendar, FirstSession <= date,
           ClosedBefore(l, date), LotsDated(l, date),
           NEW v, DOMAIN v = Held(l),
           \A y \in Held(l) : v[y].total = Realized(l, y) /\ v[y].mark \in Nat
    PROVE  LET u == ClosedWith(l, date, v)
           IN  /\ LoopLedger(u) /\ DaysOK(u) /\ ClosedThrough(u, date) /\ u.lots = l.lots
               /\ DOMAIN u.snapshots = DOMAIN l.snapshots \cup {Len(l.snapshots) + 1}
               /\ u.snapshots[Len(l.snapshots) + 1].date = date
               /\ \A i \in DOMAIN l.snapshots : u.snapshots[i] = l.snapshots[i]
<1> DEFINE u == ClosedWith(l, date, v)
           n == Len(l.snapshots)
           x == Snapshot(l, date, v)
<1>1. date \in Nat /\ DOMAIN v \subseteq Symbols
      /\ \A y \in DOMAIN v : v[y].mark \in Nat /\ v[y].total \in Nat
  BY CalendarAssumption, RealizedIsNat DEF Held
<1>2. /\ LoopLedger(u) /\ u.lots = l.lots
      /\ DOMAIN u.snapshots = 1 .. n + 1 /\ Len(u.snapshots) = n + 1
      /\ u.snapshots[n + 1] = x
      /\ \A i \in DOMAIN l.snapshots : u.snapshots[i] = l.snapshots[i]
  BY <1>1, ClosedAdds
<1>3. x.date = date /\ x.valuations = v
  BY DEF Snapshot
<1> HIDE DEF u, x
<1>4. n \in Nat /\ DOMAIN l.snapshots = 1 .. n
  BY LoopLots
<1>5. \A y \in Symbols : /\ TotalOn(x, y) = Realized(l, y) /\ TotalOn(x, y) \in Nat
                         /\ Realized(u, y) = Realized(l, y)
  <2> SUFFICES ASSUME NEW y \in Symbols
               PROVE  /\ TotalOn(x, y) = Realized(l, y) /\ TotalOn(x, y) \in Nat
                      /\ Realized(u, y) = Realized(l, y)
    OBVIOUS
  <2>1. Realized(l, y) \in Nat
    BY RealizedIsNat
  <2>2. y \notin Held(l) => Realized(l, y) = 0
    BY <2>1 DEF Held
  <2>3. TotalOn(x, y) = Realized(l, y)
    BY <1>3, <2>2 DEF TotalOn
  <2> QED BY <1>2, <2>1, <2>3, SameLots
<1>6. \A i \in 1 .. n + 1 : i = n + 1 \/ i \in DOMAIN l.snapshots
  BY <1>4
<1>7. \A y, d : HeldBy(u, y, d) = HeldBy(l, y, d)
  BY <1>2, SameHeld
<1>8. \A y \in Symbols : HeldBy(l, y, date) <= Realized(l, y)
  BY HeldByIsNat
<1>9. \A i \in DOMAIN l.snapshots : l.snapshots[i].date < date
  BY DEF ClosedBefore
<1>10. DaysOK(u)
  <2>1. ASSUME NEW i \in 1 .. n + 1
        PROVE  /\ u.snapshots[i].date \in Calendar
               /\ \A y \in Symbols :
                     /\ TotalOn(u.snapshots[i], y) \in Nat
                     /\ HeldBy(u, y, u.snapshots[i].date) <= TotalOn(u.snapshots[i], y)
    <3>1. CASE i = n + 1
      BY <1>2, <1>3, <1>5, <1>7, <1>8, <3>1
    <3>2. CASE i \in DOMAIN l.snapshots
      BY <1>2, <1>7, <3>2 DEF DaysOK
    <3> QED BY <1>6, <3>1, <3>2
  <2>2. ASSUME NEW i \in 1 .. n + 1, NEW j \in 1 .. n + 1, i < j
        PROVE  u.snapshots[i].date < u.snapshots[j].date
    <3>1. i \in DOMAIN l.snapshots /\ u.snapshots[i] = l.snapshots[i]
      BY <1>2, <1>4, <2>2
    <3>2. CASE j = n + 1
      BY <1>2, <1>3, <1>9, <3>1, <3>2
    <3>3. CASE j \in DOMAIN l.snapshots
      BY <1>2, <2>2, <3>1, <3>3 DEF DaysOK
    <3> QED BY <1>6, <3>2, <3>3
  <2> QED BY <1>2, <2>1, <2>2 DEF DaysOK
<1>11. ClosedThrough(u, date)
  <2>1. ASSUME NEW s \in Calendar, FirstSession <= s, s <= date
        PROVE  \E i \in DOMAIN u.snapshots : u.snapshots[i].date = s
    <3>1. CASE s = date
      <4>1. n + 1 \in DOMAIN u.snapshots
        BY <1>2, <1>4
      <4> QED BY <1>2, <1>3, <3>1, <4>1
    <3>2. CASE s < date
      <4>1. PICK i \in DOMAIN l.snapshots : l.snapshots[i].date = s
        BY <2>1, <3>2 DEF ClosedBefore
      <4>2. i \in DOMAIN u.snapshots
        BY <1>2, <1>4
      <4> QED BY <1>2, <4>1, <4>2
    <3>3. s = date \/ s < date
      <4>1. s \in Nat
        BY CalendarAssumption
      <4> QED BY <1>1, <2>1, <4>1
    <3> QED BY <3>1, <3>2, <3>3
  <2>2. ASSUME NEW i \in DOMAIN u.snapshots PROVE u.snapshots[i].date <= date
    <3>1. CASE i = n + 1
      BY <1>1, <1>2, <1>3, <3>1
    <3>2. CASE i \in DOMAIN l.snapshots
      <4>1. l.snapshots[i].date < date /\ l.snapshots[i].date \in Nat
        BY <1>9, <3>2, CalendarAssumption DEF DaysOK
      <4> QED BY <1>1, <1>2, <3>2, <4>1
    <3> QED BY <1>2, <1>6, <3>1, <3>2
  <2>3. \A y \in Symbols : TotalOn(u.snapshots[Len(u.snapshots)], y) = Realized(u, y)
    BY <1>2, <1>5
  <2> QED BY <2>1, <2>2, <2>3 DEF ClosedThrough
<1>12. DOMAIN u.snapshots = DOMAIN l.snapshots \cup {n + 1}
  BY <1>2, <1>4
<1> QED BY <1>2, <1>3, <1>10, <1>11, <1>12 DEF u

LEMMA DayOpens ==
    ASSUME NEW l, DaysOK(l), NEW today \in Calendar \cup {NoDate}, ClosedThrough(l, today),
           NEW next \in Calendar, today < next,
           \A s \in Calendar : today < s /\ FirstSession <= s => next <= s
    PROVE  ClosedBefore(l, next)
<1>1. today \in Nat /\ next \in Nat /\ \A s \in Calendar : s \in Nat
  BY CalendarAssumption DEF NoDate
<1>2. ASSUME NEW s \in Calendar, FirstSession <= s, s < next
      PROVE  \E i \in DOMAIN l.snapshots : l.snapshots[i].date = s
  <2>1. s <= today
    BY <1>1, <1>2
  <2> QED BY <1>2, <2>1 DEF ClosedThrough
<1>3. ASSUME NEW i \in DOMAIN l.snapshots PROVE l.snapshots[i].date < next
  <2>1. l.snapshots[i].date \in Nat /\ l.snapshots[i].date <= today
    BY <1>1 DEF DaysOK, ClosedThrough
  <2> QED BY <1>1, <2>1
<1> QED BY <1>2, <1>3 DEF ClosedBefore

-----------------------------------------------------------------------------
(* One attempt *)

\* All that is held of the symbol can be sold on the date.
LEMMA AllCanGo ==
    ASSUME NEW l, LoopLedger(l), NEW y, NEW date, AllSellable(l, y, date)
    PROVE  SizeOf(l.lots, SellableLots(l, y, date)) = Realized(l, y)
<1> DEFINE H == LotsOf(l, y)
           G == SellableLots(l, y, date)
           f == [k \in H |-> l.lots[k].remaining]
<1>1. G \in SUBSET H /\ H \in SUBSET DOMAIN l.lots
  BY DEF SellableLots, LotsOf
<1>2. \A k \in H : k \in DOMAIN l.lots /\ f[k] \in Nat
  <2>1. \A k \in H : l.lots[k] \in LoopLot
    BY <1>1, LoopLots
  <2> QED BY <1>1, <2>1 DEF LoopLot
<1>3. IsFiniteSet(H)
  BY <1>1, LoopLots, FS_Subset DEF Sized
<1>4. \A k \in H \ G : f[k] = 0
  <2> SUFFICES ASSUME NEW k \in H, k \notin G PROVE f[k] = 0
    OBVIOUS
  <2>1. ~(l.lots[k].available <= date)
    BY DEF SellableLots
  <2>2. ~(l.lots[k].remaining > 0)
    BY <2>1 DEF AllSellable
  <2>3. f[k] = l.lots[k].remaining
    OBVIOUS
  <2> HIDE DEF f, H, G
  <2> QED BY <1>2, <2>2, <2>3
<1>5. [k \in G |-> f[k]] = [k \in G |-> l.lots[k].remaining]
  BY <1>1
<1>6. DOMAIN f = H
  OBVIOUS
<1>7. Realized(l, y) = SumFunction(f)
  BY DEF Realized, SizeOf
<1>8. SizeOf(l.lots, G) = SumFunction([k \in G |-> f[k]])
  BY <1>5 DEF SizeOf
<1> HIDE DEF f, H, G
<1>9. Counts(f)
  BY <1>2, <1>3, <1>6 DEF Counts
<1>10. SumFunction(f) = SumFunction([k \in G |-> f[k]])
  BY <1>1, <1>4, <1>6, <1>9, SumSkipsZeros
<1> QED BY <1>7, <1>8, <1>10 DEF G

\* A sell is sized at what is asked.
LEMMA SellGoesWhole ==
    ASSUME LoopLedger(ledger), NEW t \in Todo, t.requested > 0, t.requested % LotSize = 0,
           t.requested <= Realized(ledger, t.symbol), AllSellable(ledger, t.symbol, session)
    PROVE  SellSize(t) = t.requested
<1> DEFINE r == Realized(ledger, t.symbol)
           n == t.requested
<1>1. SizeOf(ledger.lots, SellableLots(ledger, t.symbol, session)) = r
  BY AllCanGo
<1>2. r \in Nat /\ n \in Nat /\ n > 0 /\ n <= r
  BY RealizedIsNat DEF Todo
<1>3. Min({n, r}) = n
  <2>1. {n, r} \subseteq Nat /\ {n, r} # {}
    BY <1>2
  <2>2. Min({n, r}) \in {n, r} /\ \A k \in {n, r} : Min({n, r}) <= k
    BY <2>1, MinIs
  <2> DEFINE m == Min({n, r})
  <2>3. (m = n \/ m = r) /\ m <= n
    BY <2>2
  <2> HIDE DEF m, n, r
  <2>4. m = n
    BY <1>2, <2>3
  <2> QED BY <2>4 DEF m
<1>4. ValidSellSize(r, n)
  BY <1>2 DEF ValidSellSize
<1> QED BY <1>1, <1>3, <1>4 DEF SellSize

\* What one buy costs at the open.
Cost(y, date, price, size) ==
    NotionalFen(price, size) + TotalFees(y, "buy", date, price, size)

\* A buy is sized at the most that is not too dear, and nothing else is wrong
\* with a smaller one.
LEMMA BuyGoesFar ==
    ASSUME NEW t \in Todo, t.side = "buy", t.requested > 0, t.requested % LotSize = 0,
           session = NextSession(plan.asOf)
    PROVE  LET size == BuySize(t)
           IN  /\ size \in Nat /\ size % LotSize = 0 /\ size <= t.requested
               /\ size = 0 => Decision(t, LotSize) = "insufficient_cash"
               /\ size # 0 => Decision(t, size) # "insufficient_cash"
               /\ size < t.requested =>
                     ledger.cash < Cost(t.symbol, session, quotes[t.symbol].open, size + LotSize)
<1> DEFINE size == BuySize(t)
           n == t.requested \div LotSize
           sizes == {k * LotSize : k \in 1 .. n}
           open == {s \in sizes : Decision(t, s) # "insufficient_cash"}
<1>1. t.requested \in Nat /\ n \in Nat /\ n > 0 /\ t.requested = n * LotSize
  <2> DEFINE r == t.requested
  <2>1. r \in Nat /\ r > 0 /\ r % 100 = 0
    BY DEF Todo, LotSize
  <2> HIDE DEF r
  <2>2. r \div 100 \in Nat /\ r \div 100 > 0 /\ r = (r \div 100) * 100
    BY <2>1
  <2> QED BY <2>1, <2>2 DEF r, LotSize
<1>2. size = IF open = {} THEN 0 ELSE Max(open)
  BY DEF BuySize
<1> HIDE DEF n, size
<1>3. ASSUME NEW s \in sizes, Decision(t, s) = "insufficient_cash"
      PROVE  ledger.cash < Cost(t.symbol, session, quotes[t.symbol].open, s)
  <2> DEFINE o == Order(t, s)
  <2>1. /\ o.side = "buy" /\ o.symbol = t.symbol /\ o.cash = ledger.cash
        /\ o.open = quotes[t.symbol].open /\ o.size = s /\ o.signal = plan.asOf
    BY DEF Order
  <2>2. EvaluateOrder(o) = "insufficient_cash"
    BY <1>3 DEF Decision
  <2> HIDE DEF o
  <2> QED BY <2>1, <2>2, DearBuy DEF Cost
<1>4. \A k \in 1 .. n : k * LotSize \in sizes /\ k * LotSize \in Nat
  BY <1>1 DEF LotSize
<1>5. \A s \in sizes : \E k \in 1 .. n : s = k * LotSize
  OBVIOUS
<1>6. CASE open = {}
  <2>1. size = 0 /\ 1 \in 1 .. n
    BY <1>1, <1>2, <1>6
  <2>2. 0 + LotSize \in sizes /\ 0 + LotSize = LotSize
    <3>1. 1 * LotSize \in sizes
      BY <1>4, <2>1
    <3> HIDE DEF sizes
    <3> QED BY <3>1 DEF LotSize
  <2>3. Decision(t, LotSize) = "insufficient_cash"
    BY <1>6, <2>2
  <2>4. ledger.cash < Cost(t.symbol, session, quotes[t.symbol].open, 0 + LotSize)
    BY <1>3, <2>2, <2>3
  <2>5. size \in Nat /\ size % LotSize = 0 /\ size <= t.requested
    BY <1>1, <2>1 DEF LotSize
  <2> QED BY <2>1, <2>3, <2>4, <2>5 DEF size
<1>7. CASE open # {}
  <2>1. open \subseteq Nat /\ IsFiniteSet(open)
    <3>1. open \subseteq sizes
      OBVIOUS
    <3>2. sizes \subseteq 0 .. t.requested
      <4> SUFFICES ASSUME NEW s \in sizes PROVE s \in 0 .. t.requested
        OBVIOUS
      <4>1. PICK k \in 1 .. n : s = k * LotSize
        BY <1>5
      <4> QED BY <1>1, <4>1 DEF LotSize
    <3>3. IsFiniteSet(0 .. t.requested) /\ 0 .. t.requested \subseteq Nat
      <4> DEFINE R == 1 .. t.requested
      <4>1. 0 .. t.requested = R \cup {0} /\ 0 .. t.requested \subseteq Nat
        BY <1>1
      <4>2. IsFiniteSet(R)
        BY <1>1, PrefixFinite
      <4> HIDE DEF R
      <4>3. IsFiniteSet(R \cup {0})
        BY <4>2, FS_AddElement
      <4> QED BY <4>1, <4>3
    <3> HIDE DEF open, sizes
    <3> QED BY <3>1, <3>2, <3>3, FS_Subset
  <2>2. size \in open /\ \A s \in open : s <= size
    <3> HIDE DEF open
    <3> QED BY <1>2, <1>7, <2>1, FiniteMax
  <2>3. PICK k \in 1 .. n : size = k * LotSize
    BY <1>5, <2>2
  <2>4. /\ size \in Nat /\ size % LotSize = 0 /\ size <= t.requested /\ size # 0
        /\ size + LotSize = (k + 1) * LotSize
        /\ size < t.requested => k + 1 \in 1 .. n
    BY <1>1, <2>3 DEF LotSize
  <2>5. ASSUME size < t.requested
        PROVE  ledger.cash < Cost(t.symbol, session, quotes[t.symbol].open, size + LotSize)
    <3>1. size + LotSize \in sizes
      BY <1>4, <2>4, <2>5
    <3>2. size + LotSize \notin open
      <4>1. ~(size + LotSize <= size)
        BY <2>4 DEF LotSize
      <4> QED BY <2>2, <4>1
    <3>3. Decision(t, size + LotSize) = "insufficient_cash"
      BY <3>1, <3>2
    <3> QED BY <1>3, <3>1, <3>3
  <2>6. Decision(t, size) # "insufficient_cash"
    BY <2>2
  <2> QED BY <2>4, <2>5, <2>6 DEF size
<1> QED BY <1>6, <1>7

\* An attempt that went as far as it could.
GoesFar(a, q, date) ==
    LET bar  == q[a.symbol]
        shut == bar = NoBar \/ LimitOpen(a.symbol, a.side, bar.reference, bar.open)
    IN  /\ shut <=> a.result \in {"suspended_no_bar", "price_limit_open"}
        /\ a.side = "sell" /\ ~shut => a.filled = a.requested
        /\ a.side = "buy" /\ ~shut /\ a.filled < a.requested =>
              a.cashBefore < Cost(a.symbol, date, bar.open, a.filled + LotSize)

NotedFor(t, a) ==
    /\ a.symbol = t.symbol /\ a.side = t.side /\ a.requested = t.requested
    /\ a.cashBefore = ledger.cash

LEMMA ShutGoesFar ==
    ASSUME NEW t, NEW a, NotedFor(t, a), a.result \in {"suspended_no_bar", "price_limit_open"},
           \/ quotes[t.symbol] = NoBar
           \/ LimitOpen(t.symbol, t.side, quotes[t.symbol].reference, quotes[t.symbol].open)
    PROVE  GoesFar(a, quotes, session)
<1> DEFINE limit == LimitOpen(t.symbol, t.side, quotes[t.symbol].reference, quotes[t.symbol].open)
<1> HIDE DEF limit
<1>1. a.symbol = t.symbol /\ a.side = t.side
  BY DEF NotedFor
<1>2. limit = LimitOpen(a.symbol, a.side, quotes[a.symbol].reference, quotes[a.symbol].open)
  BY <1>1 DEF limit
<1>3. quotes[a.symbol] = NoBar \/ limit
  BY <1>1 DEF limit
<1> QED BY <1>2, <1>3 DEF GoesFar

LEMMA OpenGoesFar ==
    ASSUME NEW t, NEW a, NotedFor(t, a), a.result \notin {"suspended_no_bar", "price_limit_open"},
           quotes[t.symbol] # NoBar,
           ~LimitOpen(t.symbol, t.side, quotes[t.symbol].reference, quotes[t.symbol].open),
           \/ t.side = "sell" /\ a.filled = t.requested
           \/ /\ t.side = "buy"
              /\ a.filled < t.requested =>
                    ledger.cash < Cost(t.symbol, session, quotes[t.symbol].open, a.filled + LotSize)
    PROVE  GoesFar(a, quotes, session)
<1>1. a.symbol = t.symbol /\ a.side = t.side /\ a.requested = t.requested
      /\ a.cashBefore = ledger.cash
  BY DEF NotedFor
<1>2. ~LimitOpen(a.symbol, a.side, quotes[a.symbol].reference, quotes[a.symbol].open)
      /\ quotes[a.symbol] # NoBar
  BY <1>1
<1>3. a.side = "sell" => a.filled = a.requested
  BY <1>1
<1>4. a.side = "buy" /\ a.filled < a.requested =>
         a.cashBefore < Cost(a.symbol, session, quotes[a.symbol].open, a.filled + LotSize)
  BY <1>1
<1> QED BY <1>2, <1>3, <1>4 DEF GoesFar

LEMMA SameIsNoMore ==
    ASSUME NEW l, NEW u, SameHoldings(l, u)
    PROVE  /\ NoMore(l, u) /\ \A y : Realized(u, y) = Realized(l, y)
           /\ \A date : LotsDated(l, date) => LotsDated(u, date)
<1>1. LoopLedger(u) /\ u.lots = l.lots /\ u.snapshots = l.snapshots
  BY DEF SameHoldings
<1>2. \A y, date : HeldBy(u, y, date) = HeldBy(l, y, date)
  BY <1>1, SameHeld
<1>3. \A y, date : HeldBy(u, y, date) \in Nat
  BY <1>1, HeldByIsNat
<1>4. \A y, date : HeldBy(u, y, date) <= HeldBy(l, y, date)
  BY <1>2, <1>3
<1>5. NoMore(l, u)
  BY <1>1, <1>4 DEF NoMore
<1>6. \A date : LotsDated(l, date) => LotsDated(u, date)
  BY <1>1 DEF LotsDated
<1> QED BY <1>1, <1>5, <1>6, SameLots

LEMMA ItselfIsNoMore ==
    ASSUME NEW l, LoopLedger(l)
    PROVE  NoMore(l, l)
BY SameIsNoMore DEF SameHoldings

\* What an attempt does: it fails the call, or it is noted, went as far as it
\* could, and leaves the sells of other symbols what they are.
Made(t) ==
    /\ NoMore(ledger, ledger') /\ LotsDated(ledger', session)
    /\ \/ phase' = "failed"
       \/ /\ phase' = "trade" /\ todo' = Tail(todo)
          /\ \E a : attempts' = Append(attempts, a) /\ GoesFar(a, quotes, session)
          /\ \A y \in Symbols : t.side = "sell" /\ y # t.symbol =>
                /\ Realized(ledger', y) = Realized(ledger, y)
                /\ AllSellable(ledger, y, session) => AllSellable(ledger', y, session)

LEMMA SameMade ==
    ASSUME LoopLedger(ledger), LotsDated(ledger, session), NEW t, ledger' = ledger,
           \/ phase' = "failed"
           \/ /\ phase' = "trade" /\ todo' = Tail(todo)
              /\ \E a : attempts' = Append(attempts, a) /\ GoesFar(a, quotes, session)
    PROVE  Made(t)
<1>1. NoMore(ledger, ledger')
  BY ItselfIsNoMore
<1> QED BY <1>1 DEF Made

\* What the loop knows when it makes an attempt.
Trying(t) ==
    /\ LoopLedger(ledger) /\ LotsDated(ledger, session) /\ DaysOK(ledger)
    /\ ClosedBefore(ledger, session)
    /\ session \in Calendar /\ FirstSession <= session /\ session = NextSession(plan.asOf)
    /\ PlanOK(plan) /\ QuotesOK(quotes)
    /\ phase = "trade" /\ t \in Todo /\ t.requested > 0 /\ t.requested % LotSize = 0
    /\ t.side = "sell" => /\ t.requested <= Realized(ledger, t.symbol)
                          /\ AllSellable(ledger, t.symbol, session)

LEMMA NotedBy ==
    ASSUME NEW t, NEW feasible, NEW filled, NEW result
    PROVE  LET a == Attempt(t, feasible, filled, result)
           IN  NotedFor(t, a) /\ a.result = result /\ a.filled = filled
BY DEF NotedFor, Attempt

LEMMA ShutMade ==
    ASSUME NEW t, Trying(t), NEW feasible, NEW reason \in {"suspended_no_bar", "price_limit_open"},
           \/ quotes[t.symbol] = NoBar
           \/ LimitOpen(t.symbol, t.side, quotes[t.symbol].reference, quotes[t.symbol].open),
           Reject(t, feasible, reason)
    PROVE  Made(t)
<1> DEFINE a == Attempt(t, feasible, 0, reason)
<1>1. /\ ledger' = ledger /\ phase' = phase
      /\ attempts' = Append(attempts, a) /\ todo' = Tail(todo)
  BY DEF Reject, Note, ledgerVars
<1>2. NotedFor(t, a) /\ a.result = reason
  BY NotedBy
<1> HIDE DEF a
<1>3. GoesFar(a, quotes, session)
  BY <1>2, ShutGoesFar
<1> QED BY <1>1, <1>3, SameMade DEF Trying

LEMMA DearMade ==
    ASSUME NEW t, Trying(t), t.side = "buy", quotes[t.symbol] # NoBar,
           ~LimitOpen(t.symbol, t.side, quotes[t.symbol].reference, quotes[t.symbol].open),
           ledger.cash < Cost(t.symbol, session, quotes[t.symbol].open, 0 + LotSize),
           NEW feasible, Reject(t, feasible, "insufficient_cash")
    PROVE  Made(t)
<1> DEFINE a == Attempt(t, feasible, 0, "insufficient_cash")
<1>1. /\ ledger' = ledger /\ phase' = phase
      /\ attempts' = Append(attempts, a) /\ todo' = Tail(todo)
  BY DEF Reject, Note, ledgerVars
<1>2. NotedFor(t, a) /\ a.result = "insufficient_cash" /\ a.filled = 0
  BY NotedBy
<1> HIDE DEF a
<1>3. GoesFar(a, quotes, session)
  BY <1>2, OpenGoesFar
<1> QED BY <1>1, <1>3, SameMade DEF Trying

\* What EvaluateOrder's answers say of an attempt's size.
LEMMA DecisionSays ==
    ASSUME NEW t, t.side \in {"buy", "sell"}, NEW size, session = NextSession(plan.asOf),
           NEW answer, answer = Decision(t, size)
    PROVE  LET limit == LimitOpen(t.symbol, t.side, quotes[t.symbol].reference,
                                  quotes[t.symbol].open)
           IN  /\ answer = "price_limit_open" => limit
               /\ answer \in {"allowed", "insufficient_cash"} => ~limit
               /\ answer = "insufficient_cash" => t.side = "buy"
               /\ answer = "allowed" => ~MissingSchedule(t.symbol, t.side, session)
<1> DEFINE o == Order(t, size)
<1>1. /\ o.side = t.side /\ o.symbol = t.symbol /\ o.signal = plan.asOf
      /\ o.previousClose = quotes[t.symbol].reference /\ o.open = quotes[t.symbol].open
  BY DEF Order
<1>2. EvaluateOrder(o) = answer
  BY DEF Decision
<1> HIDE DEF o
<1>3. LET limit == LimitOpen(o.symbol, o.side, o.previousClose, o.open) IN
         /\ answer = "price_limit_open" => limit
         /\ answer \in {"allowed", "insufficient_cash"} => ~limit
         /\ answer = "insufficient_cash" => o.side = "buy"
  BY <1>2, LimitDecides
<1>4. answer = "allowed" => ~MissingSchedule(o.symbol, o.side, session)
  <2> SUFFICES ASSUME answer = "allowed" PROVE ~MissingSchedule(o.symbol, o.side, session)
    OBVIOUS
  <2>1. EvaluateOrder(o) = "allowed"
    BY <1>2
  <2>2. ~MissingSchedule(o.symbol, o.side, NextSession(o.signal))
    BY <2>1, AllowedOrder
  <2> QED BY <1>1, <2>2
<1> QED BY <1>1, <1>3, <1>4

\* The rolling ledger hands back what it built or what it had.
LEMMA AnsweredIs ==
    ASSUME NEW u, NEW date, RollingAnswer(u, date)
    PROVE  \/ ledger' = u /\ reply' = "ok" /\ RollingVerified(u)
           \/ ledger' = ledger /\ reply' = "unreconciled"
BY DEF RollingAnswer

LEMMA LeavesNoMore ==
    ASSUME NEW l, LoopLedger(l), NEW u, NEW q, Leaves(l, u, q)
    PROVE  /\ NoMore(l, u)
           /\ \A y, date : y # q.symbol =>
                 /\ Realized(u, y) = Realized(l, y)
                 /\ AllSellable(l, y, date) => AllSellable(u, y, date)
<1>1. \A y, date : HeldBy(u, y, date) <= HeldBy(l, y, date)
  BY LeavesLess
<1>2. LoopLedger(u) /\ u.snapshots = l.snapshots
  BY DEF Leaves
<1>3. NoMore(l, u)
  BY <1>1, <1>2 DEF NoMore
<1>4. ASSUME NEW y, NEW date, y # q.symbol, AllSellable(l, y, date)
      PROVE  AllSellable(u, y, date)
  <2>1. LotsOf(u, y) = LotsOf(l, y) /\ \A k \in LotsOf(l, y) : u.lots[k] = l.lots[k]
    BY <1>4 DEF Leaves, LotsOf
  <2> QED BY <1>4, <2>1 DEF AllSellable
<1>5. \A y : y # q.symbol => Realized(u, y) = Realized(l, y)
  BY DEF Leaves
<1> QED BY <1>3, <1>4, <1>5

LEMMA SellMade ==
    ASSUME NEW t, Trying(t), t.side = "sell", quotes[t.symbol] # NoBar,
           Decision(t, t.requested) = "allowed", FillSell(t, t.requested)
    PROVE  Made(t)
<1> DEFINE n == t.requested
           q == [event |-> AttemptId(t), date |-> session, symbol |-> t.symbol, size |-> n,
                 price |-> quotes[t.symbol].open, fees |-> Fees(t, n)]
           a == Attempt(t, n, n, "filled")
           u == Sold(ledger, q)
<1>1. /\ PostRollingSell(q)
      /\ attempts' = Append(attempts, a) /\ todo' = Tail(todo)
      /\ ThenGoTo("trade")
  BY DEF FillSell, Note
<1>2. t.symbol \in Symbols /\ n \in Nat /\ session \in Nat
  BY CalendarAssumption DEF Trying, Todo
<1>3. quotes[t.symbol].open \in Nat
  BY <1>2 DEF Trying, QuotesOK
<1>4. ~LimitOpen(t.symbol, t.side, quotes[t.symbol].reference, quotes[t.symbol].open)
      /\ ~MissingSchedule(t.symbol, t.side, session)
  BY DecisionSays DEF Trying
<1>5. Fees(t, n) \in Nat
  BY <1>2, <1>3, <1>4, FeesAreNat DEF Fees
<1>6. /\ q.symbol = t.symbol /\ q.size = n /\ q.price \in Nat /\ q.fees \in Nat
  BY <1>3, <1>5
<1>7. GoesFar(a, quotes, session)
  <2>1. NotedFor(t, a) /\ a.result = "filled" /\ a.filled = n
    BY NotedBy
  <2> HIDE DEF a
  <2> QED BY <1>4, <2>1, OpenGoesFar
<1>8. phase' = "failed" \/ phase' = "trade"
  BY <1>1 DEF ThenGoTo, Fail
<1> HIDE DEF q, a, u
<1>9. \/ ledger' = ledger
      \/ ledger' = u /\ ~SellRefused(ledger, q)
  BY <1>1, AnsweredIs DEF PostRollingSell, Refuse, u
<1>10. CASE ledger' = ledger
  BY <1>1, <1>7, <1>8, <1>10, SameMade DEF Trying
<1>11. CASE ledger' = u /\ ~SellRefused(ledger, q)
  <2>1. LoopLedger(ledger) /\ LotsDated(ledger, session)
    BY DEF Trying
  <2>2. Leaves(ledger, u, q)
    BY <1>2, <1>6, <1>11, <2>1, SoldLeaves DEF u
  <2>3. NoMore(ledger, u) /\ LotsDated(u, session)
    BY <2>1, <2>2, LeavesNoMore, LeavesDated
  <2>4. \A y \in Symbols : y # t.symbol =>
           /\ Realized(u, y) = Realized(ledger, y)
           /\ AllSellable(ledger, y, session) => AllSellable(u, y, session)
    BY <1>6, <2>1, <2>2, LeavesNoMore
  <2> QED BY <1>1, <1>7, <1>8, <1>11, <2>3, <2>4 DEF Made
<1> QED BY <1>9, <1>10, <1>11

LEMMA BuyMade ==
    ASSUME NEW t, Trying(t), t.side = "buy", quotes[t.symbol] # NoBar,
           NEW size \in Nat, size % LotSize = 0,
           size < t.requested =>
              ledger.cash < Cost(t.symbol, session, quotes[t.symbol].open, size + LotSize),
           Decision(t, size) = "allowed", FillBuy(t, size)
    PROVE  Made(t)
<1> DEFINE p == [event |-> AttemptId(t), fees |-> Fees(t, size),
                 lot |-> [id |-> AttemptId(t), symbol |-> t.symbol,
                          acquired |-> session, available |-> NextSession(session),
                          remaining |-> size, cost |-> quotes[t.symbol].open]]
           a == Attempt(t, size, size, "filled")
           x == AsRollingLot(p.lot)
           u == RollingBought(ledger, p)
<1>1. /\ PostRollingBuy(p)
      /\ attempts' = Append(attempts, a) /\ todo' = Tail(todo)
      /\ ThenGoTo("trade")
  BY DEF FillBuy, Note
<1>2. t.symbol \in Symbols /\ session \in Nat /\ plan.asOf \in Nat
  BY CalendarAssumption DEF Trying, Todo, PlanOK
<1>3. quotes[t.symbol].open \in Nat
  BY <1>2 DEF Trying, QuotesOK
<1>4. ~LimitOpen(t.symbol, t.side, quotes[t.symbol].reference, quotes[t.symbol].open)
      /\ ~MissingSchedule(t.symbol, t.side, session)
  BY DecisionSays DEF Trying
<1>5. Fees(t, size) \in Nat
  BY <1>2, <1>3, <1>4, FeesAreNat DEF Fees
<1>6. NextSession(session) \in Nat
  <2> DEFINE e == NextSession(session)
  <2>1. e = NoDate \/ e \in Calendar
    BY <1>2, NextSessionIs
  <2> HIDE DEF e
  <2>2. e \in Nat
    BY <2>1, CalendarAssumption DEF NoDate
  <2> QED BY <2>2 DEF e
<1>7. /\ p.fees = Fees(t, size)
      /\ x = [id |-> AttemptId(t), symbol |-> t.symbol, acquired |-> session,
              available |-> NextSession(session), original |-> size, remaining |-> size,
              cost |-> quotes[t.symbol].open]
  BY DEF AsRollingLot
<1>8. AttemptId(t) \in {"buy"} \X Symbols \X Nat
  BY <1>2 DEF AttemptId
<1>9. GoesFar(a, quotes, session)
  <2>1. NotedFor(t, a) /\ a.result = "filled" /\ a.filled = size
    BY NotedBy
  <2> HIDE DEF a
  <2> QED BY <1>4, <2>1, OpenGoesFar
<1>10. phase' = "failed" \/ phase' = "trade"
  BY <1>1 DEF ThenGoTo, Fail
<1> HIDE DEF p, a, u, x
<1>11. x \in LoopLot /\ x.remaining = size /\ x.acquired = session
  BY <1>2, <1>3, <1>6, <1>7, <1>8 DEF LoopLot
<1>12. ledger' = ledger \/ ledger' = u
  BY <1>1, AnsweredIs DEF PostRollingBuy, Refuse, u
<1>13. CASE ledger' = ledger
  BY <1>1, <1>9, <1>10, <1>13, SameMade DEF Trying
<1>14. CASE ledger' = u
  <2>1. /\ LoopLedger(ledger) /\ LotsDated(ledger, session) /\ ClosedBefore(ledger, session)
        /\ session \in Calendar /\ FirstSession <= session
        /\ \A i \in DOMAIN ledger.snapshots : ledger.snapshots[i].date \in Nat
    BY CalendarAssumption DEF Trying, DaysOK
  <2>2. Adds(ledger, u, x)
    BY <1>5, <1>7, <1>11, <2>1, BoughtAdds DEF u, x
  <2>3. LotsDated(u, session)
    BY <1>11, <2>1, <2>2, AddsDated
  <2>4. ASSUME NEW i \in DOMAIN ledger.snapshots, NEW y \in Symbols
        PROVE  HeldBy(u, y, ledger.snapshots[i].date) <= HeldBy(ledger, y, ledger.snapshots[i].date)
    <3> DEFINE d == ledger.snapshots[i].date
    <3>1. d \in Nat /\ d < session
      BY <2>1 DEF ClosedBefore
    <3>2. ~(x.acquired <= d)
      <4> HIDE DEF d
      <4> QED BY <1>2, <1>11, <3>1
    <3> HIDE DEF d
    <3>3. HeldBy(u, y, d) = HeldBy(ledger, y, d)
      BY <2>1, <2>2, <3>2, AddsLater
    <3>4. HeldBy(ledger, y, d) \in Nat
      BY <2>1, HeldByIsNat
    <3>5. HeldBy(u, y, d) <= HeldBy(ledger, y, d)
      BY <3>3, <3>4
    <3> QED BY <3>5 DEF d
  <2>5. NoMore(ledger, u)
    BY <2>2, <2>4 DEF NoMore, Adds
  <2> QED BY <1>1, <1>9, <1>10, <1>14, <2>3, <2>5 DEF Made
<1> QED BY <1>12, <1>13, <1>14

LEMMA DecidedMade ==
    ASSUME NEW t, Trying(t), quotes[t.symbol] # NoBar, NEW size \in Nat, NEW n \in Nat,
           t.side = "sell" => size = t.requested /\ n = size,
           t.side = "buy" =>
              /\ size % LotSize = 0
              /\ size < t.requested =>
                    ledger.cash < Cost(t.symbol, session, quotes[t.symbol].open, size + LotSize)
              /\ size = 0 => Decision(t, n) = "insufficient_cash"
              /\ size # 0 => n = size /\ Decision(t, size) # "insufficient_cash",
           Decided(t, size, Decision(t, n))
    PROVE  Made(t)
<1> DEFINE limit == LimitOpen(t.symbol, t.side, quotes[t.symbol].reference, quotes[t.symbol].open)
           answer == Decision(t, n)
<1>1. t.side \in {"buy", "sell"} /\ session = NextSession(plan.asOf) /\ t.requested \in Nat
      /\ t.requested > 0
  BY DEF Trying, Todo
<1>2. /\ answer = "price_limit_open" => limit
      /\ answer \in {"allowed", "insufficient_cash"} => ~limit
      /\ answer = "insufficient_cash" => t.side = "buy"
  BY <1>1, DecisionSays
<1>3. \/ answer = "allowed" /\ t.side = "sell" /\ FillSell(t, size)
      \/ answer = "allowed" /\ t.side = "buy"  /\ FillBuy(t, size)
      \/ answer = "price_limit_open" /\ Reject(t, size, answer)
      \/ answer = "insufficient_cash" /\ Reject(t, size, answer)
      \/ Fail("rule_contract_rejected") /\ ledger' = ledger
  BY DEF Decided, Objections, ledgerVars
<1> HIDE DEF limit
<1>4. CASE answer = "allowed" /\ t.side = "sell" /\ FillSell(t, size)
  BY <1>4, SellMade
<1>5. CASE answer = "allowed" /\ t.side = "buy" /\ FillBuy(t, size)
  <2>1. size # 0 /\ n = size
    BY <1>5
  <2> QED BY <1>5, <2>1, BuyMade
<1>6. CASE answer = "price_limit_open" /\ Reject(t, size, answer)
  BY <1>2, <1>6, ShutMade DEF limit
<1>7. CASE answer = "insufficient_cash" /\ Reject(t, size, answer)
  <2>1. t.side = "buy" /\ ~limit
    BY <1>2, <1>7
  <2>2. size = 0
    BY <1>7, <2>1
  <2>3. ledger.cash < Cost(t.symbol, session, quotes[t.symbol].open, 0 + LotSize)
    BY <1>1, <2>1, <2>2
  <2> QED BY <1>7, <2>1, <2>3, DearMade DEF limit
<1>8. CASE Fail("rule_contract_rejected") /\ ledger' = ledger
  BY <1>8, SameMade DEF Fail, Trying
<1> QED BY <1>3, <1>4, <1>5, <1>6, <1>7, <1>8

-----------------------------------------------------------------------------
(* The invariant *)

Morning == {"start", "trade", "register", "pay", "close"}    \* the session is not closed
Evening == {"open", "plan", "done"}                          \* the last session is

Going(l, ph, s, p, q) ==
    /\ LoopLedger(l) /\ DaysOK(l) /\ LotsDated(l, s)
    /\ PlanOK(p) /\ QuotesOK(q)
    /\ s \in Calendar \cup {NoDate} /\ s <= LastSession
    /\ ph \in Morning \cup Evening
    /\ s \in Calendar => FirstSession <= s
    /\ ph = "open" => s # LastSession
    /\ ph # "open" => s \in Calendar
    /\ ph \in Morning => ClosedBefore(l, s)
    /\ ph \in Evening => ClosedThrough(l, s)

\* What the audit says of every dividend whose ex-date has come.
Entitlements(l, e, s) ==
    \A d \in DOMAIN e :
        /\ d \in DOMAIN Dividends /\ Dividends[d].ex <= s
        /\ EntitledFrom(l, Dividends[d].symbol, Dividends[d].record, e[d],
                        NextSession(Dividends[d].record) = Dividends[d].ex)

\* Nothing is left of a symbol whose target is zero, unless a rebalance is to come.
NoneLeft(l, p) == \A y \in DOMAIN p.targets : p.targets[y] = 0 => Realized(l, y) = 0
Flat(l, ph, p, pen, ret) ==
    /\ ph \in {"register", "pay", "close", "plan"} /\ ~ret => NoneLeft(l, p)
    /\ ph = "open" /\ ~pen => NoneLeft(l, p)

\* The call of the rebalance.
AttemptsFar(a, q, s) == a \in Seq(Range(a)) /\ \A i \in DOMAIN a : GoesFar(a[i], q, s)
Trading(l, ph, s, p, q, w, a) ==
    ph = "trade" => s = NextSession(p.asOf) /\ TodoOK(l, s, w) /\ AttemptsFar(a, q, s)

OwedOK(o) == o \in Seq(ReceivableIds \X LoopReceivable)
MarksOK(m) == \A y \in Symbols : m[y] \in Nat

LoopInv ==
    /\ Entitlements(ledger, entitled, session)
    /\ phase # "failed" =>
          /\ Going(ledger, phase, session, plan, quotes)
          /\ Flat(ledger, phase, plan, pending, retry)
          /\ Trading(ledger, phase, session, plan, quotes, todo, attempts)
          /\ OwedOK(owed) /\ MarksOK(marks)

LEMMA EntitlementsStand ==
    ASSUME NEW l, LoopLedger(l), NEW e, NEW s, Entitlements(l, e, s),
           NEW u, u.snapshots = l.snapshots
    PROVE  Entitlements(u, e, s)
<1> SUFFICES ASSUME NEW d \in DOMAIN e
             PROVE  EntitledFrom(u, Dividends[d].symbol, Dividends[d].record, e[d],
                                 NextSession(Dividends[d].record) = Dividends[d].ex)
  BY DEF Entitlements
<1>1. EntitledFrom(l, Dividends[d].symbol, Dividends[d].record, e[d],
                   NextSession(Dividends[d].record) = Dividends[d].ex)
  BY DEF Entitlements
<1> QED BY <1>1 DEF EntitledFrom

LEMMA GoingOn ==
    ASSUME NEW l, NEW ph \in Morning, NEW s, NEW p, NEW q, Going(l, ph, s, p, q),
           NEW u, NoMore(l, u), LotsDated(u, s), NEW to \in Morning
    PROVE  Going(u, to, s, p, q)
<1>1. LoopLedger(l) /\ DaysOK(l) /\ ClosedBefore(l, s)
  BY DEF Going
<1>2. LoopLedger(u) /\ u.snapshots = l.snapshots /\ DaysOK(u)
  BY <1>1, DaysStand DEF NoMore
<1>3. ClosedBefore(u, s)
  BY <1>1, <1>2 DEF ClosedBefore
<1>4. ph # "open" /\ to # "open" /\ to \notin Evening
  BY DEF Morning, Evening
<1> QED BY <1>2, <1>3, <1>4 DEF Going

-----------------------------------------------------------------------------
(* The steps *)

LEMMA FailedStep ==
    ASSUME LoopInv, phase # "failed", phase' = "failed", ledger'.snapshots = ledger.snapshots,
           entitled' = entitled, session' = session
    PROVE  LoopInv'
<1>1. Entitlements(ledger, entitled, session) /\ LoopLedger(ledger)
  BY DEF LoopInv, Going
<1>2. Entitlements(ledger', entitled, session)
  BY <1>1, EntitlementsStand
<1>3. Entitlements(ledger', entitled', session')
  BY <1>2
<1> QED BY <1>3 DEF LoopInv

LEMMA OrdersCanGo ==
    ASSUME LoopLedger(ledger), LotsOnCalendar(ledger), ~PostPlanState(ledger, plan.asOf),
           PlanOK(plan), session = NextSession(plan.asOf), session # NoDate,
           NEW y \in Symbols
    PROVE  AllSellable(ledger, y, session)
<1> SUFFICES ASSUME NEW k \in DOMAIN ledger.lots, ledger.lots[k].remaining > 0
             PROVE  ledger.lots[k].available <= session
  BY DEF AllSellable, LotsOf
<1> DEFINE a == ledger.lots[k].acquired
<1>1. a \in Nat /\ plan.asOf \in Nat /\ ledger.lots[k].available = NextSession(a)
      /\ NextSession(a) # NoDate
  BY LoopLots DEF LoopLot, LotsOnCalendar, PlanOK
<1>2. a <= plan.asOf
  <2>1. ~(a > plan.asOf)
    BY DEF PostPlanState
  <2> HIDE DEF a
  <2> QED BY <1>1, <2>1
<1> HIDE DEF a
<1>3. session \in Calendar /\ plan.asOf < session
  BY <1>1, NextSessionIs
<1>4. session \in Nat
  BY <1>3, CalendarAssumption
<1>5. a < session
  BY <1>1, <1>2, <1>3, <1>4
<1>6. NextSession(a) <= session
  BY <1>1, <1>3, <1>5, NextSessionIs
<1> QED BY <1>1, <1>6

LEMMA StartChecks ==
    ASSUME NEW l, {i \in DOMAIN StartRefusals(l) : StartRefusals(l)[i][1]} = {}
    PROVE  /\ NextSession(plan.asOf) # NoDate /\ ~PostPlanState(l, plan.asOf)
           /\ LotsOnCalendar(l) /\ session = NextSession(plan.asOf)
           /\ ~(EquityAtClose(l) <= 0)
<1>1. DOMAIN StartRefusals(l) = 1 .. 10
  BY DEF StartRefusals
<1>2. \A i \in 1 .. 10 : ~StartRefusals(l)[i][1]
  BY <1>1
<1>3. ~StartRefusals(l)[2][1] /\ ~StartRefusals(l)[3][1] /\ ~StartRefusals(l)[6][1]
      /\ ~StartRefusals(l)[7][1] /\ ~StartRefusals(l)[9][1]
  BY <1>2
<1> QED BY <1>3 DEF StartRefusals

LEMMA EquityIsInt ==
    ASSUME NEW l, LoopLedger(l)
    PROVE  EquityAtClose(l) \in Int
<1>1. Len(l.snapshots) \in Nat /\ DOMAIN l.snapshots = 1 .. Len(l.snapshots)
      /\ (l.snapshots = <<>> <=> Len(l.snapshots) = 0)
  BY LoopLots
<1>2. l.initial \in Int
  BY DEF LoopLedger, LedgerFields
<1>3. l.snapshots # <<>> => l.snapshots[Len(l.snapshots)].equity \in Int
  BY <1>1 DEF LoopLedger
<1> QED BY <1>2, <1>3 DEF EquityAtClose

LEMMA StartStep == LoopInv /\ Start => LoopInv'
<1> SUFFICES ASSUME LoopInv, Start PROVE LoopInv'
  OBVIOUS
<1> DEFINE failing == {i \in DOMAIN StartRefusals(ledger) : StartRefusals(ledger)[i][1]}
<1>1. /\ phase = "start"
      /\ UNCHANGED <<ledgerVars, plan, session, quotes>> /\ UNCHANGED loopVars
      /\ \/ /\ failing = {}
            /\ todo' = Staged(ledger, EquityAtClose(ledger))
            /\ attempts' = <<>> /\ phase' = "trade"
         \/ phase' = "failed"
  BY DEF Start, StartRebalance, Fail
<1> HIDE DEF failing
<1>2. /\ ledger' = ledger /\ plan' = plan /\ session' = session /\ quotes' = quotes
      /\ marks' = marks /\ owed' = owed /\ pending' = pending /\ retry' = retry
      /\ entitled' = entitled
  BY <1>1 DEF ledgerVars, loopVars
<1>3. CASE phase' = "failed"
  BY <1>1, <1>2, <1>3, FailedStep
<1>4. CASE /\ failing = {} /\ attempts' = <<>> /\ phase' = "trade"
           /\ todo' = Staged(ledger, EquityAtClose(ledger))
  <2>1. /\ Going(ledger, phase, session, plan, quotes)
        /\ LoopLedger(ledger) /\ LotsDated(ledger, session) /\ PlanOK(plan) /\ QuotesOK(quotes)
        /\ Entitlements(ledger, entitled, session) /\ OwedOK(owed) /\ MarksOK(marks)
    BY <1>1 DEF LoopInv, Going
  <2>2. /\ NextSession(plan.asOf) # NoDate /\ ~PostPlanState(ledger, plan.asOf)
        /\ LotsOnCalendar(ledger) /\ session = NextSession(plan.asOf)
        /\ ~(EquityAtClose(ledger) <= 0)
    BY <1>4, StartChecks DEF failing
  <2>3. \A y \in Symbols : AllSellable(ledger, y, session)
    BY <2>1, <2>2, OrdersCanGo
  <2>4. EquityAtClose(ledger) \in Nat
    BY <2>1, <2>2, EquityIsInt
  <2>5. TodoOK(ledger, session, todo')
    BY <1>4, <2>1, <2>3, <2>4, StagedIsTodo
  <2>6. AttemptsFar(attempts', quotes, session)
    <3>1. <<>> \in Seq(Range(<<>>)) /\ DOMAIN <<>> = {}
      OBVIOUS
    <3> QED BY <1>4, <3>1 DEF AttemptsFar
  <2>7. Going(ledger, "trade", session, plan, quotes)
    <3>1. "start" \in Morning /\ "trade" \in Morning
      BY DEF Morning
    <3> QED BY <1>1, <2>1, <3>1, ItselfIsNoMore, GoingOn
  <2>8. Trading(ledger, "trade", session, plan, quotes, todo', attempts')
    BY <2>2, <2>5, <2>6 DEF Trading
  <2>9. Flat(ledger, "trade", plan, pending, retry)
    BY DEF Flat
  <2>10. /\ Going(ledger', phase', session', plan', quotes')
         /\ Flat(ledger', phase', plan', pending', retry')
         /\ Trading(ledger', phase', session', plan', quotes', todo', attempts')
         /\ OwedOK(owed') /\ MarksOK(marks') /\ Entitlements(ledger', entitled', session')
    BY <1>2, <1>4, <2>1, <2>7, <2>8, <2>9
  <2> QED BY <2>10 DEF LoopInv
<1> QED BY <1>1, <1>3, <1>4

LEMMA AttemptsGrow ==
    ASSUME NEW a, NEW x, NEW q, NEW s, AttemptsFar(a, q, s), GoesFar(x, q, s)
    PROVE  AttemptsFar(Append(a, x), q, s)
<1> DEFINE b == Append(a, x)
           n == Len(a)
<1>1. a \in Seq(Range(a)) /\ \A i \in DOMAIN a : GoesFar(a[i], q, s)
  BY DEF AttemptsFar
<1>2. /\ b \in Seq(Range(b)) /\ n \in Nat
      /\ DOMAIN a = 1 .. n /\ DOMAIN b = 1 .. n + 1
      /\ \A i \in 1 .. n : b[i] = a[i]
      /\ b[n + 1] = x
  BY <1>1, AppendToRange, LenProperties
<1> HIDE DEF b, n
<1>3. \A i \in 1 .. n + 1 : i = n + 1 \/ i \in 1 .. n
  BY <1>2
<1>4. \A i \in DOMAIN b : GoesFar(b[i], q, s)
  BY <1>1, <1>2, <1>3
<1> QED BY <1>2, <1>4 DEF AttemptsFar, b

LEMMA TryMakes ==
    ASSUME NEW t, t = Head(todo), TryAttempt, Trying(t)
    PROVE  Made(t)
<1>1. /\ t \in Todo /\ t.requested \in Nat /\ t.requested > 0 /\ t.requested % LotSize = 0
      /\ t.side \in {"buy", "sell"} /\ session = NextSession(plan.asOf) /\ LoopLedger(ledger)
      /\ t.side = "sell" => /\ t.requested <= Realized(ledger, t.symbol)
                            /\ AllSellable(ledger, t.symbol, session)
  BY DEF Trying, Todo
<1>2. \/ quotes[t.symbol] = NoBar /\ Reject(t, 0, "suspended_no_bar")
      \/ /\ quotes[t.symbol] # NoBar /\ t.side = "sell"
         /\ \E size \in {SellSize(t)} :
               \/ size = 0 /\ Reject(t, 0, "insufficient_sellable_position")
               \/ size > 0 /\ Decided(t, size, Decision(t, size))
      \/ /\ quotes[t.symbol] # NoBar /\ t.side = "buy"
         /\ \E size \in {BuySize(t)} :
               Decided(t, size, Decision(t, IF size = 0 THEN LotSize ELSE size))
  BY DEF TryAttempt
<1>3. CASE quotes[t.symbol] = NoBar /\ Reject(t, 0, "suspended_no_bar")
  BY <1>3, ShutMade
<1>4. CASE /\ quotes[t.symbol] # NoBar /\ t.side = "sell"
           /\ \E size \in {SellSize(t)} :
                 \/ size = 0 /\ Reject(t, 0, "insufficient_sellable_position")
                 \/ size > 0 /\ Decided(t, size, Decision(t, size))
  <2>1. SellSize(t) = t.requested
    BY <1>1, <1>4, SellGoesWhole
  <2>2. t.requested # 0
    BY <1>1
  <2>3. Decided(t, t.requested, Decision(t, t.requested))
    BY <1>4, <2>1, <2>2
  <2> QED BY <1>1, <1>4, <2>3, DecidedMade
<1>5. CASE /\ quotes[t.symbol] # NoBar /\ t.side = "buy"
           /\ \E size \in {BuySize(t)} :
                 Decided(t, size, Decision(t, IF size = 0 THEN LotSize ELSE size))
  <2> DEFINE size == BuySize(t)
             n == IF size = 0 THEN LotSize ELSE size
  <2>1. /\ size \in Nat /\ size % LotSize = 0 /\ size <= t.requested
        /\ size = 0 => Decision(t, LotSize) = "insufficient_cash"
        /\ size # 0 => Decision(t, size) # "insufficient_cash"
        /\ size < t.requested =>
              ledger.cash < Cost(t.symbol, session, quotes[t.symbol].open, size + LotSize)
    BY <1>1, <1>5, BuyGoesFar
  <2>2. Decided(t, size, Decision(t, n))
    BY <1>5
  <2> HIDE DEF size
  <2>3. /\ n \in Nat
        /\ size = 0 => Decision(t, n) = "insufficient_cash"
        /\ size # 0 => n = size
    BY <2>1 DEF LotSize
  <2> HIDE DEF n
  <2> QED BY <1>5, <2>1, <2>2, <2>3, DecidedMade
<1> QED BY <1>2, <1>3, <1>4, <1>5

LEMMA TradeStep == LoopInv /\ Trade => LoopInv'
<1> SUFFICES ASSUME LoopInv, Trade PROVE LoopInv'
  OBVIOUS
<1> DEFINE t == Head(todo)
<1>1. /\ TryAttempt /\ phase = "trade" /\ todo # <<>>
      /\ UNCHANGED <<plan, session, quotes, equity>> /\ UNCHANGED loopVars
  BY DEF Trade, TryAttempt
<1>2. /\ plan' = plan /\ session' = session /\ quotes' = quotes
      /\ marks' = marks /\ owed' = owed /\ pending' = pending /\ retry' = retry
      /\ entitled' = entitled
  BY <1>1 DEF loopVars
<1>3. /\ Going(ledger, phase, session, plan, quotes)
      /\ LoopLedger(ledger) /\ LotsDated(ledger, session) /\ DaysOK(ledger)
      /\ ClosedBefore(ledger, session) /\ session \in Calendar /\ FirstSession <= session
      /\ PlanOK(plan) /\ QuotesOK(quotes)
      /\ Entitlements(ledger, entitled, session) /\ OwedOK(owed) /\ MarksOK(marks)
      /\ session = NextSession(plan.asOf) /\ TodoOK(ledger, session, todo)
      /\ AttemptsFar(attempts, quotes, session)
  <2>1. "trade" \in Morning
    BY DEF Morning
  <2> QED BY <1>1, <2>1 DEF LoopInv, Going, Trading
<1>4. t \in Todo /\ 1 \in DOMAIN todo /\ t = todo[1]
  <2>1. todo \in Seq(Todo)
    BY <1>3 DEF TodoOK
  <2> QED BY <1>1, <2>1, HeadTailProperties, LenProperties, EmptySeq, ElementOfSeq
<1> HIDE DEF t
<1>5. Trying(t)
  <2>1. /\ t.requested > 0 /\ t.requested % LotSize = 0
        /\ t.side = "sell" => /\ t.requested <= Realized(ledger, t.symbol)
                              /\ AllSellable(ledger, t.symbol, session)
    BY <1>3, <1>4 DEF TodoOK
  <2> QED BY <1>1, <1>3, <1>4, <2>1 DEF Trying
<1>6. Made(t)
  BY <1>1, <1>5, TryMakes DEF t
<1>7. NoMore(ledger, ledger') /\ LotsDated(ledger', session)
      /\ ledger'.snapshots = ledger.snapshots
  BY <1>6 DEF Made, NoMore
<1>8. CASE phase' = "failed"
  BY <1>1, <1>2, <1>7, <1>8, FailedStep
<1>9. CASE phase' # "failed"
  <2>1. /\ phase' = "trade" /\ todo' = Tail(todo)
        /\ \E a : attempts' = Append(attempts, a) /\ GoesFar(a, quotes, session)
        /\ \A y \in Symbols : t.side = "sell" /\ y # t.symbol =>
              /\ Realized(ledger', y) = Realized(ledger, y)
              /\ AllSellable(ledger, y, session) => AllSellable(ledger', y, session)
    BY <1>6, <1>9 DEF Made
  <2>2. AttemptsFar(attempts', quotes, session)
    BY <1>3, <2>1, AttemptsGrow
  <2>3. TodoOK(ledger', session, todo')
    BY <1>1, <1>3, <2>1, TodoRest DEF t
  <2>4. Going(ledger', "trade", session, plan, quotes)
    <3>1. "trade" \in Morning
      BY DEF Morning
    <3> QED BY <1>1, <1>3, <1>7, <3>1, GoingOn
  <2>5. Entitlements(ledger', entitled, session)
    BY <1>3, <1>7, EntitlementsStand
  <2>6. Trading(ledger', "trade", session, plan, quotes, todo', attempts')
    BY <1>3, <2>2, <2>3 DEF Trading
  <2>7. Flat(ledger', "trade", plan, pending, retry)
    BY DEF Flat
  <2>8. /\ Going(ledger', phase', session', plan', quotes')
        /\ Flat(ledger', phase', plan', pending', retry')
        /\ Trading(ledger', phase', session', plan', quotes', todo', attempts')
        /\ OwedOK(owed') /\ MarksOK(marks') /\ Entitlements(ledger', entitled', session')
    BY <1>2, <1>3, <2>1, <2>4, <2>5, <2>6, <2>7
  <2> QED BY <2>8 DEF LoopInv
<1> QED BY <1>8, <1>9

\* A step within the session that leaves the holdings alone.
LEMMA HoldingStep ==
    ASSUME LoopInv, phase \in {"register", "pay"}, phase' \in {"register", "pay", "close", "failed"},
           SameHoldings(ledger, ledger'),
           plan' = plan, session' = session, quotes' = quotes, marks' = marks, OwedOK(owed'),
           pending' = pending, retry' = retry, entitled' = entitled
    PROVE  LoopInv'
<1>1. /\ Going(ledger, phase, session, plan, quotes) /\ Flat(ledger, phase, plan, pending, retry)
      /\ LoopLedger(ledger) /\ LotsDated(ledger, session)
      /\ Entitlements(ledger, entitled, session) /\ MarksOK(marks)
  BY DEF LoopInv, Going
<1>2. /\ NoMore(ledger, ledger') /\ LotsDated(ledger', session)
      /\ \A y : Realized(ledger', y) = Realized(ledger, y)
      /\ ledger'.snapshots = ledger.snapshots
  BY <1>1, SameIsNoMore DEF SameHoldings
<1>3. CASE phase' = "failed"
  BY <1>2, <1>3, FailedStep
<1>4. CASE phase' \in {"register", "pay", "close"}
  <2>1. phase \in Morning /\ phase' \in Morning /\ phase' # "failed"
    BY <1>4 DEF Morning
  <2>2. Going(ledger', phase', session, plan, quotes)
    BY <1>1, <1>2, <2>1, GoingOn
  <2>3. Flat(ledger', phase', plan, pending, retry)
    <3>1. ~retry => NoneLeft(ledger, plan)
      BY <1>1 DEF Flat
    <3>2. NoneLeft(ledger, plan) => NoneLeft(ledger', plan)
      BY <1>2 DEF NoneLeft
    <3>3. phase' # "open"
      BY <1>4
    <3> QED BY <3>1, <3>2, <3>3 DEF Flat
  <2>4. Entitlements(ledger', entitled, session)
    BY <1>1, <1>2, EntitlementsStand
  <2>5. Trading(ledger', phase', session, plan, quotes, todo', attempts')
    BY <1>4 DEF Trading
  <2>6. /\ Going(ledger', phase', session', plan', quotes')
        /\ Flat(ledger', phase', plan', pending', retry')
        /\ Trading(ledger', phase', session', plan', quotes', todo', attempts')
        /\ OwedOK(owed') /\ MarksOK(marks') /\ Entitlements(ledger', entitled', session')
    BY <1>1, <2>2, <2>3, <2>4, <2>5
  <2> QED BY <2>6 DEF LoopInv
<1> QED BY <1>3, <1>4

LEMMA ItselfIsSame ==
    ASSUME NEW l, LoopLedger(l)
    PROVE  SameHoldings(l, l)
BY DEF SameHoldings

LEMMA RegisterStep == LoopInv /\ Register => LoopInv'
<1> SUFFICES ASSUME LoopInv, Register PROVE LoopInv'
  OBVIOUS
<1>1. /\ phase = "register"
      /\ UNCHANGED <<plan, session, quotes, equity, todo, attempts,
                     path, marks, pending, retry, entitled>>
      /\ \/ owed = <<>> /\ phase' = "pay" /\ ledger' = ledger /\ owed' = owed
         \/ /\ owed # <<>> /\ owed' = Tail(owed)
            /\ \/ ledger' = ledger
               \/ RollingAnswer(Registered(ledger, Head(owed)[1], Head(owed)[2]), session)
            /\ ThenGoTo("register")
  BY DEF Register, Refuse, ledgerVars
<1>2. LoopLedger(ledger) /\ OwedOK(owed)
  BY <1>1 DEF LoopInv, Going
<1>3. phase' \in {"register", "pay", "close", "failed"}
  BY <1>1 DEF ThenGoTo, Fail
<1>4. OwedOK(owed') /\ (owed # <<>> => Head(owed) \in ReceivableIds \X LoopReceivable)
  <2>1. CASE owed = <<>> /\ owed' = owed
    BY <1>2, <2>1
  <2>2. CASE owed # <<>> /\ owed' = Tail(owed)
    <3>1. owed \in Seq(ReceivableIds \X LoopReceivable)
      BY <1>2 DEF OwedOK
    <3>2. Tail(owed) \in Seq(ReceivableIds \X LoopReceivable)
          /\ Head(owed) = owed[1] /\ 1 \in DOMAIN owed
      BY <2>2, <3>1, HeadTailProperties, LenProperties, EmptySeq
    <3>3. owed[1] \in ReceivableIds \X LoopReceivable
      BY <3>1, <3>2, ElementOfSeq
    <3> QED BY <2>2, <3>2, <3>3 DEF OwedOK
  <2> QED BY <1>1, <2>1, <2>2
<1>5. SameHoldings(ledger, ledger')
  <2>1. CASE ledger' = ledger
    BY <1>2, <2>1, ItselfIsSame
  <2>2. CASE /\ owed # <<>>
             /\ RollingAnswer(Registered(ledger, Head(owed)[1], Head(owed)[2]), session)
    <3> DEFINE d == Head(owed)[1]
               r == Head(owed)[2]
               u == Registered(ledger, d, r)
    <3>1. d \in ReceivableIds /\ r \in LoopReceivable
      BY <1>4, <2>2
    <3> HIDE DEF d, r
    <3>2. SameHoldings(ledger, u)
      BY <1>2, <3>1, RegisteredSame
    <3>3. RollingAnswer(u, session)
      BY <2>2 DEF d, r
    <3> HIDE DEF u
    <3>4. ledger' = u \/ ledger' = ledger
      BY <3>3, AnsweredIs
    <3> QED BY <2>1, <3>2, <3>4
  <2> QED BY <1>1, <2>1, <2>2
<1>6. /\ plan' = plan /\ session' = session /\ quotes' = quotes /\ marks' = marks
      /\ pending' = pending /\ retry' = retry /\ entitled' = entitled
  BY <1>1
<1> QED BY <1>1, <1>3, <1>4, <1>5, <1>6, HoldingStep

LEMMA PayStep == LoopInv /\ Pay => LoopInv'
<1> SUFFICES ASSUME LoopInv, Pay PROVE LoopInv'
  OBVIOUS
<1>1. /\ phase = "pay"
      /\ UNCHANGED <<plan, session, quotes, equity, todo, attempts>> /\ UNCHANGED loopVars
      /\ \/ ledger' = ledger
         \/ RollingAnswer(Paid(ledger, session), session)
      /\ ThenGoTo("close")
  BY DEF Pay, Refuse
<1>2. LoopLedger(ledger) /\ OwedOK(owed) /\ session \in Nat
  <2>1. Going(ledger, phase, session, plan, quotes) /\ OwedOK(owed)
    BY <1>1 DEF LoopInv
  <2> QED BY <2>1, CalendarAssumption DEF Going, NoDate
<1>3. phase' \in {"register", "pay", "close", "failed"}
  BY <1>1 DEF ThenGoTo, Fail
<1>4. SameHoldings(ledger, ledger')
  <2> DEFINE u == Paid(ledger, session)
  <2>1. SameHoldings(ledger, ledger) /\ SameHoldings(ledger, u)
    BY <1>2, ItselfIsSame, PaidSame
  <2> HIDE DEF u
  <2>2. ledger' = ledger \/ ledger' = u
    BY <1>1, AnsweredIs DEF u
  <2> QED BY <2>1, <2>2
<1>5. /\ plan' = plan /\ session' = session /\ quotes' = quotes /\ marks' = marks
      /\ pending' = pending /\ retry' = retry /\ entitled' = entitled /\ owed' = owed
  BY <1>1 DEF loopVars
<1> QED BY <1>1, <1>2, <1>3, <1>4, <1>5, HoldingStep

LEMMA FinishStep == LoopInv /\ Finish => LoopInv'
<1> SUFFICES ASSUME LoopInv, Finish PROVE LoopInv'
  OBVIOUS
<1>1. /\ phase = "trade" /\ (phase' = "register" \/ phase' = "failed")
      /\ UNCHANGED <<ledgerVars, plan, session, quotes, equity, todo, attempts>>
      /\ UNCHANGED <<path, marks, owed, pending, entitled>>
  BY DEF Finish, FinishRebalance, Fail
<1>2. /\ ledger' = ledger /\ plan' = plan /\ session' = session /\ quotes' = quotes
      /\ marks' = marks /\ owed' = owed /\ pending' = pending /\ entitled' = entitled
  BY <1>1 DEF ledgerVars
<1>3. retry' = (\E y \in DOMAIN plan.targets : ~Aligned(ledger, y))
  BY DEF Finish
<1>4. CASE phase' = "failed"
  BY <1>1, <1>2, <1>4, FailedStep
<1>5. CASE phase' = "register"
  <2>1. /\ Going(ledger, phase, session, plan, quotes)
        /\ LoopLedger(ledger) /\ LotsDated(ledger, session)
        /\ Entitlements(ledger, entitled, session) /\ OwedOK(owed) /\ MarksOK(marks)
    BY <1>1 DEF LoopInv, Going
  <2>2. Going(ledger, "register", session, plan, quotes)
    <3>1. phase \in Morning /\ "register" \in Morning
      BY <1>1 DEF Morning
    <3> QED BY <2>1, <3>1, ItselfIsNoMore, GoingOn
  <2>3. ASSUME ~retry' PROVE NoneLeft(ledger, plan)
    <3>1. \A y \in DOMAIN plan.targets : Aligned(ledger, y)
      BY <1>3, <2>3
    <3>2. ASSUME NEW y \in DOMAIN plan.targets, plan.targets[y] = 0 PROVE Realized(ledger, y) = 0
      <4>1. TargetShares(y, equity) = 0
        BY <3>2 DEF TargetShares
      <4> QED BY <3>1, <4>1 DEF Aligned
    <3> QED BY <3>2 DEF NoneLeft
  <2>4. Flat(ledger', phase', plan', pending', retry')
    BY <1>2, <1>5, <2>3 DEF Flat
  <2>5. Trading(ledger', phase', session', plan', quotes', todo', attempts')
    BY <1>5 DEF Trading
  <2>6. /\ Going(ledger', phase', session', plan', quotes')
        /\ OwedOK(owed') /\ MarksOK(marks') /\ Entitlements(ledger', entitled', session')
    BY <1>2, <1>5, <2>1, <2>2
  <2> QED BY <2>4, <2>5, <2>6 DEF LoopInv
<1> QED BY <1>1, <1>4, <1>5

LEMMA CloseStep == LoopInv /\ Close => LoopInv'
<1> SUFFICES ASSUME LoopInv, Close PROVE LoopInv'
  OBVIOUS
<1> DEFINE u == ClosedWith(ledger, session, Valuations)
<1>1. /\ phase = "close" /\ CloseRollingSession(session, Valuations) /\ ThenGoTo("plan")
      /\ UNCHANGED <<plan, session, quotes, equity, todo, attempts>> /\ UNCHANGED loopVars
  BY DEF Close
<1>2. /\ plan' = plan /\ session' = session /\ quotes' = quotes /\ marks' = marks
      /\ owed' = owed /\ pending' = pending /\ retry' = retry /\ entitled' = entitled
  BY <1>1 DEF loopVars
<1>3. /\ LoopLedger(ledger) /\ DaysOK(ledger) /\ LotsDated(ledger, session)
      /\ PlanOK(plan) /\ QuotesOK(quotes) /\ session <= LastSession
      /\ session \in Calendar /\ FirstSession <= session /\ ClosedBefore(ledger, session)
      /\ Flat(ledger, phase, plan, pending, retry) /\ OwedOK(owed) /\ MarksOK(marks)
      /\ Entitlements(ledger, entitled, session)
  BY <1>1 DEF LoopInv, Going, Morning
<1>4. \/ phase' = "failed" /\ ledger' = ledger
      \/ phase' = "plan" /\ ledger' = u
  <2>1. \/ ledger' = ledger /\ reply' # "ok"
        \/ ledger' = u /\ reply' = "ok"
    BY <1>1, AnsweredIs DEF CloseRollingSession, Refuse
  <2>2. reply' # "ok" => phase' = "failed"
    BY <1>1 DEF ThenGoTo, Fail
  <2>3. reply' = "ok" => phase' = "plan"
    BY <1>1 DEF ThenGoTo
  <2> QED BY <2>1, <2>2, <2>3
<1>5. CASE phase' = "failed" /\ ledger' = ledger
  BY <1>1, <1>2, <1>5, FailedStep
<1>6. CASE phase' = "plan" /\ ledger' = u
  <2> DEFINE n == Len(ledger.snapshots)
  <2>1. /\ LoopLedger(u) /\ DaysOK(u) /\ ClosedThrough(u, session) /\ u.lots = ledger.lots
        /\ DOMAIN u.snapshots = DOMAIN ledger.snapshots \cup {n + 1}
        /\ u.snapshots[n + 1].date = session
        /\ \A i \in DOMAIN ledger.snapshots : u.snapshots[i] = ledger.snapshots[i]
    <3> DEFINE v == Valuations
    <3>1. DOMAIN v = Held(ledger) /\ \A y \in Held(ledger) :
             v[y].total = Realized(ledger, y) /\ v[y].mark \in Nat
      BY <1>3 DEF Valuations, MarksOK, Held
    <3> HIDE DEF v
    <3>2. LET w == ClosedWith(ledger, session, v)
          IN  /\ LoopLedger(w) /\ DaysOK(w) /\ ClosedThrough(w, session) /\ w.lots = ledger.lots
              /\ DOMAIN w.snapshots = DOMAIN ledger.snapshots \cup {Len(ledger.snapshots) + 1}
              /\ w.snapshots[Len(ledger.snapshots) + 1].date = session
              /\ \A i \in DOMAIN ledger.snapshots : w.snapshots[i] = ledger.snapshots[i]
      BY <1>3, <3>1, DayCloses
    <3> QED BY <3>2 DEF v
  <2> HIDE DEF u
  <2>2. LotsDated(u, session)
    BY <1>3, <2>1 DEF LotsDated
  <2>3. Going(u, "plan", session, plan, quotes)
    <3>1. "plan" \in Evening /\ "plan" \notin Morning /\ "plan" # "open"
      BY DEF Morning, Evening
    <3> QED BY <1>3, <2>1, <2>2, <3>1 DEF Going
  <2>4. \A y : Realized(u, y) = Realized(ledger, y)
    BY <2>1, SameLots
  <2>5. Flat(u, "plan", plan, pending, retry)
    <3>1. ~retry => NoneLeft(ledger, plan)
      BY <1>1, <1>3 DEF Flat
    <3>2. NoneLeft(ledger, plan) => NoneLeft(u, plan)
      BY <2>4 DEF NoneLeft
    <3> QED BY <3>1, <3>2 DEF Flat
  <2>6. Entitlements(u, entitled, session)
    <3> SUFFICES ASSUME NEW d \in DOMAIN entitled
                 PROVE  EntitledFrom(u, Dividends[d].symbol, Dividends[d].record, entitled[d],
                                     NextSession(Dividends[d].record) = Dividends[d].ex)
      BY <1>3 DEF Entitlements
    <3>1. /\ d \in DOMAIN Dividends /\ Dividends[d].ex <= session
          /\ EntitledFrom(ledger, Dividends[d].symbol, Dividends[d].record, entitled[d],
                          NextSession(Dividends[d].record) = Dividends[d].ex)
      BY <1>3 DEF Entitlements
    <3>2. ~(session <= Dividends[d].record)
      <4>1. Dividends[d].record \in Nat /\ Dividends[d].ex \in Nat
            /\ Dividends[d].record < Dividends[d].ex
        BY <3>1, LoopAssumption
      <4>2. session \in Nat
        BY <1>3, CalendarAssumption
      <4> QED BY <3>1, <4>1, <4>2
    <3>3. ~(u.snapshots[n + 1].date <= Dividends[d].record)
      BY <2>1, <3>2
    <3> QED BY <1>3, <2>1, <3>1, <3>3, EntitledStands
  <2>7. Trading(u, "plan", session, plan, quotes, todo', attempts')
    BY DEF Trading
  <2>8. /\ Going(ledger', phase', session', plan', quotes')
        /\ Flat(ledger', phase', plan', pending', retry')
        /\ Trading(ledger', phase', session', plan', quotes', todo', attempts')
        /\ OwedOK(owed') /\ MarksOK(marks') /\ Entitlements(ledger', entitled', session')
    BY <1>2, <1>3, <1>6, <2>3, <2>5, <2>6, <2>7
  <2> QED BY <2>8 DEF LoopInv
<1> QED BY <1>4, <1>5, <1>6

LEMMA PlanStep == LoopInv /\ MakePlan => LoopInv'
<1> SUFFICES ASSUME LoopInv, MakePlan PROVE LoopInv'
  OBVIOUS
<1>1. PICK output \in Outputs :
         LET next    == PlanTargets(session, output, plan)
             differs == plan = NoPlan \/ next.targets # plan.targets
             last    == session = LastSession
         IN  \/ /\ PlanRefused(session, output, plan, Symbols)
                /\ Fail("planner")
                /\ UNCHANGED <<plan, pending>>
             \/ /\ ~PlanRefused(session, output, plan, Symbols)
                /\ plan' = next
                /\ pending' = ((differs \/ retry) /\ ~last)
                /\ phase' = IF last THEN "done" ELSE "open"
                /\ UNCHANGED failure
  BY DEF MakePlan
<1>2. /\ phase = "plan" /\ ledger' = ledger /\ session' = session /\ quotes' = quotes
      /\ marks' = marks /\ owed' = owed /\ retry' = retry /\ entitled' = entitled
  BY DEF MakePlan, ledgerVars
<1> DEFINE next    == PlanTargets(session, output, plan)
           differs == plan = NoPlan \/ next.targets # plan.targets
           last    == session = LastSession
<1>3. CASE Fail("planner")
  BY <1>2, <1>3, FailedStep DEF Fail
<1>4. CASE /\ ~PlanRefused(session, output, plan, Symbols)
           /\ plan' = next
           /\ pending' = ((differs \/ retry) /\ ~last)
           /\ phase' = IF last THEN "done" ELSE "open"
  <2>1. /\ LoopLedger(ledger) /\ DaysOK(ledger) /\ LotsDated(ledger, session)
        /\ PlanOK(plan) /\ QuotesOK(quotes) /\ session <= LastSession
        /\ session \in Calendar /\ FirstSession <= session /\ ClosedThrough(ledger, session)
        /\ Flat(ledger, "plan", plan, pending, retry) /\ OwedOK(owed) /\ MarksOK(marks)
        /\ Entitlements(ledger, entitled, session)
    BY <1>2 DEF LoopInv, Going, Evening
  <2>2. PlanOK(next)
    <3>1. /\ DOMAIN output \cup DOMAIN plan.targets \subseteq Symbols
          /\ WithinLimits(Merge(plan.targets, output))
      BY <1>4 DEF PlanRefused
    <3>2. next.asOf = session /\ next.targets = Merge(plan.targets, output)
      BY DEF PlanTargets
    <3>3. DOMAIN Merge(plan.targets, output) \subseteq Symbols
      BY <3>1 DEF Merge
    <3>4. \A y \in DOMAIN next.targets : next.targets[y] \in 0 .. 100
      BY <3>1, <3>2 DEF WithinLimits, Weighable
    <3>5. session \in Nat
      BY <2>1, CalendarAssumption
    <3> HIDE DEF next
    <3> QED BY <3>2, <3>3, <3>4, <3>5 DEF PlanOK
  <2> HIDE DEF next
  <2>3. Going(ledger, phase', session, next, quotes)
    <3>1. phase' \in Evening /\ phase' \notin Morning /\ (phase' = "open" => ~last)
      BY <1>4 DEF Morning, Evening
    <3> QED BY <2>1, <2>2, <3>1 DEF Going
  <2>4. ASSUME phase' = "open", ~pending' PROVE NoneLeft(ledger, next)
    <3>1. ~last
      BY <1>4, <2>4
    <3>2. ~differs /\ ~retry
      <4> HIDE DEF differs, last
      <4> QED BY <1>4, <2>4, <3>1
    <3>3. NoneLeft(ledger, plan)
      BY <2>1, <3>2 DEF Flat
    <3>4. next.targets = plan.targets
      BY <3>2
    <3> QED BY <3>3, <3>4 DEF NoneLeft
  <2>5. Flat(ledger, phase', next, pending', retry')
    <3>1. phase' \notin {"register", "pay", "close", "plan"}
      BY <1>4
    <3> QED BY <2>4, <3>1 DEF Flat
  <2>6. Trading(ledger', phase', session', plan', quotes', todo', attempts')
    <3>1. phase' # "trade"
      BY <1>4
    <3> QED BY <3>1 DEF Trading
  <2>7. /\ Going(ledger', phase', session', plan', quotes')
        /\ Flat(ledger', phase', plan', pending', retry')
        /\ OwedOK(owed') /\ MarksOK(marks') /\ Entitlements(ledger', entitled', session')
    BY <1>2, <1>4, <2>1, <2>3, <2>5
  <2> QED BY <2>6, <2>7 DEF LoopInv
<1> QED BY <1>1, <1>3, <1>4

\* The session that opens is the next one of the path.
LEMMA NextDay ==
    ASSUME NEW s \in Calendar \cup {NoDate}, s <= LastSession, s # LastSession,
           s \in Calendar => FirstSession <= s,
           NEW n, n = IF s = NoDate THEN FirstSession ELSE NextSession(s)
    PROVE  /\ n \in Calendar /\ s < n /\ n <= LastSession /\ FirstSession <= n
           /\ \A x \in Calendar : s < x /\ FirstSession <= x => n <= x
<1>1. /\ FirstSession \in Calendar /\ LastSession \in Calendar /\ FirstSession < LastSession
      /\ \A x \in Calendar : x \in Nat /\ x > 0
  BY LoopAssumption, CalendarAssumption
<1>2. CASE s = NoDate
  <2>1. n = FirstSession /\ s = 0
    BY <1>2 DEF NoDate
  <2> QED BY <1>1, <2>1
<1>3. CASE s \in Calendar
  <2>1. s # NoDate /\ s \in Nat
    BY <1>1, <1>3 DEF NoDate
  <2>2. n = NextSession(s)
    BY <2>1
  <2>3. s < LastSession
    BY <1>1, <2>1
  <2>4. NextSession(s) # NoDate
    <3>1. ~(LastSession <= s)
      BY <1>1, <2>1, <2>3
    <3> QED BY <1>1, <2>1, <3>1, NextSessionIs
  <2>5. n \in Calendar /\ s < n /\ \A x \in Calendar : s < x => n <= x
    BY <2>1, <2>2, <2>4, NextSessionIs
  <2>6. FirstSession <= n
    BY <1>1, <1>3, <2>1, <2>5
  <2> QED BY <1>1, <2>3, <2>5, <2>6
<1> QED BY <1>2, <1>3

\* The elements of Among are elements of the sequence and of the set.
LEMMA AmongIs ==
    ASSUME NEW X, NEW s \in Seq(X), NEW S
    PROVE  /\ Among(s, S) \in Seq(X)
           /\ \A i \in DOMAIN Among(s, S) : Among(s, S)[i] \in S
<1>1. Among(s, S) \in Seq(X) /\ Picks(Among(s, S), s, Len(s), S)
  BY AmongPicks
<1> DEFINE r == Among(s, S)
<1> HIDE DEF r
<1>2. r \in Seq(X) /\ Picks(r, s, Len(s), S)
  BY <1>1 DEF r
<1>3. DOMAIN r = 1 .. Len(r)
  BY <1>2, LenProperties
<1>4. \A i \in DOMAIN r : r[i] \in S
  BY <1>2, <1>3 DEF Picks, PicksAt
<1> QED BY <1>2, <1>4 DEF r

LEMMA OwedOnDay ==
    ASSUME LoopLedger(ledger), NEW date \in Nat, NEW S
    PROVE  LET due == Among(ExToday(date), S)
           IN  OwedOK([i \in DOMAIN due |-> <<due[i], ReceivableOf(due[i], date)>>])
<1> DEFINE T == {d \in DOMAIN Dividends : Dividends[d].ex = date}
           today == ExToday(date)
           due == Among(today, S)
           o == [i \in DOMAIN due |-> <<due[i], ReceivableOf(due[i], date)>>]
<1>1. PayOrder \in Seq(ReceivableIds)
  BY PayOrderAssumption
<1>2. today \in Seq(ReceivableIds) /\ \A i \in DOMAIN today : today[i] \in T
  <2> HIDE DEF T
  <2> QED BY <1>1, AmongIs DEF ExToday, T
<1> HIDE DEF today
<1>3. due \in Seq(ReceivableIds) /\ Picks(due, today, Len(today), S)
  BY <1>2, AmongPicks
<1> HIDE DEF due
<1>4. /\ Len(due) \in Nat /\ DOMAIN due = 1 .. Len(due)
      /\ DOMAIN today = 1 .. Len(today)
  BY <1>2, <1>3, LenProperties
<1>5. \A i \in 1 .. Len(due) : due[i] \in T /\ due[i] \in ReceivableIds
  <2>1. PICK place \in [1 .. Len(due) -> 1 .. Len(today)] :
           \A i \in 1 .. Len(due) : due[i] = today[place[i]]
    BY <1>3 DEF Picks, PicksAt
  <2>2. \A i \in 1 .. Len(due) : place[i] \in 1 .. Len(today)
    BY <2>1
  <2>3. \A i \in 1 .. Len(due) : due[i] \in ReceivableIds
    BY <1>3, <1>4, ElementOfSeq
  <2> HIDE DEF T
  <2> QED BY <1>2, <1>4, <2>1, <2>2, <2>3
<1>6. ASSUME NEW d \in T PROVE ReceivableOf(d, date) \in LoopReceivable
  <2> DEFINE v == Dividends[d]
  <2>1. v.symbol \in Symbols /\ v.payable \in Nat /\ v.perUnit \in Nat /\ v.record \in Nat
    BY LoopAssumption
  <2> HIDE DEF v
  <2>2. ActualCashDate(v.payable) \in Nat
    <3> DEFINE e == NextSession(v.payable)
    <3>1. e = NoDate \/ e \in Calendar
      BY <2>1, NextSessionIs
    <3> HIDE DEF e
    <3>2. NoDate \in Nat /\ \A x \in Calendar : x \in Nat
      BY CalendarAssumption DEF NoDate
    <3>3. e \in Nat
      BY <3>1, <3>2
    <3> QED BY <2>1, <3>3 DEF ActualCashDate, e
  <2>3. Entitlement(d) \in Nat
    <3>1. Entitlement(d) = HeldBy(ledger, v.symbol, v.record)
      BY DEF Entitlement, EntitledSize, HeldBy, LotsBy, v
    <3> QED BY <3>1, HeldByIsNat
  <2>4. AmountOf(d) \in Nat
    BY <2>1, <2>3, NotionalIsNat DEF AmountOf, v
  <2>5. ReceivableOf(d, date) =
           [symbol |-> v.symbol, registered |-> date, payable |-> v.payable,
            actual |-> ActualCashDate(v.payable), amount |-> AmountOf(d), paid |-> NoDate]
    BY DEF ReceivableOf, v
  <2>6. NoDate \in Nat
    BY DEF NoDate
  <2> QED BY <2>1, <2>2, <2>4, <2>5, <2>6 DEF LoopReceivable
<1>7. \A i \in 1 .. Len(due) :
         <<due[i], ReceivableOf(due[i], date)>> \in ReceivableIds \X LoopReceivable
  <2> HIDE DEF T
  <2> QED BY <1>5, <1>6
<1>8. o \in [1 .. Len(due) -> ReceivableIds \X LoopReceivable]
  BY <1>4, <1>7
<1> HIDE DEF o
<1>9. o \in Seq(ReceivableIds \X LoopReceivable)
  BY <1>4, <1>8, SeqDef
<1> QED BY <1>9 DEF OwedOK, o, due, today

LEMMA BarsOnDay ==
    ASSUME MarksOK(marks), NEW date, NEW q \in SessionQuotes(date)
    PROVE  /\ QuotesOK(q)
           /\ MarksOK([y \in Symbols |-> IF q[y] = NoBar THEN marks[y] ELSE q[y].close])
<1>1. ASSUME NEW y \in Symbols, q[y] # NoBar PROVE q[y].open \in Nat \ {0} /\ q[y].close \in Nat
  <2>1. PICK b \in Bars : q[y] = Quote(y, date, b)
    BY <1>1 DEF SessionQuotes
  <2>2. b.open \in Nat \ {0} /\ b.close \in Nat
    BY LoopAssumption
  <2>3. q[y].open = b.open /\ q[y].close = b.close
    BY <2>1 DEF Quote
  <2> QED BY <2>2, <2>3
<1> QED BY <1>1 DEF QuotesOK, MarksOK

LEMMA EntitledOnDay ==
    ASSUME LoopLedger(ledger), DaysOK(ledger), LotsDated(ledger, session),
           session \in Calendar \cup {NoDate}, ClosedThrough(ledger, session),
           Entitlements(ledger, entitled, session),
           NEW date \in Calendar, session < date,
           NEW T, \A d \in T : d \in DOMAIN Dividends /\ Dividends[d].ex = date,
           NEW e, e = [d \in DOMAIN entitled \cup T |->
                          IF d \in T THEN Entitlement(d) ELSE entitled[d]]
    PROVE  Entitlements(ledger, e, date)
<1>1. session \in Nat /\ date \in Nat
  BY CalendarAssumption DEF NoDate
<1>2. DOMAIN e = DOMAIN entitled \cup T /\ \A d \in DOMAIN e :
         e[d] = IF d \in T THEN Entitlement(d) ELSE entitled[d]
  OBVIOUS
<1> SUFFICES ASSUME NEW d \in DOMAIN e
             PROVE  /\ d \in DOMAIN Dividends /\ Dividends[d].ex <= date
                    /\ EntitledFrom(ledger, Dividends[d].symbol, Dividends[d].record, e[d],
                                    NextSession(Dividends[d].record) = Dividends[d].ex)
  BY DEF Entitlements
<1>3. CASE d \in T
  <2> DEFINE v == Dividends[d]
  <2>1. d \in DOMAIN Dividends /\ v.ex = date
    BY <1>3
  <2>2. v.symbol \in Symbols /\ v.record \in Nat /\ v.record < v.ex
    BY <2>1, LoopAssumption
  <2>3. Entitlement(d) = HeldBy(ledger, v.symbol, v.record)
    BY DEF Entitlement, EntitledSize, HeldBy, LotsBy
  <2>4. e[d] = Entitlement(d)
    BY <1>2, <1>3
  <2> HIDE DEF v
  <2>5. EntitledFrom(ledger, v.symbol, v.record, HeldBy(ledger, v.symbol, v.record),
                     NextSession(v.record) = v.ex)
    BY <1>1, <2>1, <2>2, HeldOnRecordDate
  <2>6. v.ex <= date
    BY <1>1, <2>1
  <2> QED BY <2>1, <2>3, <2>4, <2>5, <2>6 DEF v
<1>4. CASE d \notin T
  <2>1. d \in DOMAIN entitled /\ e[d] = entitled[d]
    BY <1>2, <1>4
  <2>2. /\ d \in DOMAIN Dividends /\ Dividends[d].ex <= session
        /\ EntitledFrom(ledger, Dividends[d].symbol, Dividends[d].record, entitled[d],
                        NextSession(Dividends[d].record) = Dividends[d].ex)
    BY <2>1 DEF Entitlements
  <2>3. Dividends[d].ex \in Nat
    BY <2>2, LoopAssumption
  <2>4. Dividends[d].ex <= date
    BY <1>1, <2>2, <2>3
  <2> QED BY <2>1, <2>2, <2>4
<1> QED BY <1>3, <1>4

LEMMA OpenStep == LoopInv /\ OpenSession => LoopInv'
<1> SUFFICES ASSUME LoopInv, OpenSession PROVE LoopInv'
  OBVIOUS
<1> DEFINE n == session'
           today == ExToday(n)
           T == ToSet(today)
           due == Among(today, {d \in T : AmountOf(d) > 0})
<1>1. /\ phase = "open" /\ n = IF session = NoDate THEN FirstSession ELSE NextSession(session)
      /\ quotes' \in SessionQuotes(n)
      /\ marks' = [y \in Symbols |-> IF quotes'[y] = NoBar THEN marks[y] ELSE quotes'[y].close]
      /\ \/ Fail("missing_calendar_coverage") /\ owed' = owed /\ entitled' = entitled
         \/ /\ owed' = [i \in DOMAIN due |-> <<due[i], ReceivableOf(due[i], n)>>]
            /\ entitled' = [d \in DOMAIN entitled \cup T |->
                               IF d \in T THEN Entitlement(d) ELSE entitled[d]]
            /\ phase' = IF pending THEN "start" ELSE "register"
      /\ ledger' = ledger /\ plan' = plan /\ pending' = pending
  BY DEF OpenSession, ledgerVars
<1>2. /\ LoopLedger(ledger) /\ DaysOK(ledger) /\ LotsDated(ledger, session) /\ PlanOK(plan)
      /\ session \in Calendar \cup {NoDate} /\ session <= LastSession /\ session # LastSession
      /\ session \in Calendar => FirstSession <= session
      /\ ClosedThrough(ledger, session) /\ Flat(ledger, "open", plan, pending, retry)
      /\ MarksOK(marks) /\ Entitlements(ledger, entitled, session)
  BY <1>1 DEF LoopInv, Going, Evening
<1>3. /\ n \in Calendar /\ session < n /\ n <= LastSession /\ FirstSession <= n
      /\ \A x \in Calendar : session < x /\ FirstSession <= x => n <= x
  BY <1>1, <1>2, NextDay
<1>4. session \in Nat /\ n \in Nat
  BY <1>2, <1>3, CalendarAssumption DEF NoDate
<1>5. CASE Fail("missing_calendar_coverage") /\ entitled' = entitled
  <2>1. Entitlements(ledger, entitled, n)
    <3> SUFFICES ASSUME NEW d \in DOMAIN entitled PROVE Dividends[d].ex <= n
      BY <1>2 DEF Entitlements
    <3>1. d \in DOMAIN Dividends /\ Dividends[d].ex <= session
      BY <1>2 DEF Entitlements
    <3>2. Dividends[d].ex \in Nat
      BY <3>1, LoopAssumption
    <3> HIDE DEF n
    <3> QED BY <1>3, <1>4, <3>1, <3>2
  <2>2. Entitlements(ledger', entitled', session') /\ phase' = "failed"
    BY <1>1, <1>5, <2>1 DEF Fail
  <2> QED BY <2>2 DEF LoopInv
<1>6. CASE /\ owed' = [i \in DOMAIN due |-> <<due[i], ReceivableOf(due[i], n)>>]
           /\ entitled' = [d \in DOMAIN entitled \cup T |->
                              IF d \in T THEN Entitlement(d) ELSE entitled[d]]
           /\ phase' = IF pending THEN "start" ELSE "register"
  <2>1. QuotesOK(quotes') /\ MarksOK(marks')
    BY <1>1, <1>2, BarsOnDay
  <2>2. OwedOK(owed')
    <3> HIDE DEF n
    <3> QED BY <1>2, <1>4, <1>6, OwedOnDay
  <2>3. \A d \in T : d \in DOMAIN Dividends /\ Dividends[d].ex = n
    <3> DEFINE S == {d \in DOMAIN Dividends : Dividends[d].ex = n}
    <3>1. \A i \in DOMAIN today : today[i] \in S
      <4> HIDE DEF S
      <4> QED BY PayOrderAssumption, AmongIs DEF ExToday, S
    <3> HIDE DEF today
    <3>2. \A d \in T : d \in S
      BY <3>1 DEF ToSet
    <3> QED BY <3>2
  <2>4. Entitlements(ledger, entitled', n)
    <3> HIDE DEF n, T
    <3> QED BY <1>2, <1>3, <1>6, <2>3, EntitledOnDay
  <2>5. phase' \in {"start", "register"} /\ (phase' = "register" => ~pending)
    BY <1>6
  <2>6. LotsDated(ledger, n)
    <3> HIDE DEF n
    <3>1. \A k \in DOMAIN ledger.lots : /\ ledger.lots[k].acquired \in Nat
                                        /\ ledger.lots[k].acquired <= session
                                        /\ ledger.lots[k].acquired \in Calendar
                                        /\ FirstSession <= ledger.lots[k].acquired
      BY <1>2, CalendarAssumption DEF LotsDated
    <3>2. \A k \in DOMAIN ledger.lots : ledger.lots[k].acquired <= n
      BY <1>3, <1>4, <3>1
    <3> QED BY <3>1, <3>2 DEF LotsDated
  <2>7. ClosedBefore(ledger, n)
    <3> HIDE DEF n
    <3> QED BY <1>2, <1>3, DayOpens
  <2>8. Going(ledger, phase', n, plan, quotes')
    <3>1. phase' \in Morning /\ phase' \notin Evening /\ phase' # "open"
      BY <2>5 DEF Morning, Evening
    <3> HIDE DEF n
    <3> QED BY <1>2, <1>3, <2>1, <2>6, <2>7, <3>1 DEF Going
  <2>9. Flat(ledger, phase', plan, pending, retry')
    <3>1. ~pending => NoneLeft(ledger, plan)
      BY <1>2 DEF Flat
    <3> QED BY <2>5, <3>1 DEF Flat
  <2>10. Trading(ledger', phase', session', plan', quotes', todo', attempts')
    BY <2>5 DEF Trading
  <2>11. /\ Going(ledger', phase', session', plan', quotes')
         /\ Flat(ledger', phase', plan', pending', retry')
         /\ Entitlements(ledger', entitled', session')
    BY <1>1, <2>4, <2>8, <2>9
  <2> QED BY <2>1, <2>2, <2>10, <2>11 DEF LoopInv
<1> QED BY <1>1, <1>5, <1>6

LEMMA LoopInit == Init => LoopInv
<1> SUFFICES ASSUME Init PROVE LoopInv
  OBVIOUS
<1> DEFINE none == [k \in DOMAIN <<>> |-> AsRollingLot(<<>>[k])]
           l == CreateRollingLedger(InitialCash)
<1>1. /\ ledger = l /\ phase = "open" /\ plan = NoPlan /\ session = NoDate
      /\ quotes = [y \in Symbols |-> NoBar] /\ marks = [y \in Symbols |-> 0]
      /\ owed = <<>> /\ entitled = None
  BY DEF Init
<1>2. l = [initial |-> InitialCash, cash |-> InitialCash, lots |-> none, events |-> <<>>,
           receivables |-> <<>>, snapshots |-> <<>>]
  BY DEF CreateRollingLedger, Promoted, CreateLedger
<1>3. DOMAIN <<>> = {} /\ DOMAIN none = {} /\ 1 .. 0 = {} /\ Len(<<>>) = 0
  OBVIOUS
<1>4. none \in Seq(LoopLot)
  <2>1. none \in [1 .. 0 -> LoopLot]
    BY <1>3
  <2> HIDE DEF none
  <2> QED BY <2>1, SeqDef
<1> HIDE DEF none, l
<1>5. l.lots = none /\ l.snapshots = <<>> /\ l.receivables = <<>>
  BY <1>2
<1>6. LedgerFields(l)
  <2>1. <<>> \in Seq(Range(<<>>)) /\ InitialCash \in Nat /\ InitialCash \in Int
    BY InitialCashAssumption
  <2> QED BY <1>2, <1>4, <2>1 DEF LedgerFields
<1>7. \A y : Realized(l, y) = 0
  <2> SUFFICES ASSUME NEW y PROVE Realized(l, y) = 0
    OBVIOUS
  <2>1. LotsOf(l, y) = {}
    BY <1>3, <1>5 DEF LotsOf
  <2>2. [i \in {} |-> l.lots[i].remaining] = [x \in {} |-> 0]
    OBVIOUS
  <2> QED BY <2>1, <2>2, SumOfNothing DEF Realized, SizeOf
<1>8. LoopLedger(l)
  <2>1. 0 % LotSize = 0
    BY DEF LotSize
  <2>2. DOMAIN l.receivables = {} /\ DOMAIN l.snapshots = {}
    BY <1>3, <1>5
  <2> QED BY <1>6, <1>7, <2>1, <2>2 DEF LoopLedger
<1>9. DaysOK(l) /\ LotsDated(l, NoDate)
  BY <1>3, <1>5 DEF DaysOK, LotsDated
<1>10. NoDate \notin Calendar /\ NoDate <= LastSession /\ NoDate # LastSession
       /\ \A s \in Calendar : ~(s <= NoDate)
  <2>1. LastSession \in Calendar /\ \A s \in Calendar : s \in Nat /\ s # 0
    BY CalendarAssumption, LoopAssumption
  <2> QED BY <2>1 DEF NoDate
<1>11. ClosedThrough(l, NoDate)
  BY <1>3, <1>5, <1>10 DEF ClosedThrough
<1>12. PlanOK(plan) /\ QuotesOK(quotes) /\ MarksOK(marks) /\ NoneLeft(l, plan)
  <2>1. plan.asOf = 0 /\ DOMAIN plan.targets = {}
    BY <1>1 DEF NoPlan
  <2> QED BY <1>1, <2>1 DEF PlanOK, QuotesOK, MarksOK, NoneLeft
<1>13. Going(l, "open", NoDate, plan, quotes)
  <2>1. "open" \in Evening /\ "open" \notin Morning
    BY DEF Morning, Evening
  <2> QED BY <1>8, <1>9, <1>10, <1>11, <1>12, <2>1 DEF Going
<1>14. Flat(l, "open", plan, pending, retry)
  BY <1>12 DEF Flat
<1>15. Trading(l, "open", NoDate, plan, quotes, todo, attempts)
  BY DEF Trading
<1>16. OwedOK(owed)
  <2>1. <<>> \in Seq(ReceivableIds \X LoopReceivable)
    OBVIOUS
  <2> QED BY <1>1, <2>1 DEF OwedOK
<1>17. Entitlements(l, entitled, NoDate)
  BY <1>1 DEF Entitlements, None
<1> QED BY <1>1, <1>12, <1>13, <1>14, <1>15, <1>16, <1>17 DEF LoopInv

LEMMA LoopNext == LoopInv /\ [Next]_vars => LoopInv'
<1> SUFFICES ASSUME LoopInv, [Next]_vars PROVE LoopInv'
  OBVIOUS
<1>1. CASE Next
  BY <1>1, OpenStep, StartStep, TradeStep, FinishStep, RegisterStep, PayStep, CloseStep,
     PlanStep DEF Next
<1>2. CASE UNCHANGED vars
  <2>1. /\ ledger' = ledger /\ phase' = phase /\ plan' = plan /\ session' = session
        /\ quotes' = quotes /\ todo' = todo /\ attempts' = attempts
        /\ marks' = marks /\ owed' = owed /\ pending' = pending /\ retry' = retry
        /\ entitled' = entitled
    BY <1>2 DEF vars, ledgerVars, callVars, loopVars
  <2>2. /\ Entitlements(ledger', entitled', session')
        /\ phase' # "failed" =>
              /\ Going(ledger', phase', session', plan', quotes')
              /\ Flat(ledger', phase', plan', pending', retry')
              /\ Trading(ledger', phase', session', plan', quotes', todo', attempts')
              /\ OwedOK(owed') /\ MarksOK(marks')
    BY <2>1 DEF LoopInv
  <2> QED BY <2>2 DEF LoopInv
<1> QED BY <1>1, <1>2

LEMMA LoopInvHolds == Spec => []LoopInv
<1>1. Init => LoopInv
  BY LoopInit
<1>2. LoopInv /\ [Next]_vars => LoopInv'
  BY LoopNext
<1> QED BY <1>1, <1>2, PTL DEF Spec

-----------------------------------------------------------------------------
(* The theorems *)

\* Every attempt of a rebalance goes as far as it can, whatever the bars, the
\* fees, the strategy and the ledger it starts from: a sell whole unless the
\* market is shut, a buy down to where one more board lot could not be paid.
THEOREM AttemptsGoFar == Spec => []AttemptsGoAsFarAsTheyCan
<1>1. LoopInv => AttemptsGoAsFarAsTheyCan
  <2> SUFFICES ASSUME LoopInv, phase = "trade", NEW i \in DOMAIN attempts
               PROVE  LET a     == attempts[i]
                          bar   == quotes[a.symbol]
                          price == bar.open
                          cost(size) == NotionalFen(price, size)
                                        + TotalFees(a.symbol, "buy", session, price, size)
                          shut  == bar = NoBar \/ LimitOpen(a.symbol, a.side, bar.reference, price)
                      IN  /\ shut <=> a.result \in {"suspended_no_bar", "price_limit_open"}
                          /\ a.side = "sell" /\ ~shut => a.filled = a.requested
                          /\ a.side = "buy" /\ ~shut /\ a.filled < a.requested =>
                                a.cashBefore < cost(a.filled + LotSize)
    BY DEF AttemptsGoAsFarAsTheyCan
  <2>1. GoesFar(attempts[i], quotes, session)
    BY DEF LoopInv, Trading, AttemptsFar
  <2> QED BY <2>1 DEF GoesFar, Cost
<1> QED BY <1>1, LoopInvHolds, PTL

\* When no rebalance is to come, nothing is left of a symbol whose target is
\* zero, however often its sells met a suspension or a price limit.
THEOREM FlatStaysFlat == Spec => []FlatTargetsEndFlat
<1>1. LoopInv => FlatTargetsEndFlat
  <2> SUFFICES ASSUME LoopInv, phase = "open" /\ ~pending
               PROVE  \A y \in DOMAIN plan.targets : plan.targets[y] = 0 => Realized(ledger, y) = 0
    BY DEF FlatTargetsEndFlat
  <2>1. NoneLeft(ledger, plan)
    BY DEF LoopInv, Flat
  <2> QED BY <2>1 DEF NoneLeft
<1> QED BY <1>1, LoopInvHolds, PTL

\* A dividend is owed on no more than was held at the close of its record date,
\* and on exactly that when the ex-date is the next session.
THEOREM RecordDatesCount == Spec => []EntitlementFollowsRecordDate
<1>1. LoopInv => EntitlementFollowsRecordDate
  BY DEF LoopInv, Entitlements, EntitledFrom, EntitlementFollowsRecordDate
<1> QED BY <1>1, LoopInvHolds, PTL

=============================================================================
