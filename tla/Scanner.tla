------------------------------ MODULE Scanner ------------------------------
(***************************************************************************)
(* The search for calendar spreads in a chain of quotes                    *)
(* (strategy/scanner.py).  An instrument is a record of asset, type,       *)
(* strike and expiry day; a chain maps the instruments quoted to their     *)
(* quotes.  Candidates are a set: the order of the search matters only     *)
(* through the ranking.                                                    *)
(***************************************************************************)
EXTENDS CalendarEngine

CONSTANTS
    Limits,         \* asset -> thresholds after overrides (config.asset_config)
    NearTargets,    \* NEAR_DAYS_OPTIONS, FAR_DAYS_OPTIONS
    FarTargets,
    NearTol,        \* NEAR_DAY_TOLERANCE, FAR_DAY_TOLERANCE
    FarTol,
    MaxFarFor1d,    \* MAX_FAR_DAYS_FOR_1D_NEAR, 0 for none
    MinNearDte,     \* MIN_NEAR_DTE_AT_ENTRY
    EvCap,          \* EV_SCORE_RANKING_CAP, in per cent
    Samples,        \* offsets from spot at which the payoff is sampled
    LnCdf(_)        \* offset from spot -> probability below it, in per cent

ASSUME SamplesAssumption == Samples \in Seq(Int)

Instrument == [asset : Asset, type : {"Call", "Put"}, strike : Nat \ {0}, expiry : Nat]
Quote == [iv : Nat, bid : Nat, ask : Nat, oi : Nat, bidSize : Nat, askSize : Nat]

DaysToExpiry(expiry, day) == Greatest(expiry - day, 0)

TwoSided(q) == q.bid > 0 /\ q.ask > 0

\* The expiry nearest to the target, as a set of at most one; of two equally near
\* the code takes the one first in the cache, here the earlier.
Nearest(expiries, target, day) ==
    LET away(e) == Distance(DaysToExpiry(e, day), target)
    IN  {e \in expiries : \A f \in expiries \ {e} :
            away(e) < away(f) \/ (away(e) = away(f) /\ e < f)}

Avg(S, P) == SumFunctionOnSet(P, S) \div Cardinality(S)

\* Expected value of one contract, in hundredths, from the probability of profit
\* and the average gain and loss of the samples.
EvScore(P, pop) ==
    LET gains == {i \in DOMAIN P : P[i] > 0}
        losses == DOMAIN P \ gains
    IN  (IF gains = {} THEN 0 ELSE pop * Avg(gains, P))
        - (IF losses = {} THEN 0 ELSE (100 - pop) * Distance(Avg(losses, P), 0))

\* Probability that the spread expires between its break-evens.  No crossing at
\* all is taken for profit over the whole range.
Pop(spot, be) ==
    LET whole == be.lo <= 0 /\ be.hi <= 0
        below(x) == IF x <= 0 THEN 0 ELSE LnCdf(x - spot)
        lo == IF whole THEN spot + Grid[1] ELSE be.lo
        hi == IF whole THEN spot + Grid[Cardinality(DOMAIN Grid)] ELSE be.hi
    IN  Least(100, Greatest(0, below(hi) - below(lo)))

\* The candidate of a pair, rated by its payoff at the grid and at the samples.
Rated(n, f, day, spot, near, far, grid, samples) ==
    LET pop == Pop(spot, FindBreakevens(spot, grid))
        debit == far.ask - near.bid
        fees == RoundTripFees(n.asset, spot, 1, near.bid, far.ask, TRUE)
    IN  [near |-> n, far |-> f, nearDays |-> DaysToExpiry(n.expiry, day), spot |-> spot,
         nearBid |-> near.bid, nearAsk |-> near.ask,
         farBid |-> far.bid, farAsk |-> far.ask, debit |-> debit, pop |-> pop,
         ev |-> (EvScore(samples, pop) - 100 * fees) \div debit,
         gains |-> \E i \in DOMAIN samples : samples[i] > 0]

\* The filters of _eval_candidate that need no payoff.
Passes(n, f, day, near, far, spot, isRoll) ==
    LET lim == Limits[n.asset]
        nd == DaysToExpiry(n.expiry, day)
    IN  /\ isRoll \/ 100 * Distance(n.strike, spot) <= lim.moneyness * spot
        /\ isRoll \/ nd >= MinNearDte
        /\ TwoSided(near) /\ TwoSided(far)
        /\ near.oi >= lim.minOi /\ far.oi >= lim.minOi
        /\ near.iv > 0 /\ far.iv > 0
        /\ isRoll \/ near.iv - far.iv >= lim.contango
        /\ far.ask > near.bid
        /\ nd > 0

\* The payoff of a pair at offsets from spot.
Payoff(offsets, n, f, day, near, far, spot) ==
    [i \in DOMAIN offsets |->
        PnlAtNearExpiry(n.type, spot + offsets[i], n.strike, near.iv, DaysToExpiry(n.expiry, day),
                        DaysToExpiry(f.expiry, day), far.ask - near.bid)]

\* One near/far pair: {} if a filter rejects it, else the one candidate.
EvalCandidate(n, f, day, near, far, spot, isRoll) ==
    IF ~ Passes(n, f, day, near, far, spot, isRoll) THEN {}
    ELSE {c \in {Rated(n, f, day, spot, near, far, grid, samples)
                   : grid \in {Payoff(Grid, n, f, day, near, far, spot)},
                     samples \in {Payoff(Samples, n, f, day, near, far, spot)}}
             : isRoll \/ c.pop >= Limits[n.asset].minPop}

\* The pairs of a group that the targets select.
NearChoices(group, day, target) ==
    Nearest({g \in group : Distance(DaysToExpiry(g, day), target) <= NearTol}, target, day)

FarChoices(group, day, n, target) ==
    Nearest({g \in group : /\ Distance(DaysToExpiry(g, day), target) <= FarTol
                           /\ DaysToExpiry(g, day) > DaysToExpiry(n, day)}, target, day)

Pairs(group, day) ==
    {p \in group \X group :
        \E nt \in NearTargets, ft \in FarTargets :
            /\ p[1] \in NearChoices(group, day, nt)
            /\ ft > DaysToExpiry(p[1], day)
            /\ ~(nt = 1 /\ MaxFarFor1d > 0 /\ ft > MaxFarFor1d)
            /\ p[2] \in FarChoices(group, day, p[1], ft)}

\* The expiries listed of a group, and the option of one of them.
Expiries(chain, g) ==
    {i.expiry : i \in {j \in DOMAIN chain : j.asset = g.asset /\ j.type = g.type /\ j.strike = g.strike}}

OptionOf(g, expiry) ==
    [asset |-> g.asset, type |-> g.type, strike |-> g.strike, expiry |-> expiry]

ScanPair(chain, spot, day, n, f, isRoll) ==
    EvalCandidate(n, f, day, chain[n], chain[f], spot, isRoll)

ScanGroup(chain, spot, day, g, isRoll) ==
    UNION {ScanPair(chain, spot, day, OptionOf(g, p[1]), OptionOf(g, p[2]), isRoll)
             : p \in Pairs(Expiries(chain, g), day)}

ScanGroups(chain, spots, day, groups, isRoll) ==
    UNION {ScanGroup(chain, spots[g.asset], day, g, isRoll) : g \in {h \in groups : spots[h.asset] > 0}}

GroupChain(chain, assets) ==
    {[asset |-> i.asset, type |-> i.type, strike |-> i.strike]
        : i \in {j \in DOMAIN chain : j.asset \in assets}}

\* scan() for the entries of the assets; `chain` holds the fresh quotes and
\* `spots` 0 where there is no spot price.
Scan(chain, spots, day, assets) ==
    ScanGroups(chain, spots, day, GroupChain(chain, assets), FALSE)

\* Fault: the candidates are not held to the position's own far leg.
ScanForRollAnyFar(chain, spots, day, n, f) ==
    ScanGroups(chain, spots, day, {[asset |-> n.asset, type |-> n.type, strike |-> n.strike]}, TRUE)

\* scan(roll_for=...): the position's own strike, type and far leg.
ScanForRoll(chain, spots, day, n, f) ==
    {c \in ScanGroups(chain, spots, day, {[asset |-> n.asset, type |-> n.type, strike |-> n.strike]}, TRUE)
        : c.far = f}

\* c is ranked before d: a score above the cap comes after those within it.
Ahead(c, d) ==
    \/ c.ev <= EvCap /\ d.ev > EvCap
    \/ (c.ev <= EvCap <=> d.ev <= EvCap) /\ c.ev > d.ev

=============================================================================
