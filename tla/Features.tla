------------------------------ MODULE Features ------------------------------
(***************************************************************************)
(* The scoring functions of internal/features/calc.go: a feature of one    *)
(* coin from its candles, the normalisation of a cross-section of coins    *)
(* and the regime label.  The flags are in Scoring, as any choice of coins.*)
(*                                                                         *)
(* Floats become integers, rounded down: returns in thousandths, z-scores  *)
(* in tenths, the square of a volatility in millionths, scores in whole    *)
(* points and the research score in hundredths of a point.  Of a feature   *)
(* the fields that no score and no label is derived from are left out.     *)
(***************************************************************************)
EXTENDS Integers, Sequences, FiniteSetsExt, Functions

LOCAL Least(a, b) == IF a <= b THEN a ELSE b
Abs(n) == IF n < 0 THEN -n ELSE n

(* Faulty variant: the upper bound is forgotten.                           *)
FaultyClamp(v) == IF v < 0 THEN 0 ELSE v

(* Scores range from 0 to 100.                                             *)
Clamp(v) == IF v < 0 THEN 0 ELSE Least(100, v)

-----------------------------------------------------------------------------
(* Series *)

CandleSeries == Seq([high : Nat, low : Nat, close : Nat, volume : Nat])

Last(s) == IF s = <<>> THEN 0 ELSE s[Len(s)]
Recent(s, n) == SubSeq(s, Len(s) - Least(n, Len(s)) + 1, Len(s))
Total(s) == FoldFunction(+, 0, s)
Mean(s) == IF s = <<>> THEN 0 ELSE Total(s) \div Len(s)
Column(s, field) == [i \in DOMAIN s |-> s[i][field]]

(* The change over the last n steps, 0 without a value to compare with.    *)
ReturnN(s, n) ==
    IF Len(s) <= n \/ s[Len(s) - n] = 0 THEN 0
    ELSE (Last(s) * 1000) \div s[Len(s) - n] - 1000

(* The single changes, as a function of the steps that have one.           *)
Returns(s) ==
    [i \in {k \in 2..Len(s) : s[k - 1] # 0} |-> (s[i] * 1000) \div s[i - 1] - 1000]

(* The square of n times the standard deviation of n values.               *)
Deviation2(f) ==
    Cardinality(DOMAIN f) * Total([i \in DOMAIN f |-> f[i] * f[i]])
        - Total(f) * Total(f)

(* std(f) * sqrt(24), squared.                                             *)
Volatility2(f) ==
    IF DOMAIN f = {} THEN 0
    ELSE (24 * Deviation2(f)) \div (Cardinality(DOMAIN f) * Cardinality(DOMAIN f))

(* No z-score of n values exceeds the root of n, and n is at most 168.     *)
MaxZ == 130

ZScore(v, s) ==
    LET dev == Len(s) * v - Total(s)
        z2 == (100 * dev * dev) \div Deviation2(s)
        z == Max({k \in 0..MaxZ : k * k <= z2})
    IN IF Deviation2(s) = 0 THEN 0 ELSE IF dev < 0 THEN -z ELSE z

(* The directional move of a series of candles in its ranges.              *)
ADX(candles) ==
    LET ranges == Total([i \in DOMAIN candles |-> candles[i].high - candles[i].low])
    IN IF Len(candles) < 2 \/ ranges = 0 THEN 0
       ELSE Clamp((Abs(Last(candles).close - candles[1].close) * 100) \div ranges)

(* log10(1 + v), whole decades.                                            *)
Decades(v) == Max({k \in 0..9 : 10^k <= 1 + v})

-----------------------------------------------------------------------------
(* Scores and labels *)

(* In hundredths of a point.                                               *)
ResearchScores == 0..10000

ResearchScore(f) ==
    25 * f.liquidity + 20 * f.oiAnomaly + 20 * f.volumeAnomaly
        + 15 * f.momentum + 10 * f.fundingAnomaly + 10 * f.execution

(* The label of the first rule that applies.                               *)
Classify(f) ==
    LET rules ==
          <<<<f.execution < 25 \/ f.liquidity < 20, "ignore_low_liquidity">>,
            <<f.volatility2 < 400 /\ f.volumeZ > 8, "volatility_breakout_candidate">>,
            <<Abs(f.return24h) > 50 /\ f.adx > 20, "trend_candidate">>,
            <<f.return4h > 30 /\ f.rank > 70, "momentum_candidate">>,
            <<Abs(f.fundingZ) > 20 \/ Abs(f.return24h) > 120, "mean_reversion_candidate">>,
            <<f.volatility2 < 225, "squeeze_candidate">>,
            <<TRUE, "ignore_choppy">>>>
    IN rules[Min({i \in DOMAIN rules : rules[i][1]})][2]

Scored(f) ==
    LET s == [f EXCEPT !.research = ResearchScore(f)]
    IN [s EXCEPT !.label = Classify(s)]

(* The feature of a coin: candles and snapshots in the order of time.      *)
Calculate(candles, snaps, spreadBps) ==
    LET closes == Column(candles, "close")
        volumes == Column(candles, "volume")
        week == Recent(volumes, 168)
        ois == Column(snaps, "openInterest")
        fundings == Column(snaps, "funding")
        volumeZ == ZScore(Last(volumes), week)
        oiChange == ReturnN(ois, 24)
        fundingZ == ZScore(Last(fundings), Recent(fundings, 168))
    IN Scored([
        return4h       |-> ReturnN(closes, 4),
        return24h      |-> ReturnN(closes, 24),
        volumeZ        |-> volumeZ,
        volatility2    |-> Volatility2(Returns(Recent(closes, 24))),
        adx            |-> ADX(Recent(candles, 24)),
        fundingZ       |-> fundingZ,
        rank           |-> 0,
        liquidity      |-> Clamp(100 - 5 * spreadBps
                                 + 8 * Decades(Mean(Recent(volumes, 24)))),
        oiAnomaly      |-> Clamp((Abs(oiChange) * 3) \div 10),
        volumeAnomaly  |-> Clamp((volumeZ * 25) \div 10),
        momentum       |-> Clamp(Abs(ReturnN(closes, 24)) \div 2),
        fundingAnomaly |-> Clamp(Abs(fundingZ) * 2),
        execution      |-> Clamp(100 - 8 * spreadBps),
        research       |-> 0,
        label          |-> ""])

(* Faulty variant: measured down from the greatest value.                  *)
FaultyNormalize(v, values) ==
    IF Max(values) = Min(values) THEN 50
    ELSE Clamp(((Max(values) - v) * 100) \div (Max(values) - Min(values)))

(* Where v lies among the values, from 0 to 100; 50 when they are all one. *)
Normalize(v, values) ==
    IF Max(values) = Min(values) THEN 50
    ELSE Clamp(((v - Min(values)) * 100) \div (Max(values) - Min(values)))

(* Faulty variant: the scores are normalised, the labels are left.         *)
FaultyNormalizeCrossSection(fs) ==
    LET values(field) == {fs[c][field] : c \in DOMAIN fs} IN
    [c \in DOMAIN fs |->
        LET n == [fs[c] EXCEPT
                    !.rank          = Normalize(fs[c].return24h, values("return24h")),
                    !.liquidity     = Normalize(@, values("liquidity")),
                    !.oiAnomaly     = Normalize(@, values("oiAnomaly")),
                    !.volumeAnomaly = Normalize(@, values("volumeAnomaly"))]
        IN [n EXCEPT !.research = ResearchScore(n)]]

(* The features of several coins, made comparable and scored again.        *)
NormalizeCrossSection(fs) ==
    LET values(field) == {fs[c][field] : c \in DOMAIN fs} IN
    [c \in DOMAIN fs |->
        Scored([fs[c] EXCEPT
                    !.rank          = Normalize(fs[c].return24h, values("return24h")),
                    !.liquidity     = Normalize(@, values("liquidity")),
                    !.oiAnomaly     = Normalize(@, values("oiAnomaly")),
                    !.volumeAnomaly = Normalize(@, values("volumeAnomaly"))])]

==============================================================================
