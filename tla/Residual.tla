------------------------------ MODULE Residual ------------------------------
(***************************************************************************)
(* The bins of a coding tree unit, and the coefficients of a transform     *)
(* unit: TEncSbac::codeCoeffNxN and TDecSbac::parseCoeffNxN, the scans and *)
(* context choices they share, and the sign bit hiding of the quantization *)
(* the coder relies on.                                                    *)
(*                                                                         *)
(* A bin is <<context, value>>: the context model it is coded with, or     *)
(* Bypass, Terminate, ..., and 0 or 1.  The arithmetic coder itself is the *)
(* subject of Cabac; here it is a queue.  What a decoder gets when it      *)
(* decodes a bin with another context than the one it was coded with is    *)
(* not known, so a reader remembers whether that happened.                 *)
(*                                                                         *)
(* A transform unit t has log2 (of its width, which is its height), comp   *)
(* (0 is luma), scanType, intra, mode (the intra mode, with the 4:2:2      *)
(* mapping), bypass, skip (transform skip) and rdpcm (the explicit mode).  *)
(* s holds the tools of the SPS and PPS.  Coefficients are a function of   *)
(* the raster position.                                                    *)
(***************************************************************************)
EXTENDS Integers, Sequences, SequencesExt

CONSTANT MaxPrefix      \* bound of the prefixes of exponential Golomb codes

ASSUME MaxPrefixAssumption == MaxPrefix \in 1..24

Bypass    == <<"bypass", 0>>
Terminate == <<"terminate", 0>>
Aligned   == <<"align", 0>>           \* TEncBinIf::align, not a bin of its own

Smaller(a, b) == IF a < b THEN a ELSE b
Larger(a, b)  == IF a > b THEN a ELSE b
Abs(n)        == IF n < 0 THEN -n ELSE n
Bit(b)        == IF b THEN 1 ELSE 0
Clip3(lo, hi, n) == Larger(lo, Smaller(hi, n))

If(condition, bins) == IF condition THEN bins ELSE << >>

(* The function f; the comparison makes TLC compute its values once.       *)
Table(f) == IF f = f THEN f ELSE f

(* The value v, for which TLC first computes the record r.                 *)
After(r, v) == IF DOMAIN r # {} THEN v ELSE v

(* The four parts of a unit one after the other, and its components: what  *)
(* Step makes of the record r.                                             *)
Next3(Step(_, _), r) == After(r, Step(3, r))
Next2(Step(_, _), r) == After(r, Next3(Step, Step(2, r)))
Next1(Step(_, _), r) == After(r, Next2(Step, Step(1, r)))
InTurn(Step(_, _), r) == Next1(Step, Step(0, r))

Chroma2(Step(_, _), r) == After(r, Step(2, r))
Chroma1(Step(_, _), r) == After(r, Chroma2(Step, Step(1, r)))
ComponentsInTurn(Step(_, _), r) == Chroma1(Step, Step(0, r))

-----------------------------------------------------------------------------
(* Writing.                                                                *)

Coded(ctx, value)     == <<(<<ctx, value>>)>>
Times(n, ctx, value)  == [k \in 1..n |-> <<ctx, value>>]
encodeBinsEP(v, n)    == [k \in 1..n |-> <<Bypass, (v \div 2^(n - k)) % 2>>]
encodeFlagsEP(flags)  == [k \in DOMAIN flags |-> <<Bypass, flags[k]>>]

(* An assertion of the code: a coder whose assertion fails produces a bin   *)
(* that nobody decodes.                                                    *)
Asserted(condition) == If(~condition, Coded(<<"assertion", 0>>, 0))

xWriteUnarySymbol(symbol, first, others) ==
  IF symbol = 0 THEN Coded(first, 0)
  ELSE Coded(first, 1) \o Times(symbol - 1, others, 1) \o Coded(others, 0)

xWriteUnaryMaxSymbol(symbol, first, others, max) ==
  CASE max = 0    -> << >>
    [] max # 0 /\ symbol = 0 -> Coded(first, 0)
    [] OTHER      -> Coded(first, 1) \o Times(symbol - 1, others, 1)
                     \o If(max > symbol, Coded(others, 0))

(* The number of ones before the separating zero: every one takes away      *)
(* twice as much as the one before.                                        *)
GolombPrefix(symbol, count) ==
  CHOOSE k \in 0..MaxPrefix : /\ symbol >= (2^k - 1) * 2^count
                              /\ symbol < (2^(k + 1) - 1) * 2^count

xWriteEpExGolomb(symbol, count) ==
  LET k == GolombPrefix(symbol, count)
  IN  Times(k, Bypass, 1) \o Coded(Bypass, 0)
      \o encodeBinsEP(symbol - (2^k - 1) * 2^count, count + k)
      \o Asserted(2 * k + 1 + count <= 32)

COEF_REMAIN_BIN_REDUCTION == 3

MaximumPrefixLength(range) == 32 - (COEF_REMAIN_BIN_REDUCTION + range)

(* TEncSbac::xWriteCoefRemainExGolomb: symbol in units of 2^rParam, then    *)
(* the remaining rParam bits.                                              *)
xWriteCoefRemainExGolomb(symbol, rParam, limited, range) ==
  LET units == symbol \div 2^rParam
      value == units - COEF_REMAIN_BIN_REDUCTION
      most  == MaximumPrefixLength(range)
      full  == value >= 2^most - 1
      k     == IF limited /\ full THEN most ELSE GolombPrefix(value, 0)
  IN  IF units < COEF_REMAIN_BIN_REDUCTION
        THEN Times(units, Bypass, 1) \o Coded(Bypass, 0)
             \o encodeBinsEP(symbol % 2^rParam, rParam)
        ELSE Times(COEF_REMAIN_BIN_REDUCTION + k, Bypass, 1)
             \o If(~(limited /\ full), Coded(Bypass, 0))
             \o encodeBinsEP(value - (2^k - 1), IF limited /\ full THEN range - rParam ELSE k)
             \o encodeBinsEP(symbol % 2^rParam, rParam)

-----------------------------------------------------------------------------
(* Reading.  A cursor is the place in the bins, the value read last, and   *)
(* whether every bin so far was decoded with its own context.              *)

CursorAt(bins) == [bins |-> bins, at |-> 1, v |-> 0, synced |-> TRUE]

BinAt(c, k)   == IF k <= Len(c.bins) THEN c.bins[k] ELSE <<(<<"end", 0>>), 0>>
Yields(c, v)  == [c EXCEPT !.v = v]

(* Every bin has been read, with its own context.                          *)
Consumed(c) == c.synced /\ c.at = Len(c.bins) + 1

Bin(c, ctx) ==
  LET bin == BinAt(c, c.at)
  IN  [c EXCEPT !.at = @ + 1, !.v = bin[2], !.synced = @ /\ bin[1] = ctx]

(* n bins, the k-th with context Context(earlier values, k): a sequence.   *)
BinsRead(c, n, Context(_, _)) ==
  LET values == Table([k \in 1..n |-> BinAt(c, c.at + k - 1)[2]])
  IN  [c EXCEPT !.at = @ + n, !.v = values,
                !.synced = @ /\ \A k \in 1..n :
                             BinAt(c, c.at + k - 1)[1] = Context(values, k)]

FlagsEP(c, n) == BinsRead(c, n, LAMBDA values, k : Bypass)

RECURSIVE Number(_, _)
Number(flags, n) == IF n = 0 THEN 0 ELSE 2 * Number(flags, n - 1) + flags[n]

BinsEP(c, n) == LET Value(r) == Yields(r, Number(r.v, n)) IN Value(FlagsEP(c, n))

(* The number of bins that are one from the k-th bin on, at most max.      *)
RECURSIVE OnesFrom(_, _, _)
OnesFrom(c, k, max) ==
  IF max = 0 \/ BinAt(c, k)[2] = 0 THEN 0 ELSE 1 + OnesFrom(c, k + 1, max - 1)

Unbounded == MaxPrefix         \* a longer run of ones is never written

(* Ones until a zero, at most max of them; the zero after max ones is left  *)
(* out.  The first is coded with first.                                    *)
UnaryRead(c, first, others, max) ==
  LET n == OnesFrom(c, c.at, max)
  IN  Yields(BinsRead(c, Smaller(n + 1, max), LAMBDA values, k : IF k = 1 THEN first ELSE others), n)

xReadUnarySymbol(c, first, others) == UnaryRead(c, first, others, Unbounded)

xReadUnaryMaxSymbol(c, first, others, max) ==
  IF max = 0 THEN Yields(c, 0) ELSE UnaryRead(c, first, others, max)

xReadEpExGolomb(c, count) ==
  LET Sum(prefix, suffix) == Yields(suffix, (2^prefix.v - 1) * 2^count + suffix.v)
      Suffixed(prefix) == Sum(prefix, BinsEP(prefix, count + prefix.v))
  IN  Suffixed(UnaryRead(c, Bypass, Bypass, Unbounded))

xReadCoefRemainExGolomb(c, rParam, limited, range) ==
  LET most   == MaximumPrefixLength(range)
      SuffixBins(k) == rParam + (IF limited /\ k = most THEN range - rParam ELSE k)
      Sum(units, suffix) == Yields(suffix, units * 2^rParam + suffix.v)
      Suffixed(prefix, k) ==
        IF k < 0 THEN Sum(prefix.v, BinsEP(prefix, rParam))
        ELSE Sum(2^k - 1 + COEF_REMAIN_BIN_REDUCTION, BinsEP(prefix, SuffixBins(k)))
      Prefixed(prefix) == Suffixed(prefix, prefix.v - COEF_REMAIN_BIN_REDUCTION)
  IN  Prefixed(UnaryRead(c, Bypass, Bypass,
                         IF limited THEN most + COEF_REMAIN_BIN_REDUCTION ELSE Unbounded))

align(c) == Bin(c, Aligned)
-----------------------------------------------------------------------------
(* The coefficients of a transform unit.                                   *)

SCAN_DIAG == 0
SCAN_HOR  == 1
SCAN_VER  == 2

RDPCM_OFF == 0
RDPCM_HOR == 1
RDPCM_VER == 2

HOR_IDX == 10
VER_IDX == 26

SBH_THRESHOLD == 4
C1FLAG_NUMBER == 8

Channel(comp) == IF comp = 0 THEN 0 ELSE 1

-----------------------------------------------------------------------------
(* Scans: ScanGenerator in a block of n x n; a place is <<x, y>>.          *)

GetNextIndex(scanType, n) == [x \in 0..(n - 1), y \in 0..(n - 1) |->
  CASE scanType = SCAN_DIAG /\ x # n - 1 /\ y # 0 -> <<x + 1, y - 1>>
    [] scanType = SCAN_DIAG /\ (x = n - 1 \/ y = 0) ->
         IF y + x + 1 < n THEN <<0, y + x + 1>> ELSE <<y + x + 1 - (n - 1), n - 1>>
    [] scanType = SCAN_HOR -> IF x = n - 1 THEN <<0, y + 1>> ELSE <<x + 1, y>>
    [] scanType = SCAN_VER -> IF y = n - 1 THEN <<x + 1, 0>> ELSE <<x, y + 1>>]

ScanOrder(scanType, n) ==
  LET place[k \in 1..(n * n)] == IF k = 1 THEN <<0, 0>> ELSE GetNextIndex(scanType, n)[place[k - 1]]
  IN  place

ScanOrders == Table([scanType \in 0..2, log2 \in 0..3 |-> ScanOrder(scanType, 2^log2)])

(* The k-th group of 4 x 4 of the unit, and the k-th place of the unit.    *)
GroupPlace(t, k) == ScanOrders[t.scanType, t.log2 - 2][k + 1]
ScanPlace(t, k)  == LET Inside(group, inner) == <<4 * group[1] + inner[1], 4 * group[2] + inner[2]>>
                    IN  Inside(GroupPlace(t, k \div 16), ScanOrders[t.scanType, 2][(k % 16) + 1])
Raster(t, place) == place[1] + place[2] * 2^t.log2

ScanPositions == Table([scanType \in 0..2, log2 \in 2..5 |->
  Table([k \in 0..(4^log2 - 1) |->
           LET t == [scanType |-> scanType, log2 |-> log2] IN Raster(t, ScanPlace(t, k))])])
ScanPos(t, k) == ScanPositions[t.scanType, t.log2][k]

-----------------------------------------------------------------------------
(* Contexts.  A group is significant: significant maps the places of the   *)
(* groups to 0 or 1.                                                       *)

NoGroups(t) == [g \in (0..(2^(t.log2 - 2) - 1)) \X (0..(2^(t.log2 - 2) - 1)) |-> 0]
Flag(groups, g) == IF g \in DOMAIN groups THEN groups[g] ELSE 0
SigRight(groups, g) == Flag(groups, <<g[1] + 1, g[2]>>)
SigLower(groups, g) == Flag(groups, <<g[1], g[2] + 1>>)

getSigCoeffGroupCtxInc(groups, g) == Larger(SigRight(groups, g), SigLower(groups, g))

CONTEXT_TYPE_4x4    == 1
CONTEXT_TYPE_8x8    == 2
CONTEXT_TYPE_NxN    == 3
CONTEXT_TYPE_SINGLE == 4
significanceMapContextSetStart == <<(<<0, 9, 21, 27>>), <<0, 9, 12, 15>>>>
SetStart(t, type) == significanceMapContextSetStart[Channel(t.comp) + 1][type]

ctxIndMap4x4 == <<0, 1, 4, 5, 2, 3, 4, 5, 6, 6, 8, 8, 7, 7, 8, 8>>

SingleContext(s, t) == s.transformSkipContext /\ (t.bypass \/ t.skip)

(* getTUEntropyCodingParameters: firstSignificanceMapContext.              *)
firstSignificanceMapContext(s, t) ==
  CASE SingleContext(s, t) -> SetStart(t, CONTEXT_TYPE_SINGLE)
    [] ~SingleContext(s, t) /\ t.log2 = 2 -> SetStart(t, CONTEXT_TYPE_4x4)
    [] ~SingleContext(s, t) /\ t.log2 = 3 ->
         SetStart(t, CONTEXT_TYPE_8x8) + (IF t.scanType # SCAN_DIAG /\ t.comp = 0 THEN 6 ELSE 0)
    [] OTHER -> SetStart(t, CONTEXT_TYPE_NxN)

(* How many of the neighbouring coefficients may be expected, from the     *)
(* significance of the groups to the right and below.                      *)
calcPatternSigCtx(groups, g) == SigRight(groups, g) + 2 * SigLower(groups, g)

CountInGroup(pattern, x, y) ==
  CASE pattern = 0 -> IF x + y >= 3 THEN 0 ELSE IF x + y >= 1 THEN 1 ELSE 2
    [] pattern = 1 -> IF y >= 2 THEN 0 ELSE IF y >= 1 THEN 1 ELSE 2
    [] pattern = 2 -> IF x >= 2 THEN 0 ELSE IF x >= 1 THEN 1 ELSE 2
    [] pattern = 3 -> 2

getSigCtxInc(s, t, pattern, place) ==
  LET x == place[1]
      y == place[2]
      notFirstGroup == (x \div 4) + (y \div 4) > 0
      offset == IF t.log2 = 2 THEN ctxIndMap4x4[4 * y + x + 1]
                ELSE (IF notFirstGroup /\ t.comp = 0 THEN 3 ELSE 0)
                     + CountInGroup(pattern, x % 4, y % 4)
  IN  CASE firstSignificanceMapContext(s, t) = SetStart(t, CONTEXT_TYPE_SINGLE) ->
             SetStart(t, CONTEXT_TYPE_SINGLE)
        [] firstSignificanceMapContext(s, t) # SetStart(t, CONTEXT_TYPE_SINGLE) /\ x + y = 0 -> 0
        [] OTHER -> firstSignificanceMapContext(s, t) + offset

NUM_SIG_FLAG_CTX_LUMA == 28

SigCtx(s, t, pattern, place) ==
  <<"sig", (IF t.comp = 0 THEN 0 ELSE NUM_SIG_FLAG_CTX_LUMA) + getSigCtxInc(s, t, pattern, place)>>
SigGroupCtx(t, groups, g) == <<"sig group", Channel(t.comp), getSigCoeffGroupCtxInc(groups, g)>>

getContextSetIndex(comp, subSet, greaterThan1) ==
  (IF comp = 0 THEN 0 ELSE 4) + (IF comp = 0 /\ subSet > 0 THEN 2 ELSE 0) + Bit(greaterThan1)

(* c1 before the k-th coefficient of a group (from 1), from the flags      *)
(* "greater than 1" of those before.                                       *)
c1(greater, k) == IF \E j \in 1..(k - 1) : greater[j] = 1 THEN 0 ELSE Smaller(k, 3)

OneCtx(ctxSet, greater, k) == <<"one", 4 * ctxSet + c1(greater, k)>>
AbsCtx(ctxSet) == <<"abs", ctxSet>>

g_uiMinInGroup == <<0, 1, 2, 3, 4, 6, 8, 12, 16, 24>>
g_uiGroupIdx(pos) == CHOOSE g \in 0..9 : /\ g_uiMinInGroup[g + 1] <= pos
                                         /\ g = 9 \/ pos < g_uiMinInGroup[g + 2]

(* getLastSignificantContextParameters, for the k-th bin of a coordinate.   *)
LastCtx(t, axis, k) ==
  LET size == t.log2 - 2
  IN  <<"last " \o axis, Channel(t.comp),
        IF t.comp = 0 THEN 3 * size + ((size + 1) \div 4) + (k \div 2^((size + 3) \div 4))
        ELSE k \div 2^size>>

-----------------------------------------------------------------------------
(* What both sides derive before the coefficients.                         *)

isRDPCMEnabled(s, t) == IF t.intra THEN s.implicitRdpcm ELSE s.explicitRdpcm

HasTransformSkipFlag(s, t) == ~t.bypass /\ t.log2 <= s.log2MaxTransformSkipSize

(* Two sets for luma, two for chroma: transformed, and not transformed.    *)
getGolombRiceStatisticsIndex(t) == 1 + 2 * Channel(t.comp) + Bit(t.skip \/ t.bypass)

(* The Rice parameter and the statistic after an escape value of a         *)
(* coefficient; only the first of a group changes the statistic.           *)
InitialRice(stat) == stat \div 4
RiceAfter(s, rice, level) ==
  IF level <= 3 * 2^rice THEN rice
  ELSE IF s.persistentRice THEN rice + 1 ELSE Smaller(rice + 1, 4)
StatAfter(stat, escape) ==
  LET initial == InitialRice(stat)
  IN  CASE escape >= 3 * 2^initial -> stat + 1
        [] escape < 3 * 2^initial /\ 2 * escape < 2^initial /\ stat > 0 -> stat - 1
        [] OTHER -> stat

(* The part of the k-th level of a group the flags already tell.           *)
BaseLevel(levels, k) ==
  IF k <= C1FLAG_NUMBER THEN 2 + Bit(\A j \in 1..(k - 1) : levels[j] < 2) ELSE 1

First(flags) == IF \E k \in DOMAIN flags : flags[k] = 1
                THEN CHOOSE k \in DOMAIN flags : /\ flags[k] = 1
                                                 /\ \A j \in 1..(k - 1) : flags[j] = 0
                ELSE 0

(* More than one coefficient greater than 1, one greater than 2, or more   *)
(* coefficients than have flags: there may be escape values.               *)
EscapeDataPresent(greater1, greater2, count) ==
  \/ count > C1FLAG_NUMBER
  \/ greater2 = 1
  \/ \E k \in DOMAIN greater1 : greater1[k] = 1 /\ k # First(greater1)

-----------------------------------------------------------------------------
(* Writing.                                                                *)

codeExplicitRdpcmMode(t) ==
  Coded(<<"rdpcm flag", Channel(t.comp)>>, Bit(t.rdpcm # RDPCM_OFF))
  \o If(t.rdpcm # RDPCM_OFF, Coded(<<"rdpcm dir", Channel(t.comp)>>, Bit(t.rdpcm = RDPCM_VER)))

codeTransformSkipFlags(s, t) ==
  If(HasTransformSkipFlag(s, t), Coded(<<"transform skip", Channel(t.comp)>>, Bit(t.skip)))

codeTools(s, t) ==
  If(t.bypass /\ ~t.intra /\ isRDPCMEnabled(s, t), codeExplicitRdpcmMode(t))
  \o If(s.transformSkip,
        codeTransformSkipFlags(s, t)
        \o If(t.skip /\ ~t.intra /\ isRDPCMEnabled(s, t), codeExplicitRdpcmMode(t)))

SignHidingCoded(s, t) ==
  /\ s.signHide
  /\ ~t.bypass
  /\ ~(t.skip /\ t.intra /\ t.mode \in {HOR_IDX, VER_IDX} /\ isRDPCMEnabled(s, t))
  /\ ~(s.transformSkip /\ t.skip /\ ~t.intra /\ isRDPCMEnabled(s, t) /\ t.rdpcm # RDPCM_OFF)

CoordinatePrefix(t, axis, pos) ==
  LET g == g_uiGroupIdx(pos)
  IN  [k \in 1..g |-> <<LastCtx(t, axis, k - 1), 1>>]
      \o If(g < g_uiGroupIdx(2^t.log2 - 1), Coded(LastCtx(t, axis, g), 0))

CoordinateSuffix(pos) ==
  LET g == g_uiGroupIdx(pos)
  IN  If(g > 3, encodeBinsEP(pos - g_uiMinInGroup[g + 1], (g - 2) \div 2))

codeLastSignificantXY(t, place) ==
  LET x == IF t.scanType = SCAN_VER THEN place[2] ELSE place[1]
      y == IF t.scanType = SCAN_VER THEN place[1] ELSE place[2]
  IN  CoordinatePrefix(t, "x", x) \o CoordinatePrefix(t, "y", y)
      \o CoordinateSuffix(x) \o CoordinateSuffix(y)

(* The scan positions of a group, from the last one down.                  *)
Down(from, to) == [k \in 1..(from - to + 1) |-> from - k + 1]
GroupFrom(last, i) == Smaller(last, 16 * i + 15)

(* The significance flags below the last coefficient; that of the first    *)
(* position is left out when the group would otherwise be empty.           *)
SigFlags(s, t, q, last, groups, i) ==
  LET Flags(scanned, pattern) ==
        [k \in DOMAIN scanned |-> <<SigCtx(s, t, pattern, ScanPlace(t, scanned[k])),
                                    Bit(q[ScanPos(t, scanned[k])] # 0)>>]
      Stated(n) == \/ n > 16 * i
                   \/ i = 0
                   \/ \E m \in (n + 1)..GroupFrom(last, i) : q[ScanPos(t, m)] # 0
  IN  Flags(SelectSeq(Down(Smaller(last - 1, 16 * i + 15), 16 * i), Stated),
            calcPatternSigCtx(groups, GroupPlace(t, i)))

RECURSIVE EscapeValues(_, _, _, _, _)
EscapeValues(s, t, levels, k, e) ==
  IF k > Len(levels) THEN e
  ELSE LET base  == BaseLevel(levels, k)
           value == levels[k] - base
       IN  After(e, EscapeValues(s, t, levels, k + 1,
             IF levels[k] < base THEN e
             ELSE [bins   |-> e.bins \o xWriteCoefRemainExGolomb(value, e.rice, s.extendedPrecision, t.range),
                   rice   |-> RiceAfter(s, e.rice, levels[k]),
                   stat   |-> IF e.update THEN StatAfter(e.stat, value) ELSE e.stat,
                   update |-> FALSE]))

(* The levels of a group: the flags greater than 1 and greater than 2, the *)
(* signs, and the rest.  st.greater says whether the group before had a    *)
(* coefficient greater than 1.                                             *)
codeLevels(s, t, q, i, scanned, st) ==
  LET count == Len(scanned)
      Sent(values, levels) ==
        LET ctxSet   == getContextSetIndex(t.comp, i, st.greater)
            greater1 == Table([k \in 1..Smaller(count, C1FLAG_NUMBER) |-> Bit(levels[k] > 1)])
            first    == First(greater1)
            greater2 == Bit(first # 0 /\ levels[first] > 2)
            present  == EscapeDataPresent(greater1, greater2, count)
            hidden   == scanned[1] - scanned[count] >= SBH_THRESHOLD /\ SignHidingCoded(s, t)
            flags    == [k \in DOMAIN greater1 |-> <<OneCtx(ctxSet, greater1, k), greater1[k]>>]
                        \o If(first # 0, Coded(AbsCtx(ctxSet), greater2))
                        \o If(present /\ s.cabacBypassAlignment, Coded(Aligned, 0))
                        \o encodeFlagsEP([k \in 1..(count - Bit(hidden)) |-> Bit(values[k] < 0)])
            Ended(end)     == [bins |-> st.bins \o end.bins, stat |-> end.stat, greater |-> first # 0]
            Escapes(start) == IF present THEN EscapeValues(s, t, levels, 1, start) ELSE start
        IN  Ended(Escapes([bins |-> flags, rice |-> InitialRice(st.stat), stat |-> st.stat,
                           update |-> s.persistentRice]))
      Levels(values) == Sent(values, Table([k \in 1..count |-> Abs(values[k])]))
  IN  IF count = 0 THEN st ELSE Levels(Table([k \in 1..count |-> q[ScanPos(t, scanned[k])]]))

codeGroup(s, t, q, last, groups, i, st) ==
  LET Flags(place) ==
        If(i # last \div 16 /\ i # 0, Coded(SigGroupCtx(t, groups, place), groups[place]))
        \o If(groups[place] = 1, SigFlags(s, t, q, last, groups, i))
  IN  codeLevels(s, t, q, i,
                 SelectSeq(Down(GroupFrom(last, i), 16 * i), LAMBDA n : q[ScanPos(t, n)] # 0),
                 [st EXCEPT !.bins = @ \o Flags(GroupPlace(t, i))])

RECURSIVE codeGroups(_, _, _, _, _, _, _)
codeGroups(s, t, q, last, groups, i, st) ==
  After(st, IF i < 0 THEN st
            ELSE codeGroups(s, t, q, last, groups, i - 1, codeGroup(s, t, q, last, groups, i, st)))

(* From the last coefficient down.                                         *)
codeFrom(s, t, q, stats, last) ==
  LET start  == [bins |-> codeTools(s, t) \o codeLastSignificantXY(t, ScanPlace(t, last)),
                 stat |-> stats[getGolombRiceStatisticsIndex(t)], greater |-> FALSE]
      groups == Table([g \in DOMAIN NoGroups(t) |->
                         Bit(\/ g \in {GroupPlace(t, 0), GroupPlace(t, last \div 16)}
                             \/ \E x, y \in 0..3 : q[Raster(t, <<4 * g[1] + x, 4 * g[2] + y>>)] # 0)])
  IN  codeGroups(s, t, q, last, groups, last \div 16, start)

(* TEncSbac::codeCoeffNxN: the bins, and the statistics afterwards.        *)
codeCoeffNxN(s, t, q, stats) ==
  LET size == 4^t.log2
      last == CHOOSE n \in 0..(size - 1) : /\ q[ScanPos(t, n)] # 0
                                           /\ \A m \in (n + 1)..(size - 1) : q[ScanPos(t, m)] = 0
      Ended(end) == [bins  |-> end.bins,
                     stats |-> [stats EXCEPT ![getGolombRiceStatisticsIndex(t)] = end.stat]]
  IN  Ended(codeFrom(s, t, q, stats, last))

-----------------------------------------------------------------------------
(* Reading.                                                                *)

parseExplicitRdpcmMode(c, t) ==
  LET Mode(dir)  == Yields(dir, IF dir.v = 0 THEN RDPCM_HOR ELSE RDPCM_VER)
      Rest(flag) == IF flag.v = 0 THEN Yields(flag, RDPCM_OFF)
                    ELSE Mode(Bin(flag, <<"rdpcm dir", Channel(t.comp)>>))
  IN  Rest(Bin(c, <<"rdpcm flag", Channel(t.comp)>>))

parseTransformSkipFlags(c, s, t) ==
  IF HasTransformSkipFlag(s, t) THEN Bin(c, <<"transform skip", Channel(t.comp)>>) ELSE Yields(c, 0)

(* The transform unit with its transform skip flag and explicit mode.      *)
parseTools(c, s, t) ==
  LET explicit == ~t.intra /\ isRDPCMEnabled(s, t)
      Tools(skip, mode) == [c |-> mode, t |-> [t EXCEPT !.skip = skip.v = 1, !.rdpcm = mode.v]]
      Lossy(lossless, skip) ==
        Tools(skip, IF skip.v = 1 /\ explicit THEN parseExplicitRdpcmMode(skip, t) ELSE Yields(skip, lossless.v))
      Skip(lossless) ==
        Lossy(lossless, IF s.transformSkip THEN parseTransformSkipFlags(lossless, s, t) ELSE Yields(lossless, 0))
  IN  Skip(IF t.bypass /\ explicit THEN parseExplicitRdpcmMode(c, t) ELSE Yields(c, RDPCM_OFF))

SignHidingParsed(s, t) ==
  /\ s.signHide
  /\ ~t.bypass
  /\ ~(t.skip /\ ~t.intra /\ isRDPCMEnabled(s, t) /\ t.rdpcm # RDPCM_OFF)
  /\ ~(t.intra /\ isRDPCMEnabled(s, t) /\ t.skip /\ t.mode \in {HOR_IDX, VER_IDX})

PrefixRead(c, t, axis) ==
  LET max == g_uiGroupIdx(2^t.log2 - 1)
      n   == OnesFrom(c, c.at, max)
  IN  Yields(BinsRead(c, Smaller(n + 1, max), LAMBDA values, k : LastCtx(t, axis, k - 1)), n)

SuffixRead(c, group) ==
  LET Within(rest) == Yields(rest, g_uiMinInGroup[group + 1] + rest.v)
  IN  IF group > 3 THEN Within(BinsEP(c, (group - 2) \div 2)) ELSE Yields(c, group)

parseLastSignificantXY(c, t) ==
  LET Place(x, y)       == Yields(y, IF t.scanType = SCAN_VER THEN <<y.v, x.v>> ELSE <<x.v, y.v>>)
      OfX(groupY, x)    == Place(x, SuffixRead(x, groupY.v))
      OfGroups(groupX, groupY) == OfX(groupY, SuffixRead(groupY, groupX.v))
      OfGroupX(groupX)  == OfGroups(groupX, PrefixRead(groupX, t, "y"))
  IN  OfGroupX(PrefixRead(c, t, "x"))

(* The significance flags of the scan positions below, most of them read;   *)
(* the first position is significant by itself if no other one is.         *)
SigFlagsRead(c, s, t, pattern, below, i, some) ==
  LET n == Len(below)
      Context(values, k) == SigCtx(s, t, pattern, ScanPlace(t, below[k]))
      Stated(read) == some \/ i = 0 \/ \E k \in DOMAIN read.v : read.v[k] = 1
      Inferred(read) == Yields(read, Append(read.v, 1))
      Rest(read)   == IF Stated(read) THEN BinsRead(c, n, Context) ELSE Inferred(read)
  IN  IF n = 0 THEN Yields(c, << >>) ELSE Rest(BinsRead(c, n - 1, Context))

RECURSIVE EscapeValuesRead(_, _, _, _)
EscapeValuesRead(s, t, k, e) ==
  IF k > Len(e.levels) THEN e
  ELSE LET base == BaseLevel(e.levels, k)
           Escaped(value, level) ==
             [e EXCEPT !.c = value,
                       !.levels[k] = level,
                       !.rice = RiceAfter(s, @, level),
                       !.stat = IF e.update THEN StatAfter(@, value.v) ELSE @,
                       !.update = FALSE]
           Added(value) == Escaped(value, base + value.v)
       IN  EscapeValuesRead(s, t, k + 1,
             IF e.levels[k] # base THEN e
             ELSE Added(xReadCoefRemainExGolomb(e.c, e.rice, s.extendedPrecision, t.range)))

RECURSIVE SumTo(_, _)
SumTo(numbers, n) == IF n = 0 THEN 0 ELSE numbers[n] + SumTo(numbers, n - 1)

(* The flags and signs of the levels of a group: what EscapeValuesRead     *)
(* starts from, and whether it has values to read.                         *)
LevelFlagsRead(s, t, i, st) ==
  LET count  == Len(st.scanned)
      ctxSet == getContextSetIndex(t.comp, i, st.greater)
      hidden == st.scanned[1] - st.scanned[count] >= SBH_THRESHOLD /\ SignHidingParsed(s, t)
      Signed(greater1, first, greater2, present) ==
        [c       |-> FlagsEP(IF present /\ s.cabacBypassAlignment THEN align(greater2) ELSE greater2,
                             count - Bit(hidden)),
         levels  |-> Table([k \in 1..count |->
                       IF k > C1FLAG_NUMBER THEN 1
                       ELSE 1 + greater1[k] + (IF k = first THEN greater2.v ELSE 0)]),
         rice    |-> InitialRice(st.stat), stat |-> st.stat, update |-> s.persistentRice,
         present |-> present, greater |-> first # 0, hidden |-> hidden]
      Greater2(greater1, first, greater2) ==
        Signed(greater1, first, greater2, EscapeDataPresent(greater1, greater2.v, count))
      Greater1(read, first) ==
        Greater2(read.v, first, IF first # 0 THEN Bin(read, AbsCtx(ctxSet)) ELSE Yields(read, 0))
      Flags(read) == Greater1(read, First(read.v))
  IN  Flags(BinsRead(st.c, Smaller(count, C1FLAG_NUMBER), LAMBDA values, k : OneCtx(ctxSet, values, k)))

(* The levels with their signs at their places; the sign that is hidden is *)
(* the parity of the levels.                                               *)
LevelsTaken(t, st, signs, hidden, end) ==
  LET count == Len(st.scanned)
      negative == IF hidden THEN Append(signs, SumTo(end.levels, count) % 2) ELSE signs
      Value(k) == IF negative[k] = 1 THEN -end.levels[k] ELSE end.levels[k]
      Filled(place) == Table([p \in DOMAIN st.q |-> IF p \in DOMAIN place THEN Value(place[p]) ELSE st.q[p]])
  IN  [st EXCEPT !.c = end.c, !.stat = end.stat, !.greater = end.greater,
                 !.q = Filled(Table([p \in {ScanPos(t, st.scanned[k]) : k \in 1..count} |->
                                       CHOOSE k \in 1..count : ScanPos(t, st.scanned[k]) = p]))]

parseLevels(s, t, i, st) ==
  LET Levels(start) == LevelsTaken(t, st, start.c.v, start.hidden,
                                   IF start.present THEN EscapeValuesRead(s, t, 1, start) ELSE start)
  IN  IF st.scanned = << >> THEN st ELSE Levels(LevelFlagsRead(s, t, i, st))

(* Whether a group is significant, and which of its positions are.         *)
parseSignificance(s, t, last, i, st) ==
  LET some == i = last \div 16
      Scanned(below, flags) ==
        SelectSeq(Down(GroupFrom(last, i), 16 * i),
                  LAMBDA n : n = last \/ (below # << >> /\ flags.v[below[1] - n + 1] = 1))
      Flags(groups, below, flags) ==
        [st EXCEPT !.c = flags, !.groups = groups, !.scanned = Scanned(below, flags)]
      Below(place, flag, groups, below) ==
        Flags(groups, below,
              SigFlagsRead(flag, s, t, calcPatternSigCtx(groups, place), below, i, some))
      Group(place, flag) ==
        Below(place, flag, [st.groups EXCEPT ![place] = flag.v],
              IF flag.v = 1 THEN Down(Smaller(last - 1, 16 * i + 15), 16 * i) ELSE << >>)
      Place(place) == Group(place, IF some \/ i = 0 THEN Yields(st.c, 1)
                                   ELSE Bin(st.c, SigGroupCtx(t, st.groups, place)))
  IN  Place(GroupPlace(t, i))

RECURSIVE parseGroups(_, _, _, _, _)
parseGroups(s, t, last, i, st) ==
  After(st, IF i < 0 THEN st
            ELSE parseGroups(s, t, last, i - 1, parseLevels(s, t, i, parseSignificance(s, t, last, i, st))))

parseFrom(s, t, stats, c, last) ==
  parseGroups(s, t, last, last \div 16,
              [c |-> c, q |-> [p \in 0..(4^t.log2 - 1) |-> 0], groups |-> NoGroups(t), scanned |-> << >>,
               stat |-> stats[getGolombRiceStatisticsIndex(t)], greater |-> FALSE])

parseLevelsOf(s, t, stats, place) ==
  LET last == CHOOSE n \in 0..(4^t.log2 - 1) : ScanPlace(t, n) = place.v
      Ended(end) == [c |-> end.c, q |-> end.q, t |-> t,
                     stats |-> [stats EXCEPT ![getGolombRiceStatisticsIndex(t)] = end.stat]]
  IN  Ended(parseFrom(s, t, stats, place, last))

parseAfterTools(s, tools, stats) ==
  parseLevelsOf(s, tools.t, stats, parseLastSignificantXY(tools.c, tools.t))

(* TDecSbac::parseCoeffNxN: the cursor, the coefficients, the statistic,   *)
(* and the unit with what was read of it.                                  *)
parseCoeffNxN(cursor, s, unit, stats) == parseAfterTools(s, parseTools(cursor, s, unit), stats)

-----------------------------------------------------------------------------
(* TComTrQuant::signBitHidingHDQ.  The sign of the first coefficient of a  *)
(* group is not coded when the last is SBH_THRESHOLD positions away; it is *)
(* the parity of the sum of the levels.  Where the parity is wrong, the    *)
(* level whose change costs least moves by one.  coef are the coefficients *)
(* before quantization, deltaU what quantization lost of each.             *)

Impossible == 10^9       \* std::numeric_limits<TCoeff>::max()

(* The cost of changing the level at scan position n of the group, and the *)
(* change of its magnitude.                                                *)
SignHidingChange(q, coef, deltaU, pos, n, first, negative) ==
  LET p == pos[n]
  IN  CASE q[p] # 0 /\ deltaU[p] > 0 -> [cost |-> -deltaU[p], change |-> 1]
        [] q[p] # 0 /\ deltaU[p] <= 0 /\ n = first /\ Abs(q[p]) = 1 ->
             [cost |-> Impossible, change |-> 0]
        [] q[p] # 0 /\ deltaU[p] <= 0 /\ ~(n = first /\ Abs(q[p]) = 1) ->
             [cost |-> deltaU[p], change |-> -1]
        [] q[p] = 0 /\ n < first /\ (coef[p] < 0) # negative ->
             [cost |-> Impossible, change |-> 0]
        [] OTHER -> [cost |-> -deltaU[p], change |-> 1]

MatchParity(t, q, coef, deltaU, pos, nonzero, lastGroup) ==
  LET first    == CHOOSE n \in nonzero : \A m \in nonzero : n <= m
      last     == CHOOSE n \in nonzero : \A m \in nonzero : n >= m
      negative == q[pos[first]] < 0
      sum      == SumTo([k \in 1..16 |-> Abs(q[pos[k - 1]])], 16)
      limit    == 2^t.range
      Change(minPos, change) == [q EXCEPT ![minPos] = IF coef[minPos] >= 0 THEN @ + change ELSE @ - change]
      Clipped(minPos, change) == Change(minPos, IF q[minPos] \in {limit - 1, -limit} THEN -1 ELSE change)
      Cheapest(changes) ==
        CHOOSE n \in DOMAIN changes : \A m \in DOMAIN changes :
          \/ changes[n].cost < changes[m].cost
          \/ changes[n].cost = changes[m].cost /\ n >= m
      Moved(changes, best) == Clipped(pos[best], changes[best].change)
      Best(changes)     == Moved(changes, Cheapest(changes))
  IN  IF nonzero = {} \/ last - first < SBH_THRESHOLD \/ Bit(negative) = sum % 2 THEN q
      ELSE Best(Table([n \in 0..(IF lastGroup THEN last ELSE 15) |->
                         SignHidingChange(q, coef, deltaU, pos, n, first, negative)]))

(* pos are the places of a group, nonzero those that have a level.         *)
HideSignOfGroup(t, q, coef, deltaU, i, lastGroup) ==
  LET Places(pos) == MatchParity(t, q, coef, deltaU, pos, {n \in 0..15 : q[pos[n]] # 0}, lastGroup)
  IN  Places(Table([n \in 0..15 |-> ScanPos(t, 16 * i + n)]))

RECURSIVE HideSignsFrom(_, _, _, _, _, _)
HideSignsFrom(t, q, coef, deltaU, i, lastGroup) ==
  IF i < 0 THEN q
  ELSE LET some == \E n \in 0..15 : q[ScanPos(t, 16 * i + n)] # 0
       IN  HideSignsFrom(t, HideSignOfGroup(t, q, coef, deltaU, i, lastGroup), coef, deltaU,
                         i - 1, lastGroup /\ ~some)

signBitHidingHDQ(t, q, coef, deltaU) ==
  HideSignsFrom(t, q, coef, deltaU, 4^(t.log2 - 2) - 1, TRUE)
=============================================================================
