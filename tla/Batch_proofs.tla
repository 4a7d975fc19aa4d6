---------------------------- MODULE Batch_proofs ----------------------------
(***************************************************************************)
(* The batch driver keeps its promises for every history, every grid, and  *)
(* every value of the constants the assumptions admit, and its own replay  *)
(* audit finds differences in no column that is not computed from the      *)
(* whole index, for every margin and every choice of cutoffs.              *)
(***************************************************************************)
EXTENDS PitAudit, FeatureEngine_proofs

\* The rows of the last run are still the ones their bars determine.
RowsAreReadings == \A i \in DOMAIN matrix : CausalPart(matrix[i]) = Reading(Prefix(history, i))

\* The contract the refinement is stated against is the module's own.
LEMMA SameReading == \A known : PIT!Reading(known) = Reading(known)
  BY DEF Reading, PIT!Reading, Latest, PIT!Latest, ClosedBars, PIT!ClosedBars,
         BarsInProgress, PIT!BarsInProgress, Intraday, PIT!Intraday,
         HtfBar, PIT!HtfBar, GroupKey, PIT!GroupKey, IntradayBounds, PIT!IntradayBounds,
         DailyBounds, PIT!DailyBounds, FloorTo, PIT!FloorTo, WallClock, PIT!WallClock,
         Localize, PIT!Localize, UtcOffset, PIT!UtcOffset,
         BarsOf, PIT!BarsOf, EndOf, PIT!EndOf, CloseOf, PIT!CloseOf

-----------------------------------------------------------------------------
LEMMA CloseBarStep ==
  ASSUME TypeOK, NEW o \in Time, CloseBar(o)
  PROVE  /\ TypeOK'
         /\ \A i \in 1 .. Len(history) : Prefix(history', i) = Prefix(history, i)
<1>1. Time \subseteq Int
  BY EngineAssumption DEF EngineAssumption, ResampleAssumption
<1>2. /\ history \in Seq(Time) /\ IsBarFrame(history)
      /\ history # <<>> => EndOf(history) <= o
      /\ history' = Append(history, o) /\ matrix' = matrix
  BY DEF TypeOK, CloseBar
<1>3. /\ history' \in Seq(Time) /\ IsBarFrame(history')
      /\ Len(history') = Len(history) + 1
      /\ \A i \in 1 .. Len(history) : Prefix(history', i) = Prefix(history, i)
  BY <1>1, <1>2, AppendedFrame
<1>4. DOMAIN matrix' \subseteq 1 .. Len(history')
  <2>1. Len(history) \in Nat
    BY <1>2, LenProperties
  <2> QED
    BY <1>2, <1>3, <2>1 DEF TypeOK
<1> QED
  BY <1>3, <1>4 DEF TypeOK

\* A run puts into the matrix the rows their bars determine, and nothing else.
LEMMA TransformStep ==
  ASSUME TypeOK, NEW n \in 1 .. Len(history), NEW m \in n .. Len(history), Transform(n, m)
  PROVE  /\ TypeOK'
         /\ DOMAIN matrix' \subseteq 1 .. Len(history)
         /\ \A i \in DOMAIN matrix' : CausalPart(matrix'[i]) = Reading(Prefix(history, i))
<1> DEFINE first == IF Warmup < n THEN Warmup + 1 ELSE 1
<1>1. history \in Seq(Time) /\ IsBarFrame(history) /\ history' = history
      /\ Len(history) \in Nat
  BY LenProperties DEF TypeOK, Transform
<1>2. \A i \in first .. n : i \in 1 .. n /\ i <= m
  <2>1. first \in Int /\ first >= 1
    <3>1. \A l \in Lookbacks : l \in Nat
      BY EngineAssumption
      DEF EngineAssumption, ResampleAssumption, Lookbacks, WidthOf, Intraday
    <3>2. RequiredWarmup \in Lookbacks
      BY EngineAssumption DEF EngineAssumption, RequiredWarmup
    <3>3. Warmup \in Nat
      BY <3>1, <3>2, EngineAssumption DEF Warmup, EngineAssumption
    <3> QED
      BY <1>1, <3>3
  <2> QED
    BY <1>1, <2>1
<1>3. matrix' = [i \in first .. n |->
                   Row(Prefix(history, n), ResampleMany(Prefix(history, m)), i)]
  BY DEF Transform
<1> HIDE DEF first
<1>4. ASSUME NEW i \in first .. n
      PROVE  CausalPart(Row(Prefix(history, n), ResampleMany(Prefix(history, m)), i))
               = Reading(Prefix(history, i))
  <2>1. m \in 1 .. Len(history) /\ i \in 1 .. n /\ i <= m
    BY <1>1, <1>2
  <2> QED
    BY <1>1, <2>1, EngineAssumption, RowIsReading
<1>5. DOMAIN matrix' = first .. n
  BY <1>3
<1>6. \A i \in first .. n : CausalPart(matrix'[i]) = Reading(Prefix(history, i))
  BY <1>3, <1>4
<1>7. DOMAIN matrix' \subseteq 1 .. Len(history)
  BY <1>1, <1>2, <1>5
<1> QED
  BY <1>1, <1>5, <1>6, <1>7 DEF TypeOK

\* TypeOK holds of every state of the batch driver.
THEOREM TypeInvariance == Spec => []TypeOK
<1>1. Init => TypeOK
  <2> SUFFICES ASSUME Init PROVE TypeOK
    OBVIOUS
  <2>1. history \in Seq(Time) /\ Len(history) = 0 /\ DOMAIN history = {} /\ DOMAIN matrix = {}
    BY EmptySeq DEF Init
  <2> QED
    BY <2>1 DEF TypeOK, IsBarFrame
<1>2. TypeOK /\ [Next]_vars => TypeOK'
  <2> SUFFICES ASSUME TypeOK, [Next]_vars PROVE TypeOK'
    OBVIOUS
  <2>1. CASE \E o \in Time : CloseBar(o)
    BY <2>1, CloseBarStep
  <2>2. CASE \E n \in 1 .. Len(history) : \E m \in n .. Len(history) : Transform(n, m)
    BY <2>2, TransformStep
  <2>3. CASE UNCHANGED vars
    BY <2>3 DEF TypeOK, vars
  <2> QED
    BY <2>1, <2>2, <2>3 DEF Next
<1> QED
  BY <1>1, <1>2, PTL DEF Spec

\* Whatever the batch driver does is what the row contract allows: replaying a
\* history with more bars in the frame and in the context changes no row.
THEOREM BatchIsPointInTime == Spec => MatrixIsPointInTime
<1>1. Init => PIT!Init
  BY DEF Init, PIT!Init, CausalRows
<1>2. TypeOK /\ [Next]_vars => [PIT!Next]_<<history, CausalRows>>
  <2> SUFFICES ASSUME TypeOK, Next PROVE PIT!Next
    BY DEF vars, CausalRows
  <2>1. CASE \E o \in Time : CloseBar(o)
    BY <2>1 DEF CloseBar, CausalRows, PIT!Next, PIT!CloseBar, EndOf, PIT!EndOf, CloseOf, PIT!CloseOf
  <2>2. CASE \E n \in 1 .. Len(history) : \E m \in n .. Len(history) : Transform(n, m)
    <3>1. /\ DOMAIN matrix' \subseteq 1 .. Len(history)
          /\ \A i \in DOMAIN matrix' : CausalPart(matrix'[i]) = Reading(Prefix(history, i))
      BY <2>2, TransformStep
    <3>2. history' = history
      BY <2>2 DEF Transform
    <3>3. \A i : PIT!Reading(PIT!Prefix(history, i)) = Reading(Prefix(history, i))
      BY SameReading DEF Prefix, PIT!Prefix
    <3>4. DOMAIN CausalRows' = DOMAIN matrix'
      BY DEF CausalRows
    <3>5. CausalRows' = [i \in DOMAIN CausalRows' |-> PIT!Reading(PIT!Prefix(history, i))]
      BY <3>1, <3>3, <3>4 DEF CausalRows
    <3> QED
      BY <3>1, <3>2, <3>4, <3>5 DEF PIT!Next, PIT!Publish
  <2> QED
    BY <2>1, <2>2 DEF Next
<1> QED
  BY <1>1, <1>2, TypeInvariance, PTL DEF Spec, MatrixIsPointInTime, PIT!Spec

-----------------------------------------------------------------------------
\* With drop_incomplete_last_bar set, as it is by default, a resampled bar is
\* final from the moment the resampler first returns it.
THEOREM ResampledBarsAreFinal ==
  ASSUME DropIncompleteLastBar
  PROVE  Spec => CompletedBarsAreFinal
<1>1. TypeOK /\ [Next]_vars =>
        [\A tf \in Timeframes : history # <<>> =>
           ResampleBars(tf, history) \subseteq ResampleBars(tf, history')]_history
  <2> SUFFICES ASSUME TypeOK, [Next]_vars, history' # history,
                      NEW tf \in Timeframes, history # <<>>
               PROVE  ResampleBars(tf, history) \subseteq ResampleBars(tf, history')
    OBVIOUS
  <2>1. PICK o \in Time : CloseBar(o)
    BY DEF Next, Transform, vars
  <2>2. /\ ResampleAssumption /\ WellFormedGrid(tf)
        /\ history \in Seq(Time) /\ IsBarFrame(history)
    BY EngineAssumption DEF EngineAssumption, TypeOK
  <2>3. EndOf(history) <= o /\ history' = Append(history, o)
    BY <2>1 DEF CloseBar
  <2> QED
    BY <2>2, <2>3, ReturnedIsFinal
<1> QED
  BY <1>1, TypeInvariance, PTL DEF Spec, CompletedBarsAreFinal

\* With the H4 grid anchored at the epoch, which is where the running features
\* look for it, they describe the bar that is in progress.
THEOREM RunningDescribesBarInProgress ==
  ASSUME H4Anchor = 0
  PROVE  Spec => []RunningIsBarInProgress
<1>1. Init => RowsAreReadings
  BY DEF Init, RowsAreReadings
<1>2. TypeOK /\ RowsAreReadings /\ [Next]_vars => RowsAreReadings'
  <2> SUFFICES ASSUME TypeOK, RowsAreReadings, [Next]_vars PROVE RowsAreReadings'
    OBVIOUS
  <2>1. CASE \E o \in Time : CloseBar(o)
    <3>1. /\ matrix' = matrix /\ DOMAIN matrix \subseteq 1 .. Len(history)
          /\ \A i \in 1 .. Len(history) : Prefix(history', i) = Prefix(history, i)
      BY <2>1, CloseBarStep DEF CloseBar, TypeOK
    <3> QED
      BY <3>1 DEF RowsAreReadings
  <2>2. CASE \E n \in 1 .. Len(history) : \E m \in n .. Len(history) : Transform(n, m)
    BY <2>2, TransformStep DEF RowsAreReadings, Transform
  <2>3. CASE UNCHANGED vars
    BY <2>3 DEF RowsAreReadings, vars
  <2> QED
    BY <2>1, <2>2, <2>3 DEF Next
<1>3. TypeOK /\ RowsAreReadings => RunningIsBarInProgress
  <2> SUFFICES ASSUME TypeOK, RowsAreReadings, NEW i \in DOMAIN matrix, NEW tf \in Intraday
               PROVE  matrix[i].running[tf] =
                        {o \in BarsOf(Prefix(history, i)) :
                           GroupKey(tf, o) = GroupKey(tf, history[i])}
    BY DEF RunningIsBarInProgress
  <2> DEFINE K == BarsOf(Prefix(history, i))
             start(o) == FloorTo(o, Width[tf], 0)
  <2>1. i \in 1 .. Len(history) /\ i \in 1 .. i /\ history \in Seq(Time)
        /\ IsBarFrame(history) /\ Time \subseteq Int /\ Width[tf] \in Nat \ {0}
    BY EngineAssumption DEF TypeOK, EngineAssumption, ResampleAssumption
  <2>2. /\ Len(Prefix(history, i)) = i /\ Prefix(history, i)[i] = history[i]
        /\ K \subseteq Time /\ history[i] \in Int
    BY <2>1, PrefixElements, KnownBars, ElementOfSeq
  <2>3. matrix[i].running[tf] = {o \in K : start(history[i]) <= o
                                           /\ o < start(history[i]) + Width[tf]}
    <3> HIDE DEF K
    <3>1. CausalPart(matrix[i]) = Reading(Prefix(history, i))
      BY DEF RowsAreReadings
    <3>2. matrix[i].running = Reading(Prefix(history, i)).running
      BY <3>1 DEF CausalPart, Reading
    <3>3. matrix[i].running[tf] = BarsInProgress(tf, Prefix(history, i))
      BY <3>2 DEF Reading
    <3> QED
      BY <2>2, <3>3 DEF BarsInProgress, K
  <2>4. \A o : GroupKey(tf, o) = [open |-> start(o), close |-> start(o) + Width[tf]]
    BY DEF GroupKey, IntradayBounds, Intraday
  <2>5. ASSUME NEW o \in K
        PROVE  start(history[i]) <= o /\ o < start(history[i]) + Width[tf]
                 <=> GroupKey(tf, o) = GroupKey(tf, history[i])
    <3>1. o \in Int
      BY <2>1, <2>2
    <3>2. start(o) <= o /\ o < start(o) + Width[tf]
      <4>1. 0 \in Int
        OBVIOUS
      <4> QED
        BY <2>1, <3>1, <4>1, FloorBounds
    <3>3. start(history[i]) <= o /\ o < start(history[i]) + Width[tf]
            => start(o) = start(history[i])
      BY <2>1, <2>2, <3>1, FloorUnique
    <3>4. GroupKey(tf, o) = GroupKey(tf, history[i]) <=> start(o) = start(history[i])
      <4> HIDE DEF start
      <4> QED
        BY <2>4
    <3> QED
      BY <3>2, <3>3, <3>4
  <2> HIDE DEF K, start
  <2>6. matrix[i].running[tf] = {o \in K : GroupKey(tf, o) = GroupKey(tf, history[i])}
    BY <2>3, <2>5
  <2> QED
    BY <2>6 DEF K
<1> QED
  BY <1>1, <1>2, <1>3, TypeInvariance, PTL DEF Spec

-----------------------------------------------------------------------------
\* The bars the audit cuts off at are bars of the history.
LEMMA CutoffsAreBars ==
  ASSUME NEW n \in Nat \ {0}
  PROVE  Cutoffs(n) \subseteq 1 .. n
<1>1. RequiredWarmup \in Nat
  <2>1. \A l \in Lookbacks : l \in Nat
    BY EngineAssumption DEF EngineAssumption, ResampleAssumption, Lookbacks, WidthOf, Intraday
  <2>2. RequiredWarmup \in Lookbacks
    BY EngineAssumption DEF EngineAssumption, RequiredWarmup
  <2> QED
    BY <2>1, <2>2
<1>2. Lowest(n) \in Int /\ Lowest(n) >= -1
  BY <1>1, PitAuditAssumption DEF Lowest
<1> QED
  BY <1>2 DEF Cutoffs

\* A replay, with the frame and the context cut off at the close of bar i,
\* computes the row that bar is entitled to, but for the columns computed from
\* the whole index.
LEMMA ReplayIsReading ==
  ASSUME NEW s \in Seq(Time), IsBarFrame(s), NEW i \in 1 .. Len(s)
  PROVE  CausalPart(Row(Prefix(s, i), Truncated(ResampleMany(s), EndOf(Prefix(s, i))), i))
           = Reading(Prefix(s, i))
<1> DEFINE known == Prefix(s, i)
           n     == Len(s)
           full  == ResampleMany(s)
           t     == CloseOf(s[i])
           cut   == Truncated(full, t)
           own   == ResampleMany(known)
<1>1. /\ ResampleAssumption /\ \A tf \in Timeframes : WellFormedGrid(tf)
      /\ Time \subseteq Int /\ n \in 1 .. Len(s) /\ i \in 1 .. i /\ i \in 1 .. n
      /\ Prefix(s, n) = s
  BY EngineAssumption, PrefixOfAll, LenProperties DEF EngineAssumption, ResampleAssumption
<1>2. EndOf(known) = t /\ t \in Int /\ known[i] = s[i]
  BY <1>1, KnownBars, PrefixElements
<1>3. DOMAIN cut = Timeframes /\ DOMAIN own = Timeframes
  BY DEF ResampleMany, Truncated
<1>4. ASSUME NEW tf \in Timeframes
      PROVE  /\ AlignedHtf(cut[tf], t) = ClosedBars(tf, known)
             /\ AlignedHtf(own[tf], t) = ClosedBars(tf, known)
  <2> DEFINE all == ResampleBars(tf, s)
             early == {bar \in all : bar.close <= t}
  <2>1. WellFormedGrid(tf) /\ cut[tf] = early /\ own[tf] = ResampleBars(tf, Prefix(s, i))
    BY <1>1 DEF ResampleMany, Truncated
  <2>2. early = ClosedBars(tf, known)
    BY <1>1, <2>1, ResampledPrefix
  <2>3. \A bar \in early : bar.close \in Int
    BY <1>1, <2>1, ResampledEnds
  <2>4. AlignedHtf(early, t) = {bar \in early : bar.close <= t}
    <3> HIDE DEF early
    <3> QED
      BY <1>2, <2>3, AsofJoin
  <2>5. AlignedHtf(ResampleBars(tf, Prefix(s, i)), t) = ClosedBars(tf, known)
    BY <1>1, <2>1, AlignedIsClosed
  <2> QED
    BY <2>1, <2>2, <2>4, <2>5
<1>5. CausalPart(Row(known, own, i)) = Reading(known)
  BY <1>1, EngineAssumption, RowIsReading
<1> HIDE DEF known, cut, own, t
<1>6. Row(known, cut, i) = Row(known, own, i)
  <2>1. [tf \in DOMAIN cut |-> AlignedHtf(cut[tf], CloseOf(known[i]))]
          = [tf \in DOMAIN own |-> AlignedHtf(own[tf], CloseOf(known[i]))]
    BY <1>2, <1>3, <1>4 DEF t
  <2> QED
    BY <2>1 DEF Row
<1> QED
  BY <1>2, <1>5, <1>6 DEF known, cut

\* So at no cutoff of any history can any other column differ.
LEMMA OnlyIndexDiffers ==
  ASSUME TypeOK, CanResample(history), NEW i \in Cutoffs(Len(history)),
         NEW column \in Differing(ResampleMany(history), i)
  PROVE  column = "index"
<1> DEFINE n == Len(history)
           ctx == ResampleMany(history)
           full == Row(history, ctx, i)
           replay == Row(Prefix(history, i), Truncated(ctx, EndOf(Prefix(history, i))), i)
<1>1. history \in Seq(Time) /\ IsBarFrame(history) /\ n \in Nat \ {0}
  BY LenProperties DEF TypeOK, CanResample
<1>2. i \in 1 .. n /\ n \in 1 .. n /\ i <= n
  BY <1>1, CutoffsAreBars
<1>3. Prefix(history, n) = history
  BY <1>1, PrefixOfAll
<1>4. CausalPart(full) = Reading(Prefix(history, i))
  <2>1. CausalPart(Row(Prefix(history, n), ResampleMany(Prefix(history, n)), i))
          = Reading(Prefix(history, i))
    BY <1>1, <1>2, EngineAssumption, RowIsReading
  <2> QED
    BY <1>3, <2>1
<1>5. CausalPart(replay) = Reading(Prefix(history, i))
  BY <1>1, <1>2, ReplayIsReading
<1>6. column \in Columns /\ full[column] # replay[column]
  BY DEF Differing
<1> HIDE DEF full, replay
<1>7. /\ full.window = replay.window /\ full.running = replay.running
      /\ full.htf = replay.htf
  BY <1>4, <1>5 DEF CausalPart
<1> QED
  BY <1>6, <1>7 DEF Columns

-----------------------------------------------------------------------------
\* The audit of features/pit_audit.py reports a mismatch in no column but those
\* computed from the whole index, whatever the history, the grids, the margin and
\* the cutoffs drawn: what it samples of the context, the running bars and the
\* trailing windows holds of every cutoff.
THEOREM CausalColumnsAlwaysReplay == AuditSpec => []CausalColumnsReplay
<1>1. AuditInit => TypeOK /\ CausalColumnsReplay
  <2> SUFFICES ASSUME AuditInit PROVE TypeOK /\ CausalColumnsReplay
    OBVIOUS
  <2>1. /\ history \in Seq(Time) /\ Len(history) = 0
        /\ DOMAIN history = {} /\ DOMAIN matrix = {}
    BY EmptySeq DEF AuditInit, Init
  <2> QED
    BY <2>1 DEF AuditInit, TypeOK, IsBarFrame, CausalColumnsReplay
<1>2. TypeOK /\ CausalColumnsReplay /\ [AuditNext]_auditVars => (TypeOK /\ CausalColumnsReplay)'
  <2> SUFFICES ASSUME TypeOK, CausalColumnsReplay, [AuditNext]_auditVars
               PROVE  TypeOK' /\ CausalColumnsReplay'
    OBVIOUS
  <2>1. CASE Audit
    <3>1. TypeOK'
      BY <2>1 DEF Audit, TypeOK, vars
    <3>2. \A mismatch \in audit'.mismatches : mismatch[1] = "index"
      <4> DEFINE differing(i) == Differing(ResampleMany(history), i)
                 possible(drawn) == UNION {differing(i) \X {i} : i \in drawn}
      <4>1. PICK drawn \in SUBSET Cutoffs(Len(history)) :
               \E found \in SUBSET possible(drawn) :
                 audit' = [bars |-> Len(history), cutoffs |-> drawn, mismatches |-> found]
        BY <2>1, Zenon DEF Audit
      <4>2. PICK found \in SUBSET possible(drawn) :
               audit' = [bars |-> Len(history), cutoffs |-> drawn, mismatches |-> found]
        BY <4>1
      <4>3. \A i \in drawn : \A column \in differing(i) : column = "index"
        BY <2>1, <4>2, OnlyIndexDiffers DEF Audit
      <4> HIDE DEF differing
      <4>4. audit'.mismatches \subseteq possible(drawn)
        BY <4>2
      <4> QED
        BY <4>3, <4>4
    <3> QED
      BY <3>1, <3>2 DEF CausalColumnsReplay
  <2>2. CASE Next /\ UNCHANGED audit
    <3>1. CASE \E o \in Time : CloseBar(o)
      BY <2>2, <3>1, CloseBarStep DEF CausalColumnsReplay
    <3>2. CASE \E n \in 1 .. Len(history) : \E m \in n .. Len(history) : Transform(n, m)
      BY <2>2, <3>2, TransformStep DEF CausalColumnsReplay
    <3> QED
      BY <2>2, <3>1, <3>2 DEF Next
  <2>3. CASE UNCHANGED auditVars
    BY <2>3 DEF auditVars, vars, TypeOK, CausalColumnsReplay
  <2> QED
    BY <2>1, <2>2, <2>3 DEF AuditNext
<1> QED
  BY <1>1, <1>2, PTL DEF AuditSpec
=============================================================================
