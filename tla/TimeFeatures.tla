---------------------------- MODULE TimeFeatures ----------------------------
(***************************************************************************)
(* The features that count bars (features/time_features.py): a bar's place *)
(* in its session, how long ago the feed broke off, and the bars its true  *)
(* range is compared with.  Each is a function of a set of bars and of one *)
(* of them: the engine is given a whole history, or a part of one.         *)
(***************************************************************************)
EXTENDS Feed

CONSTANTS GapFlagBars,     \* gap_flag_bars
          SessionVolDays,  \* session_vol_days
          MinBaseline      \* fewest bars in an average (10 in the code)

ASSUME TimeFeaturesAssumption ==
  /\ GapFlagBars \in Nat /\ SessionVolDays \in Nat \ {0, 1} /\ MinBaseline \in Nat

UpTo(stamps, stamp) == {s \in stamps : s <= stamp}

-----------------------------------------------------------------------------
\* bars_since_session_open: groupby(session_id).cumcount()
Position(stamps, stamp) ==
  Cardinality({s \in stamps : s < stamp /\ Filed[s] = Filed[stamp]})

SessionSize(stamps, stamp) == Cardinality({s \in stamps : Filed[s] = Filed[stamp]})

\* The kth smallest size of the session of a bar that is not alone in its own.
NthSize(stamps, k) ==
  LET shared == {s \in stamps : \E t \in stamps \ {s} : Filed[t] = Filed[s]}
  IN  Min({SessionSize(stamps, s) : s \in
             {t \in shared : Cardinality({s \in shared : SessionSize(stamps, s)
                                                          <= SessionSize(stamps, t)}) >= k}})

\* Twice typical_bars: the median, over the bars that are not alone in their
\* session, of the size of the session they are in.
TwiceTypical(stamps) ==
  LET n == Cardinality({s \in stamps : \E t \in stamps \ {s} : Filed[t] = Filed[s]})
  IN  IF n = 0 THEN 2 ELSE NthSize(stamps, (n + 1) \div 2) + NthSize(stamps, n \div 2 + 1)

\* session_progress: the bars elapsed out of those of a typical session, zero
\* and one written in one way only.
Progress(stamps, stamp) ==
  LET elapsed == 2 * Position(stamps, stamp)
  IN  IF elapsed = 0 THEN <<0, 1>>
      ELSE IF elapsed >= TwiceTypical(stamps) THEN <<1, 1>>
      ELSE <<elapsed, TwiceTypical(stamps)>>

\* Variant: a single bar that is not there is not noticed.
OpensRunTolerant(stamps, s) == s - 1 \notin stamps /\ s - 2 \notin stamps

\* is_gap: more than one bar of time has passed since the bar before, or there
\* is none.
OpensRun(stamps, s) == s - 1 \notin stamps

\* _bars_since_gap
SinceGap(stamps, stamp) ==
  stamp - Max({s \in stamps : s <= stamp /\ OpensRun(stamps, s)})

\* is_post_gap
PostGap(stamps, stamp) == SinceGap(stamps, stamp) < GapFlagBars

\* _session_atr_ratio: the bars whose average true range is the baseline.  They
\* are the latest before this one with the same label; how many depends on how
\* many labels the frame has, and too few give none.
Baseline(stamps, stamp) ==
  LET window  == Max({2, (SessionVolDays * DayLength) \div Cardinality({Label[s] : s \in stamps})})
      earlier == {s \in stamps : s < stamp /\ Label[s] = Label[stamp]}
      latest  == {s \in earlier : Cardinality({t \in earlier : t >= s}) <= window}
  IN  IF Cardinality(latest) < Max({MinBaseline, window \div 10}) THEN {} ELSE latest

-----------------------------------------------------------------------------
\* is_post_gap: "within the configured window after a feed gap".  While the
\* market, by its calendar, was shut at some instant of the window before a bar,
\* the bar is flagged.
ReopeningIsFlagged ==
  \A stamp \in history :
    (\E o \in stamp - 1 - GapFlagBars .. stamp - 1 : ~Cal!IsOpen(o)) /\ GapFlagBars > 0
      => PostGap(history, stamp)

\* features/base.py: "the value at bar i may depend only on bars <= i".  The
\* features that are scaled by a typical session, how far one has come and the
\* bars a session's true range is compared with, are those of a history that ends
\* with the bar.
FeaturesAreCausal ==
  \A stamp \in history :
    LET known == UpTo(history, stamp)
    IN  /\ Progress(history, stamp) = Progress(known, stamp)
        /\ Baseline(history, stamp) = Baseline(known, stamp)
=============================================================================
