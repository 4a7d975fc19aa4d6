----------------------------- MODULE Liquidity -----------------------------
(***************************************************************************)
(* Reference levels (features/liquidity.py): the high and low of the       *)
(* previous trading day, week and sessions, and of the session in          *)
(* progress, as of each bar of a growing history.                          *)
(*                                                                         *)
(* A level is represented by the bars whose high or low it is the extreme  *)
(* of, so that what is checked holds whatever their prices.                *)
(***************************************************************************)
EXTENDS Feed

-----------------------------------------------------------------------------
\* The labels _build_levels groups by, of every stamp there may be.
DayKey  == [stamp \in Stamps |-> Cal!TradingDay(stamp)]
WeekKey == [stamp \in Stamps |-> Cal!TradingDay(stamp) \div 7]

\* _completed_period_levels: the bars of the period that ended last before a
\* stamp.  A period ends with its last bar in the history.
Period(stamps, key, s) == {t \in stamps : key[t] = key[s]}

\* Variant: allow_exact_matches=True.
CompletedPeriodExact(stamps, key, stamp) ==
  LET ends == {s \in stamps : s <= stamp /\ ~\E t \in stamps : s < t /\ key[t] = key[s]}
  IN  IF ends = {} THEN {} ELSE Period(stamps, key, Max(ends))

CompletedPeriod(stamps, key, stamp) ==
  LET ends == {s \in stamps : s < stamp /\ ~\E t \in stamps : s < t /\ key[t] = key[s]}
  IN  IF ends = {} THEN {} ELSE Period(stamps, key, Max(ends))

\* _build_levels, at one of the stamps of a history.
DayLevel(stamps, stamp)  == CompletedPeriod(stamps, DayKey, stamp)
WeekLevel(stamps, stamp) == CompletedPeriod(stamps, WeekKey, stamp)

SessionLevel(name, stamps, stamp) == CompletedPeriod(stamps \cap Inside(name), Filed, stamp)

RunningLevel(stamps, stamp) ==
  {s \in stamps : s <= stamp /\ Filed[s] = Filed[stamp]}

Levels(stamps, stamp) ==
  [day     |-> DayLevel(stamps, stamp),
   week    |-> WeekLevel(stamps, stamp),
   session |-> [name \in SessionNames |-> SessionLevel(name, stamps, stamp)],
   running |-> RunningLevel(stamps, stamp)]

-----------------------------------------------------------------------------
\* What the levels need of the calendar and of the sessions: the trading days of
\* the stamps never go back, and the bars of a session are not interrupted by
\* bars of another.
DaysNeverGoBack ==
  \A s, t \in Stamps :
    /\ Cal!TradingDay(s) \in Int
    /\ s <= t => Cal!TradingDay(s) <= Cal!TradingDay(t)

Unbroken(set, key) ==
  \A s, u \in set, t \in Stamps :
    s < t /\ t < u /\ key[s] = key[u] => t \in set /\ key[t] = key[s]

SessionsAreUnbroken == \A name \in SessionNames : Unbroken(Inside(name), Filed)

-----------------------------------------------------------------------------
\* Replay equivalence: the levels of a bar are the same whether they are
\* computed when it is the last bar there is or over a longer history.
LevelsAreStable ==
  [][\A stamp \in history : Levels(history', stamp) = Levels(history, stamp)]_vars

\* The previous-day level of a bar comes from all the bars of one day that is
\* over: none shares its day with the bar, with a bar that is not in the level or
\* with one still to come, and no later day has any bar before it.  So with the
\* previous week.
WholePeriodBefore(level, key, stamp) ==
  \A s \in level :
    /\ key[s] < key[stamp]
    /\ Period(history, key, s) = level
    /\ ~\E t \in history : key[s] < key[t] /\ key[t] < key[stamp]

PreviousPeriodIsOver ==
  \A stamp \in history :
    /\ WholePeriodBefore(DayLevel(history, stamp), DayKey, stamp)
    /\ WholePeriodBefore(WeekLevel(history, stamp), WeekKey, stamp)
=============================================================================
