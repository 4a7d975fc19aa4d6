----------------------------- MODULE Streaming -----------------------------
(***************************************************************************)
(* The streaming driver (StreamingFeatureEngine in features/engine.py): it *)
(* is primed with a history, fed one closed bar at a time, and must return *)
(* the rows the batch driver would have computed.                          *)
(*                                                                         *)
(* The bars that exist (history) grow while it runs.  The driver may work  *)
(* behind the market, and the store its context is resampled from may by   *)
(* then hold later bars than the one it is working on.                     *)
(***************************************************************************)
EXTENDS FeatureEngine

CONSTANTS BufferQuarters,    \* buffer_multiplier, in quarters (the code's 1.25 is 5)
          BufferPad,         \* the bars added to the buffer (10 in the code)
          MaxRedeliveries    \* bound: bars handed to update() a second time

VARIABLES history,    \* bars the market has closed, oldest first
          primed,     \* whether prime() has been called since the start
          base,       \* StreamingFeatureEngine._base
          context,    \* StreamingFeatureEngine._context
          consumed,   \* how many bars of history the engine has been given
          live,       \* rows update() has returned: bar number -> row
          redelivered \* how many updates were given an old bar

vars == <<history, primed, base, context, consumed, live, redelivered>>

\* Variant: without the ten bars on top.
BufferSizeUnpadded ==
  ((IF RequiredWarmup > MaxWarmupBars THEN RequiredWarmup ELSE MaxWarmupBars)
     * BufferQuarters) \div 4

\* StreamingFeatureEngine.__init__
BufferSize ==
  ((IF RequiredWarmup > MaxWarmupBars THEN RequiredWarmup ELSE MaxWarmupBars)
     * BufferQuarters) \div 4 + BufferPad

StreamingAssumption ==
  /\ EngineAssumption
  /\ BufferQuarters \in Nat /\ BufferQuarters >= 4 /\ BufferPad \in Nat
  /\ MaxRedeliveries \in Nat

ASSUME StreamingAssumption

-----------------------------------------------------------------------------
NoContext == [tf \in {} |-> {}]

Init ==
  /\ history = <<>>
  /\ primed = FALSE /\ base = <<>> /\ context = NoContext
  /\ consumed = 0 /\ live = <<>> /\ redelivered = 0

\* The market closes the bar that opened at o.
CloseBar(o) ==
  /\ history # <<>> => EndOf(history) <= o
  /\ history' = Append(history, o)
  /\ UNCHANGED <<primed, base, context, consumed, live, redelivered>>

\* Variant: the buffer is not trimmed.
PrimeUntrimmed(n, m) ==
  /\ CanResample(Prefix(history, m))
  /\ primed' = TRUE
  /\ base' = Prefix(history, n)
  /\ context' = ResampleMany(Prefix(history, m))
  /\ consumed' = n
  /\ UNCHANGED <<history, live, redelivered>>

\* prime() with the first n bars and a context resampled when there were m.
Prime(n, m) ==
  /\ CanResample(Prefix(history, m))
  /\ primed' = TRUE
  /\ base' = Latest(Prefix(history, n), BufferSize)
  /\ context' = ResampleMany(Prefix(history, m))
  /\ consumed' = n
  /\ UNCHANGED <<history, live, redelivered>>

\* The process is restarted: the buffer and the context are gone.
Restart ==
  /\ primed
  /\ primed' = FALSE /\ base' = <<>> /\ context' = NoContext /\ consumed' = 0
  /\ UNCHANGED <<history, live, redelivered>>

\* Variant: the context is kept from prime() on.
UpdateKeepingContext(j, ctx) ==
  /\ primed
  /\ base' = Latest(Append(base, history[j]), BufferSize)
  /\ live' = IF IsBarFrame(base') /\ \A i \in DOMAIN base' : NoLeakage(base', context, i)
             THEN [i \in DOMAIN live \cup {j} |->
                     IF i = j THEN Row(base', context, Len(base')) ELSE live[i]]
             ELSE live
  /\ consumed' = IF j > consumed THEN j ELSE consumed
  /\ UNCHANGED <<history, primed, context>>

\* update() with the jth bar and the context ctx.  The buffer and the context
\* are replaced before the buffer is validated; when it is not a frame, or a
\* leak is found, the call raises, returns no row, and leaves them replaced.
Update(j, ctx) ==
  /\ primed
  /\ base' = Latest(Append(base, history[j]), BufferSize)
  /\ context' = IF ctx # NoContext THEN ctx ELSE context
  /\ live' = IF IsBarFrame(base') /\ \A i \in DOMAIN base' : NoLeakage(base', context', i)
             THEN [i \in DOMAIN live \cup {j} |->
                     IF i = j THEN Row(base', context', Len(base')) ELSE live[i]]
             ELSE live
  /\ consumed' = IF j > consumed THEN j ELSE consumed
  /\ UNCHANGED <<history, primed>>

\* The next bar in turn, with a context refreshed from a store that holds it.
UpdateInTurn(m) ==
  /\ consumed < m
  /\ CanResample(Prefix(history, m))
  /\ Update(consumed + 1, ResampleMany(Prefix(history, m)))
  /\ UNCHANGED redelivered

Next ==
  \/ \E o \in Time : CloseBar(o)
  \/ \E n \in 1 .. Len(history) : \E m \in n .. Len(history) : Prime(n, m)
  \/ Restart
  \/ \E m \in 1 .. Len(history) : UpdateInTurn(m)

Spec == Init /\ [][Next]_vars

-----------------------------------------------------------------------------
\* A caller that retries: a bar the engine already has is handed over again.
Redeliver(j) ==
  /\ redelivered < MaxRedeliveries
  /\ j <= consumed
  /\ Update(j, NoContext)
  /\ redelivered' = redelivered + 1

RetrySpec ==
  Init /\ [][Next \/ \E j \in 1 .. Len(history) : Redeliver(j)]_vars

-----------------------------------------------------------------------------
\* The types of the state.
TypeOK ==
  /\ history \in Seq(Time) /\ IsBarFrame(history)
  /\ primed \in BOOLEAN
  /\ base \in Seq(Time) /\ Len(base) <= BufferSize
  /\ consumed \in 0 .. Len(history)
  /\ DOMAIN context \subseteq Timeframes
  /\ DOMAIN live \subseteq 1 .. Len(history)
  /\ redelivered \in 0 .. MaxRedeliveries

\* The row contract does not speak of the columns computed from the whole index.
CausalRows == [i \in DOMAIN live |-> CausalPart(live[i])]

PIT == INSTANCE PointInTime WITH rows <- CausalRows

\* Streaming parity (StreamingFeatureEngine; tests/leakage/test_feature_pit.py,
\* "Live features must equal backtest features exactly"): but for the columns
\* computed from the whole index, which of a live row is the buffer's, every row
\* update() returns is the one its bar's known history determines, through
\* restarts, catching up behind the market, bars handed over twice, and contexts
\* resampled from later bars.  That a base transform looks back from its own row
\* only is what features/base.py asks of it and is taken from there; what is
\* shown is the context, the running bars and the buffer.
LiveIsPointInTime == PIT!Spec
=============================================================================
