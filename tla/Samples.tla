-------------------------------- MODULE Samples --------------------------------
(***************************************************************************)
(* Training samples from the collected data (auto_trader/ml/data_readiness.py). *)
(* A sample stands for a minute of a stock and a moment of prediction; its    *)
(* features may rest only on what was known then, its labels on what came     *)
(* later.  Data keep arriving, late ones among them, and the samples are      *)
(* built anew each time from a snapshot of the database.                      *)
(***************************************************************************)
EXTENDS Integers, FiniteSets, FiniteSetsExt

CONSTANTS
  Bars,      \* the session has the bars 1..Bars; bar i is complete at minute i + 1
  Lookback,  \* bars a sample looks back on, 40 in the code
  MaxDelay,  \* minutes a bar may be late and still be predicted from, 5 in the code
  Horizons,  \* minutes ahead, 5 to 60 in the code
  Observed,  \* when the macro indicator was observed, the minutes it may say
  LastMinute, MaxMissing, MaxMacros \* bounds: the clock, bars late at a time, macro rows

ASSUME SampleAssumption ==
  /\ Bars \in Nat \ {0} /\ Lookback \in Nat \ {0} /\ MaxDelay \in Nat \ {0}
  /\ Horizons \subseteq Nat \ {0} /\ Observed \subseteq Nat
  /\ LastMinute \in Nat /\ MaxMissing \in Nat /\ MaxMacros \in Nat

VARIABLES
  now,      \* minutes
  stock,    \* when each stored bar of the stock became available
  index,    \* the same of the domestic index
  macros,   \* observations of a macro indicator
  cycle     \* when the macro collection that is running began

sampleVars == <<now, stock, index, macros, cycle>>

None == -1
Session == 1..Bars
End == Bars + 1

\* A bar before the session may be there, too.
Events == 0..Bars

SampleInit ==
  now = 0 /\ stock = << >> /\ index = << >> /\ macros = {} /\ cycle = None

-----------------------------------------------------------------------------
(* The collectors *)

With(series, bars) ==
  [e \in DOMAIN series \cup bars |-> IF e \in DOMAIN series THEN series[e] ELSE now + 1]

\* Bars that are complete and not there.
Due(series, events) == {e \in events : e <= now} \ DOMAIN series

\* A minute passes and bars arrive, most of them at once.
Receive(bars, indices) ==
  /\ now < LastMinute /\ now' = now + 1
  /\ stock' = With(stock, bars) /\ index' = With(index, indices)
  /\ Cardinality(Due(stock, Events) \ bars) + Cardinality(Due(index, Session) \ indices) <= MaxMissing
  /\ UNCHANGED <<macros, cycle>>

\* A macro collection writes its rows one by one, all marked with its beginning.
BeginMacro ==
  /\ cycle = None /\ Cardinality(macros) < MaxMacros
  /\ cycle' = now
  /\ UNCHANGED <<now, stock, index, macros>>

SaveMacro ==
  /\ cycle # None
  /\ \E e \in Observed : macros' = macros \cup {[event |-> e, marked |-> cycle, finished |-> None]}
  /\ Cardinality(macros') <= MaxMacros
  /\ UNCHANGED <<now, stock, index, cycle>>

EndMacro ==
  /\ cycle # None /\ cycle' = None
  /\ macros' = {IF m.finished = None THEN [m EXCEPT !.finished = now] ELSE m : m \in macros}
  /\ UNCHANGED <<now, stock, index>>

SampleNext ==
  \/ \E bars \in SUBSET Due(stock, Events), indices \in SUBSET Due(index, Session) :
       Receive(bars, indices)
  \/ BeginMacro \/ SaveMacro \/ EndMacro

SampleSpec == SampleInit /\ [][SampleNext]_sampleVars

-----------------------------------------------------------------------------
(* A snapshot and its samples *)

\* The moment of the newest receipt.
AsOf == Max({0} \cup {stock[e] : e \in DOMAIN stock} \cup {index[e] : e \in DOMAIN index}
            \cup {m.finished : m \in macros})

\* Variant: a macro row counts as known since the time it is marked with.
MarkedRows == {[event |-> m.event, available |-> m.marked] : m \in macros}

\* Only when its collection had ended was a row known for sure.
MacroRows ==
  {[event |-> m.event, available |-> m.finished] : m \in {r \in macros : r.finished # None}}

Prediction(at) == IF at \in DOMAIN stock THEN Max({at + 1, stock[at]}) ELSE at + 1

Window(at) == (at - Lookback + 1)..at

\* Why a minute gives no sample.
Excluded(at) ==
  LET moment == Prediction(at) IN
  \/ at \notin Session \/ at \notin DOMAIN stock
  \/ moment > at + MaxDelay \/ moment >= End \/ moment > AsOf
  \/ \E e \in Window(at) : e < 1 \/ e \notin DOMAIN stock
  \/ \E e \in Window(at) \cap DOMAIN stock : stock[e] > moment
  \/ \E e \in {at - 1, at} : e \notin DOMAIN index \/ index[e] > moment

\* Of the macro rows known at the moment, the one of the newest event.
Newest(moment) ==
  LET known == {m \in MacroRows : m.available <= moment}
  IN Max({None} \cup {m.event : m \in known})

\* The session's first bar and the macro row may be missing; the rest is fixed.
Features(at) ==
  [opening |-> 1 \in DOMAIN stock /\ stock[1] <= Prediction(at), macro |-> Newest(Prediction(at))]

\* Variant: the order is executed in the next bar after the one predicted from.
NextBar(at) == at + 1

\* The first bar that begins after the moment of prediction.
Entry(at) == Prediction(at) + 1

Executable(at) == Entry(at) < End /\ Entry(at) \in DOMAIN stock

Path(at, h) == Entry(at)..(Entry(at) + h - 1)

\* The labels there are: of the path from the bar, and of the one that could
\* have been traded.  No path has holes or leaves the session.
Labels(at) ==
  [future |-> {h \in Horizons : /\ at \in DOMAIN stock /\ at + h < End
                                /\ (at + 1)..(at + h) \subseteq DOMAIN stock},
   executable |-> {h \in Horizons : /\ Executable(at) /\ Entry(at) + h - 1 < End
                                    /\ Path(at, h) \subseteq DOMAIN stock}]

Usable(at) == ~Excluded(at)

-----------------------------------------------------------------------------

(* "Features require knowledge at prediction time": whatever arrives later,   *)
(* a sample that was usable stays so, with the same features, and keeps the   *)
(* labels it has; a sample built today is one that could have been built      *)
(* then (data_readiness.py:3, 119-134, 208-350).                            *)
SamplesAreFrozen ==
  [][\A bar \in DOMAIN stock : Usable(bar) /\ Prediction(bar) < now =>
       /\ Usable(bar)' /\ Features(bar)' = Features(bar)
       /\ Labels(bar).future \subseteq Labels(bar)'.future
       /\ Labels(bar).executable \subseteq Labels(bar)'.executable]_sampleVars

(* Nothing of the outcome a usable sample is judged by was known when it was  *)
(* predicted, also when the last bar came late (data_readiness.py:240-243,    *)
(* 325-343).                                                                *)
OutcomesWereUnknown ==
  \A at \in DOMAIN stock : Usable(at) =>
    \A h \in Labels(at).executable : \A e \in Path(at, h) : stock[e] > Prediction(at)
================================================================================
