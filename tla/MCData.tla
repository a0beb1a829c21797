-------------------------------- MODULE MCData --------------------------------
(***************************************************************************)
(* What collects, judges and uses data, for model checking in one run: the     *)
(* collection of candles, the report on them, the samples made of them, their  *)
(* replay, the macro context and the long-term scan.  They meet in the         *)
(* database only: each behaviour is one of them, on its own view of the tables, *)
(* with the others at rest.                                                   *)
(***************************************************************************)
EXTENDS Collection, QualityReport, Samples, Replay, MacroContext, LongTermScan, TLC

VARIABLE subject

CONSTANTS s1, i1, i2, v1, v2, x1, x2

\* One stock and one index, a session of four minutes, whose second and third
\* have an opening scan; the first bar of the stock comes late.
TwoTargets == <<"stock", "index">>
TwoOpenings == ("0905" :> 1) @@ ("0910" :> 2)
FirstBar == {<<"stock", 0>>}

-----------------------------------------------------------------------------

Init ==
  /\ subject \in {"collection", "report", "samples", "replay", "macro", "scan"}
  /\ CollectionInit /\ QualityInit /\ SampleInit /\ ReplayInit /\ MacroInit /\ ScanInit
  /\ subject # "replay" => method = "moving_average" /\ delayed
  /\ subject # "macro" => says = [i \in Indicators |-> v1]
  /\ subject # "scan" => watching = {}

Next ==
  /\ \/ /\ subject = "collection" /\ CollectionNext
        /\ UNCHANGED <<qualityVars, sampleVars, replayVars, macroVars, scanVars>>
     \/ /\ subject = "report" /\ QualityNext
        /\ UNCHANGED <<collectionVars, sampleVars, replayVars, macroVars, scanVars>>
     \/ /\ subject = "samples" /\ SampleNext
        /\ UNCHANGED <<collectionVars, qualityVars, replayVars, macroVars, scanVars>>
     \/ /\ subject = "replay" /\ ReplayNext
        /\ UNCHANGED <<collectionVars, qualityVars, sampleVars, macroVars, scanVars>>
     \/ /\ subject = "macro" /\ MacroNext
        /\ UNCHANGED <<collectionVars, qualityVars, sampleVars, replayVars, scanVars>>
     \/ /\ subject = "scan" /\ ScanNext
        /\ UNCHANGED <<collectionVars, qualityVars, sampleVars, replayVars, macroVars>>
  /\ UNCHANGED subject

dataVars ==
  <<subject, collectionVars, qualityVars, sampleVars, replayVars, macroVars, scanVars>>

Spec == Init /\ [][Next]_dataVars
===============================================================================
