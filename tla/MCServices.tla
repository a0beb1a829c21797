------------------------------ MODULE MCServices ------------------------------
(***************************************************************************)
(* Four components that keep state of their own and share none, for model    *)
(* checking in one run: each behaviour is one of the recorder, of the cached  *)
(* reads, of the quote stream or of the connections, with the others at rest. *)
(***************************************************************************)
EXTENDS Recorder, ReadCaches, QuoteStream, BrokerConnections, TLC

VARIABLE subject

CONSTANTS r1, r2, v1, v2, a, b, c, owner, guest, A1, B1, C1, A, B, C

-----------------------------------------------------------------------------
(* Values of the constants *)

BothKinds == {"decision", "candidate"}

Ask(read, n) == [read |-> read, count |-> n]
Both(w, v) == (r1 :> w) @@ (r2 :> v)

\* Reads that nest locks and share caches, candles by number, an index whose
\* answers do not last, and reads that tolerate errors; r2 has a budget.
SomeMixes ==
  { Both(Ask("portfolio", 1), Ask("candidates", 1)),
    Both(Ask("detail", 1), Ask("candles", 3)),
    Both(Ask("candles", 1), Ask("candles", 3)),
    Both(Ask("index", 3), Ask("index", 3)),
    Both(Ask("warm", 1), Ask("sparklines", 1)),
    Both(Ask("directory", 1), Ask("favorites", 1)),
    Both(Ask("portfolio", 1), Ask("top", 1)) }

Two(first, second) == (v1 :> first) @@ (v2 :> second)

\* Stocks of both or of one, more than fit, and a viewer that gets in half.
SomeWishes ==
  {Two(<<a>>, <<a>>), Two(<<a>>, <<b, a>>), Two(<<a, b>>, <<b, c>>)}
TwoStreams == {1, 2}

\* The account of the settings and two others: one that the guest may have saved
\* with an earlier version, and one that a first save may have left a file of.
SomeAccounts == (A1 :> A) @@ (B1 :> B) @@ (C1 :> C)
SomeLegacy == {(owner :> NoKey) @@ (guest :> NoKey), (owner :> NoKey) @@ (guest :> B1)}

-----------------------------------------------------------------------------

Init ==
  /\ subject \in {"recorder", "reads", "quotes", "connections"}
  /\ RecorderInit /\ ReadInit /\ QuoteInit /\ ConnectionInit
  /\ subject # "recorder" => kind = "decision"
  /\ subject # "reads" => open /\ wish = Both(Ask("candles", 1), Ask("candles", 3))
  /\ subject # "quotes" => wanted = Two(<<a>>, <<a>>)
  /\ subject # "connections" => column[guest] = NoKey

Next ==
  /\ \/ /\ subject = "recorder" /\ RecorderNext
        /\ UNCHANGED <<readVars, quoteVars, connectionVars>>
     \/ /\ subject = "reads" /\ ReadNext
        /\ UNCHANGED <<recorderVars, quoteVars, connectionVars>>
     \/ /\ subject = "quotes" /\ QuoteNext
        /\ UNCHANGED <<recorderVars, readVars, connectionVars>>
     \/ /\ subject = "connections" /\ ConnectionNext
        /\ UNCHANGED <<recorderVars, readVars, quoteVars>>
  /\ UNCHANGED subject

Spec ==
  /\ Init /\ [][Next]_<<subject, recorderVars, readVars, quoteVars, connectionVars>>
  /\ RecorderFairness /\ ReadFairness /\ QuoteFairness
===============================================================================
