---------------------------- MODULE ShareLedger ----------------------------
(***************************************************************************)
(* What a paper account promises about the shares it holds: each share has *)
(* one owner, and an order moves shares of its own owner only.  The shares *)
(* of a symbol are                                                         *)
(*   free     - bought by hand and left alone by the strategy,             *)
(*   adopted  - bought by hand and handed to the running strategy,         *)
(*   managed  - bought by a strategy and looked after by the current one,  *)
(*   resting  - bought by a strategy, outside the management scope.        *)
(* A strategy sells adopted and managed shares only; a manual sale takes   *)
(* free shares first, then resting ones, and never the other two.  PaperAccount *)
(* implements this specification (module PaperOwnership).                  *)
(***************************************************************************)
EXTENDS Naturals

CONSTANTS Symbols, Quantities

VARIABLES shares,  \* the shares of each symbol by owner
          saved    \* the state a restart brings back

Owned == [free : Nat, adopted : Nat, managed : Nat, resting : Nat]
ledgerVars == <<shares, saved>>

\* Without a running strategy nothing is adopted or managed.
Released(l) == [s \in Symbols |->
  [free |-> l[s].free + l[s].adopted, adopted |-> 0,
   managed |-> 0, resting |-> l[s].managed + l[s].resting]]

\* A change is kept and saved, or undone - saved or not.
Persisted(next) == \/ shares' = next /\ saved' = Released(next)
                   \/ UNCHANGED shares /\ saved' \in {saved, Released(next)}

Init == /\ shares \in [Symbols -> [free : Nat, adopted : {0}, managed : {0}, resting : {0}]]
        /\ saved = Released(shares)

Buy(s, q) ==
  \E owner \in {"free", "adopted", "managed"} :
    Persisted([shares EXCEPT ![s][owner] = @ + q])

StrategySale(s, q) ==
  \E x \in 0..q :
    /\ x <= shares[s].adopted /\ q - x <= shares[s].managed
    /\ Persisted([shares EXCEPT ![s].adopted = @ - x, ![s].managed = @ - (q - x)])

ManualSale(s, q) ==
  LET x == IF q <= shares[s].free THEN q ELSE shares[s].free
  IN /\ q - x <= shares[s].resting
     /\ Persisted([shares EXCEPT ![s].free = @ - x, ![s].resting = @ - (q - x)])

\* A new management scope redraws two lines: free against adopted, managed
\* against resting; it never turns manual shares into strategy shares.
Redrawn(a, b) ==
  \A s \in Symbols : /\ b[s] \in Owned
                     /\ b[s].free + b[s].adopted = a[s].free + a[s].adopted
                     /\ b[s].managed + b[s].resting = a[s].managed + a[s].resting
Redraw == /\ Redrawn(shares, shares') \/ shares' = shares
          /\ saved' \in {saved, Released(shares), Released(shares')}

\* New assets belong to nobody's strategy.
Replace ==
  \/ /\ \A s \in Symbols : shares'[s] \in Owned /\ shares'[s] = Released(shares')[s]
                           /\ shares'[s].resting = 0
     /\ saved' = Released(shares')
  \/ /\ shares' = shares
     /\ \A s \in Symbols : saved'[s] \in Owned /\ saved'[s].adopted + saved'[s].managed = 0
                           /\ saved'[s].resting = 0

\* A restart returns to the saved state; a remembered strategy redraws it.
Restart == Redrawn(saved, shares') /\ UNCHANGED saved

Next ==
  \/ \E s \in Symbols, q \in Quantities : Buy(s, q) \/ StrategySale(s, q) \/ ManualSale(s, q)
  \/ Redraw
  \/ Replace
  \/ Restart

Spec == Init /\ [][Next]_ledgerVars
=============================================================================
