--------------------------- MODULE PaperOwnership ---------------------------
(***************************************************************************)
(* PaperAccount implements ShareLedger: the owner of each share is read    *)
(* off the holdings and the two lists of lots.                             *)
(***************************************************************************)
EXTENDS PaperAccount

Managed(a, s, origin) ==
  LET lots == {i \in DOMAIN a.managed[s] : a.managed[s][i].origin = origin}
  IN LotTotal([i \in lots |-> a.managed[s][i]])

Owners(a) == [s \in Symbols |->
  LET adopted == Managed(a, s, "MANUAL")
      managed == Managed(a, s, "AUTO")
      auto == AutoQuantity(a, s)
  IN [free |-> a.positions[s] - auto - adopted, adopted |-> adopted,
      managed |-> managed, resting |-> auto - managed]]

Ledger == INSTANCE ShareLedger
  WITH Quantities <- Quantities \cup 1..Chunk, shares <- Owners(acct), saved <- Owners(Restored(disk))

\* The account moves shares only as the ledger allows: manual sales take free,
\* then resting shares, strategy sales take adopted and managed ones, and a
\* change of scope, a rollback or a restart moves no share between origins.
ImplementsShareLedger == Ledger!Spec
=============================================================================
