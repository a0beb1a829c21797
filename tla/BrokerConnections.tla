--------------------------- MODULE BrokerConnections ---------------------------
(***************************************************************************)
(* Which brokerage account each user of the site trades on                    *)
(* (auto_trader/user_connections.py, connection_vault.py,                     *)
(* services/connection_service.py).  The account is a row of the database,    *)
(* the credentials are a file, and a client built from both is cached and     *)
(* held by the user's workspace.  Saving a connection runs in a thread, under *)
(* the lock of the user's workspace only; the server may go down between any  *)
(* two steps.                                                               *)
(***************************************************************************)
EXTENDS Integers, FiniteSets

CONSTANTS
  Users,
  Owner,      \* the first administrator, who may have the server's own credentials
  Keys,       \* credentials
  AccountOf,  \* the account that credentials open
  EnvKey,     \* the credentials of the server's settings
  NoKey, NoAccount,
  Legacy,     \* sets of credentials an earlier version may have kept in the database
  MaxSaves, MaxCrashes  \* bounds on attempts to save and on restarts

\* The client of a workspace that is not open.
Closed == "closed"

\* What unanswered holds of a user whose saves have been answered.
Answered == "answered"

ASSUME ConnectionAssumption ==
  /\ Owner \in Users /\ EnvKey \in Keys /\ NoKey \notin Keys
  /\ {Closed, Answered} \cap (Keys \cup {NoKey}) = {}
  /\ \A k \in Keys : AccountOf[k] # NoAccount
  /\ \A legacy \in Legacy : legacy \in [Users -> Keys \cup {NoKey}]
  /\ MaxSaves \in Nat /\ MaxCrashes \in Nat

\* The table has an index of identities; and nobody has saved the account of
\* the settings before the settings had it.
ASSUME LegacyAssumption ==
  \A legacy \in Legacy : \A u, w \in Users : u # w /\ legacy[w] # NoKey =>
    AccountOf[legacy[w]] # IF legacy[u] # NoKey THEN AccountOf[legacy[u]]
                           ELSE IF u = Owner THEN AccountOf[EnvKey] ELSE NoAccount

VARIABLES
  rows,       \* each user's connection: its source, account and revision
  column,     \* credentials that are still in the database
  files,      \* the encrypted file of each user
  cache,      \* the cached clients
  clients,    \* the client of each open workspace
  finder,     \* who builds a client, for whom, from which row: one at a time
  saver,      \* each user's attempt to save
  unanswered, \* history: the file from before a first save that was committed
              \* without an answer, until a later save is done
  stage,      \* "migrating", "owning", "up"
  saves, crashes

connectionVars == <<rows, column, files, cache, clients, finder, saver, unanswered, stage,
                    saves, crashes>>

-----------------------------------------------------------------------------

NoRow == [source |-> "none", account |-> NoAccount, revision |-> 0]
NotCached == [revision |-> -1, key |-> NoKey]
NotFinding == [user |-> Owner, for |-> Owner, at |-> "free", row |-> NoRow]
NotSaving == [at |-> "idle", key |-> NoKey, previous |-> NoAccount, rest |-> {},
              about |-> Owner, found |-> NoKey, file |-> NoKey]

ConnectionInit ==
  /\ column \in Legacy
  /\ rows = [u \in Users |-> IF column[u] = NoKey THEN NoRow
       ELSE [source |-> "LOCAL", account |-> AccountOf[column[u]], revision |-> 1]]
  /\ files = [u \in Users |-> NoKey]
  /\ cache = [u \in Users |-> NotCached]
  /\ clients = [u \in Users |-> Closed]
  /\ finder = NotFinding
  /\ saver = [u \in Users |-> NotSaving]
  /\ unanswered = [u \in Users |-> Answered]
  /\ stage = "migrating" /\ saves = 0 /\ crashes = 0

\* Only a connection a user saved carries the identity of its account.
Identity(u) == IF rows[u].source = "LOCAL" THEN rows[u].account ELSE NoAccount

-----------------------------------------------------------------------------
(* Start of the server *)

Migrate(u) ==
  /\ stage = "migrating" /\ column[u] # NoKey
  /\ files' = [files EXCEPT ![u] = column[u]]
  /\ UNCHANGED <<rows, column, cache, clients, finder, saver, unanswered, stage, saves, crashes>>

DropColumn ==
  /\ stage = "migrating" /\ \A u \in Users : column[u] # NoKey => files[u] = column[u]
  /\ column' = [u \in Users |-> NoKey]
  /\ stage' = "owning"
  /\ UNCHANGED <<rows, files, cache, clients, finder, saver, unanswered, saves, crashes>>

\* The owner gets the connection of the settings, unless there is one already;
\* the settings name its account, or leave it to the broker.
OwnSettings ==
  /\ stage = "owning" /\ stage' = "up"
  /\ \E account \in {AccountOf[EnvKey], NoAccount} :
       rows' = IF rows[Owner] # NoRow THEN rows
               ELSE [rows EXCEPT ![Owner] = [source |-> "ENV", account |-> account, revision |-> 1]]
  /\ UNCHANGED <<column, files, cache, clients, finder, saver, unanswered, saves, crashes>>

-----------------------------------------------------------------------------
(* client(): under a lock, the cached client if the row is as it was, else    *)
(* one from the settings or from the user's file.                            *)

Proceed(u, next) == saver' = [saver EXCEPT ![u] = next]
GoTo(u, place) == Proceed(u, [saver[u] EXCEPT !.at = place])

\* A workspace is opened, or user's attempt to save asks for another's account.
Look(user, for) ==
  /\ stage = "up" /\ finder.at = "free"
  /\ \/ user = for /\ clients[user] = Closed
     \/ saver[user].at = "check" /\ for \in saver[user].rest
  /\ finder' = [user |-> user, for |-> for, at |-> "build", row |-> rows[for]]
  /\ UNCHANGED <<rows, column, files, cache, clients, saver, unanswered, stage, saves, crashes>>

Build ==
  LET r == finder.row
      u == finder.for
      hit == cache[u].revision = r.revision /\ cache[u].key # NoKey
      key == IF hit THEN cache[u].key
             ELSE IF r.source = "ENV" THEN EnvKey
             ELSE IF r.source = "LOCAL" THEN files[u] ELSE NoKey IN
  /\ finder.at = "build"
  /\ cache' = IF r.source = "LOCAL" /\ key = NoKey THEN cache
              ELSE [cache EXCEPT ![u] = [revision |-> r.revision, key |-> key]]
  /\ IF clients[finder.user] = Closed
     THEN clients' = [clients EXCEPT ![finder.user] = key] /\ UNCHANGED saver
     ELSE /\ Proceed(finder.user, [saver[finder.user] EXCEPT
               !.at = "compare", !.rest = @ \ {u}, !.about = u, !.found = key])
          /\ UNCHANGED clients
  /\ finder' = NotFinding
  /\ UNCHANGED <<rows, column, files, unanswered, stage, saves, crashes>>

-----------------------------------------------------------------------------
(* save() *)

\* Strategies are stopped and no real order is open: see LiveOrders.
Save(u, k) ==
  /\ stage = "up" /\ saves < MaxSaves
  /\ clients[u] # Closed /\ saver[u].at = "idle"
  /\ saves' = saves + 1
  /\ Proceed(u, [NotSaving EXCEPT !.at = "ask", !.key = k])
  /\ UNCHANGED <<rows, column, files, cache, clients, finder, unanswered, stage, crashes>>

\* The broker does not know the credentials, or cannot be reached.
Reject(u) ==
  /\ saver[u].at = "ask" /\ Proceed(u, NotSaving)
  /\ UNCHANGED <<rows, column, files, cache, clients, finder, unanswered, stage, saves, crashes>>

ReadRows(u) ==
  /\ saver[u].at = "ask"
  /\ Proceed(u, [saver[u] EXCEPT !.at = "check", !.previous = Identity(u),
                              !.rest = {w \in Users : rows[w].source = "ENV"}])
  /\ UNCHANGED <<rows, column, files, cache, clients, finder, unanswered, stage, saves, crashes>>

\* Variant: a connection whose account cannot be asked for is passed over.
PassedOver(u, w) == {AccountOf[saver[u].key], NoAccount}

\* The accounts a connection is known to have been for, when the broker does
\* not say: nothing is known of another user's.
Recorded(u, w) ==
  IF w # u THEN {NoAccount}
  ELSE IF rows[w].account # NoAccount THEN {rows[w].account}
  ELSE {AccountOf[EnvKey], NoAccount}

\* Another user's account must be a different one, one's own the same.
Compare(u) ==
  LET s == saver[u]
      mine == AccountOf[s.key]
      w == s.about
      next == [s EXCEPT !.at = "check"] IN
  /\ s.at = "compare"
  /\ \/ /\ s.found # NoKey
        /\ Proceed(u, IF w = u THEN [next EXCEPT !.previous = AccountOf[s.found]]
                   ELSE IF AccountOf[s.found] = mine THEN NotSaving ELSE next)
     \/ \E account \in Recorded(u, w) :
          Proceed(u, IF account = mine THEN [next EXCEPT !.previous = mine] ELSE NotSaving)
  /\ UNCHANGED <<rows, column, files, cache, clients, finder, unanswered, stage, saves, crashes>>

SameAccount(u) == saver[u].previous \in {NoAccount, AccountOf[saver[u].key]}

\* All connections are compared; the old file is kept for the case of failure.
Compared(u) ==
  /\ saver[u].at = "check" /\ saver[u].rest = {}
  /\ Proceed(u, IF SameAccount(u) THEN [saver[u] EXCEPT !.at = "insert", !.file = files[u]]
             ELSE NotSaving)
  /\ UNCHANGED <<rows, column, files, cache, clients, finder, unanswered, stage, saves, crashes>>

\* The row is written in a transaction.  The index of identities makes it wait
\* for another that writes the same account, and fail if that one is there.
InsertRow(u) ==
  LET mine == AccountOf[saver[u].key] IN
  /\ saver[u].at = "insert"
  /\ \A w \in Users \ {u} : saver[w].at \in {"write", "commit"} => AccountOf[saver[w].key] # mine
  /\ GoTo(u, IF \E w \in Users \ {u} : Identity(w) = mine THEN "undo" ELSE "write")
  /\ UNCHANGED <<rows, column, files, cache, clients, finder, unanswered, stage, saves, crashes>>

WriteFile(u) ==
  /\ saver[u].at = "write"
  /\ \/ files' = [files EXCEPT ![u] = saver[u].key] /\ GoTo(u, "commit")
     \/ UNCHANGED files /\ GoTo(u, "undo")
  /\ UNCHANGED <<rows, column, cache, clients, finder, unanswered, stage, saves, crashes>>

Committed(u) ==
  rows' = [rows EXCEPT ![u] = [source |-> "LOCAL", account |-> AccountOf[saver[u].key],
                               revision |-> @.revision + 1]]

\* The commit may fail, and it may take effect although its answer is lost:
\* the old file comes back in both cases.
CommitRow(u) ==
  /\ saver[u].at = "commit"
  /\ \/ Committed(u) /\ GoTo(u, "forget") /\ UNCHANGED unanswered
     \/ /\ Committed(u) /\ GoTo(u, "undo")
        /\ unanswered' = IF rows[u].source = "LOCAL" THEN unanswered
                      ELSE [unanswered EXCEPT ![u] = saver[u].file]
     \/ UNCHANGED <<rows, unanswered>> /\ GoTo(u, "undo")
  /\ UNCHANGED <<column, files, cache, clients, finder, stage, saves, crashes>>

\* Variant: the file of a failed save is removed.
NoFile(u) == NoKey

OldFile(u) == saver[u].file

\* The old file comes back, unless writing it fails as well.
Undo(u) ==
  /\ saver[u].at = "undo"
  /\ files' \in {files, [files EXCEPT ![u] = OldFile(u)]}
  /\ Proceed(u, NotSaving)
  /\ UNCHANGED <<rows, column, cache, clients, finder, unanswered, stage, saves, crashes>>

Forget(u) ==
  /\ saver[u].at = "forget" /\ finder.at = "free"
  /\ cache' = [cache EXCEPT ![u] = NotCached]
  /\ GoTo(u, "adopt")
  /\ UNCHANGED <<rows, column, files, clients, finder, unanswered, stage, saves, crashes>>

\* The workspace and its price feeds get the new client: see QuoteStream.
Adopt(u) ==
  /\ saver[u].at = "adopt"
  /\ clients' = [clients EXCEPT ![u] = saver[u].key]
  /\ unanswered' = [unanswered EXCEPT ![u] = Answered]
  /\ Proceed(u, NotSaving)
  /\ UNCHANGED <<rows, column, files, cache, finder, stage, saves, crashes>>

-----------------------------------------------------------------------------

\* Rows and files stay; a transaction that was not committed is lost.
GoDown ==
  /\ crashes < MaxCrashes /\ crashes' = crashes + 1
  /\ cache' = [u \in Users |-> NotCached]
  /\ clients' = [u \in Users |-> Closed]
  /\ finder' = NotFinding
  /\ saver' = [u \in Users |-> NotSaving]
  /\ unanswered' = [u \in Users |->
       IF saver[u].at \in {"forget", "adopt"} THEN Answered ELSE unanswered[u]]
  /\ stage' = "migrating"
  /\ UNCHANGED <<rows, column, files, saves>>

ConnectionNext ==
  \/ \E u \in Users :
       \/ Migrate(u) \/ Reject(u) \/ ReadRows(u) \/ Compare(u) \/ Compared(u)
       \/ InsertRow(u) \/ WriteFile(u) \/ CommitRow(u) \/ Undo(u) \/ Forget(u) \/ Adopt(u)
       \/ \E w \in Users : Look(u, w)
       \/ \E k \in Keys : Save(u, k)
  \/ DropColumn \/ OwnSettings \/ Build \/ GoDown

ConnectionSpec == ConnectionInit /\ [][ConnectionNext]_connectionVars

-----------------------------------------------------------------------------

\* The account a connection really opens.
AccountOfUser(u) ==
  IF rows[u].source = "ENV" THEN AccountOf[EnvKey] ELSE rows[u].account

(* No two users trade on one brokerage account, whoever saves at the same    *)
(* time, whatever the broker does not answer, and although the account of    *)
(* the server's settings has no identity in the database                     *)
(* (user_connections.py:91-123, the unique index of identity_hash).          *)
OneOwnerPerAccount ==
  \A u, w \in Users :
    u # w /\ rows[u] # NoRow /\ rows[w] # NoRow => AccountOfUser(u) # AccountOfUser(w)

(* Neither a failed save nor a crash between file and row leaves a user with  *)
(* credentials of another account than the row's, or with a row without any; *)
(* and an open workspace never trades on another account than the row's.     *)
(* There is one way out: after a first save, or the first over the           *)
(* connection of the settings, whose commit took effect without an answer,   *)
(* the user may be left with exactly the file from before it, mostly none,   *)
(* until a later save succeeds                                              *)
(* (user_connections.py:122-139, connection_vault.py:24-40).                *)
CredentialsFit ==
  \A u \in Users :
    /\ rows[u].source = "LOCAL" =>
         LET key == IF stage = "migrating" /\ column[u] # NoKey THEN column[u] ELSE files[u]
         IN (key # NoKey /\ AccountOf[key] = rows[u].account) \/ key = unanswered[u]
    /\ clients[u] \notin {Closed, NoKey, unanswered[u]} =>
         rows[u] # NoRow /\ AccountOf[clients[u]] = AccountOfUser(u)
================================================================================
