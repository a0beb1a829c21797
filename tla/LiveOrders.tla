------------------------------ MODULE LiveOrders ------------------------------
(***************************************************************************)
(* Manual orders for a real account: submitting, cancelling and reconciling *)
(* in auto_trader/services/live_order_service.py over the rows that         *)
(* auto_trader/live_orders.py keeps in the database, and the broker's side   *)
(* of the same orders, as those calls use it.                                *)
(*                                                                         *)
(* The handlers are synchronous and run in threads of a pool: every call to *)
(* the broker and every database transaction is a step of its own, and       *)
(* nothing locks an order from the first read to the last write.             *)
(***************************************************************************)
EXTENDS Integers, FiniteSets, Functions

CONSTANTS
  Clients,   \* client order ids
  NoClient,
  Requests,  \* handlers at work at the same time
  Quantity,  \* shares of each order
  Crashes    \* whether the server may crash and start again

ASSUME LiveAssumption ==
  /\ NoClient \notin Clients
  /\ Quantity \in Nat \ {0}
  /\ Crashes \in BOOLEAN

VARIABLES
  row,       \* the live_orders row of each client order id
  work,      \* what each request is doing, and what it has read so far
  starting,  \* the server has not begun to answer requests
  book,      \* the order the broker holds for each client order id
  sends      \* history: how often an order was sent to the broker

vars == <<row, work, starting, book, sends>>

-----------------------------------------------------------------------------
(* Orders at the broker: external.                                          *)

\* Any status the service does not know, such as an expired order, is OTHER.
BrokerOpen == {"PENDING", "PARTIAL_FILLED", "PENDING_CANCEL"}
Final == {"FILLED", "CANCELED", "REJECTED"}
BrokerStatuses == BrokerOpen \cup Final \cup {"OTHER"}
NoOrder == [status |-> "NONE", filled |-> 0]
Open(c) == book[c].status \in BrokerOpen
Held == {c \in Clients : book[c] # NoOrder}

Settle(c, status, filled) == book' = [book EXCEPT ![c] = [status |-> status, filled |-> filled]]

\* A share of an open order is traded.
Fill(c) ==
  /\ Open(c)
  /\ LET filled == book[c].filled + 1
     IN Settle(c, IF filled = Quantity THEN "FILLED"
                  ELSE IF book[c].status = "PENDING_CANCEL" THEN "PENDING_CANCEL"
                  ELSE "PARTIAL_FILLED", filled)
  /\ UNCHANGED <<row, work, starting, sends>>

\* An open order ends otherwise.
Close(c) ==
  /\ Open(c)
  /\ \/ book[c].status = "PENDING" /\ Settle(c, "REJECTED", 0)
     \/ book[c].status = "PENDING_CANCEL" /\ Settle(c, "CANCELED", book[c].filled)
     \/ Settle(c, "OTHER", book[c].filled)
  /\ UNCHANGED <<row, work, starting, sends>>

-----------------------------------------------------------------------------
(* Rows.                                                                     *)

\* known: external_order_id is set.  told: broker_status.
Row(status, known, told, filled, review) ==
  [status |-> status, known |-> known, told |-> told, filled |-> filled, review |-> review]
NoRow == Row("NONE", FALSE, "NONE", 0, "NONE")
NewRow == Row("SUBMITTING", FALSE, "NONE", 0, "PENDING")
Active == {"SUBMITTING", "SUBMITTED", "PENDING", "PARTIAL_FILLED", "PENDING_CANCEL", "UNKNOWN"}
Statuses == Active \cup Final
Rows == [status : Statuses, known : BOOLEAN,
         told : BrokerStatuses \cup {"NONE", "SUBMITTED"}, filled : 0..Quantity,
         review : {"PENDING", "MATCHED", "NEEDS_REVIEW", "ERROR"}]
Saved == {c \in Clients : row[c] # NoRow}

\* An answer of the broker without an execution says nothing of the quantity.
Unreported == -1
Details == [status : BrokerStatuses \cup {"SUBMITTED"}, filled : {Unreported} \cup 0..Quantity]
Bare(status) == [status |-> status, filled |-> Unreported]
NoDetail == Bare("NONE")

\* _local_order_status
LocalStatus(status, fallback) ==
  IF status \in BrokerOpen \cup Final THEN status ELSE fallback

\* update_real_order: what the caller leaves out stays as it is in the database.
Update(c, status, told, filled, review) ==
  row' = [row EXCEPT ![c] =
            Row(status, @.known, IF told = "NONE" THEN @.told ELSE told,
                IF filled = Unreported THEN @.filled ELSE filled, review)]

-----------------------------------------------------------------------------
(* Requests.                                                                 *)

NoList == [c \in {} |-> NoRow]
NoHistory == [c \in {} |-> NoDetail]
\* list: the rows of a pass that are not dealt with yet, as they were read.
\* history: the broker's orders, cached once they are complete.
Job(at, client, detail, list, cached, history) ==
  [at |-> at, client |-> client, detail |-> detail,
   list |-> list, cached |-> cached, history |-> history]
Idle == Job("idle", NoClient, NoDetail, NoList, FALSE, NoHistory)
Ready(p) == work[p] = Idle
Working(p, c, place, detail) ==
  work' = [work EXCEPT ![p] = Job(place, c, detail, @.list, @.cached, @.history)]
Done(p) == work' = [work EXCEPT ![p] = Idle]

\* What the broker reports of an order when asked about it.
Reported(c) == [status |-> book[c].status, filled |-> book[c].filled]

(* submit_live_real_order, after its checks *)

\* Variant: a repeated request prepares its order anew.
PrepareAgain(p, c) ==
  /\ ~starting /\ Ready(p)
  /\ row' = [row EXCEPT ![c] = NewRow]
  /\ Working(p, c, "send", NoDetail)
  /\ UNCHANGED <<starting, book, sends>>

\* prepare_real_order: an order id that has a row already is answered with it.
Prepare(p, c) ==
  /\ ~starting /\ Ready(p)
  /\ row[c] = NoRow
  /\ row' = [row EXCEPT ![c] = NewRow]
  /\ Working(p, c, "send", NoDetail)
  /\ UNCHANGED <<starting, book, sends>>

\* create_limit_order.  The order may be placed or not, and when the answer says
\* so or is lost are separate questions; an input it refuses to send raises
\* ValueError, which the handler answers without touching the row.
Send(p) ==
  /\ work[p].at = "send"
  /\ LET c == work[p].client
         Place == book' = [book EXCEPT ![c] = [status |-> "PENDING", filled |-> 0]]
     IN \/ /\ Place /\ Working(p, c, "look", NoDetail)
           /\ sends' = [sends EXCEPT ![c] = @ + 1]
        \/ /\ Place \/ UNCHANGED book
           /\ Working(p, c, "unsure", NoDetail)
           /\ sends' = [sends EXCEPT ![c] = @ + 1]
        \/ Done(p) /\ UNCHANGED <<book, sends>>
  /\ UNCHANGED <<row, starting>>

\* Variant: an order without an answer counts as refused.
SaveRejected(p) ==
  /\ work[p].at = "unsure"
  /\ Update(work[p].client, "REJECTED", "NONE", Unreported, "NEEDS_REVIEW")
  /\ Done(p)
  /\ UNCHANGED <<starting, book, sends>>

SaveUnknown(p) ==
  /\ work[p].at = "unsure"
  /\ Update(work[p].client, "UNKNOWN", "NONE", Unreported, "NEEDS_REVIEW")
  /\ Done(p)
  /\ UNCHANGED <<starting, book, sends>>

\* order_detail, or only the answer to the order when it fails.
Look(p) ==
  /\ work[p].at = "look"
  /\ \E detail \in {Reported(work[p].client), Bare("SUBMITTED")} :
       Working(p, work[p].client, "save", detail)
  /\ UNCHANGED <<row, starting, book, sends>>

SaveAccepted(p) ==
  /\ work[p].at = "save"
  /\ LET detail == work[p].detail
         c == work[p].client
     IN row' = [row EXCEPT ![c] =
                  Row(LocalStatus(detail.status, "SUBMITTED"), TRUE, detail.status,
                      IF detail.filled = Unreported THEN @.filled ELSE detail.filled, "MATCHED")]
  /\ Done(p)
  /\ UNCHANGED <<starting, book, sends>>

(* cancel_live_real_order *)

Cancel(p, c) ==
  /\ ~starting /\ Ready(p)
  /\ row[c].known
  /\ Working(p, c, "cancel", NoDetail)
  /\ UNCHANGED <<row, starting, book, sends>>

\* cancel_order: the broker begins to cancel, or cancels, an open order and
\* refuses any other; the answer may be lost.
SendCancel(p) ==
  /\ work[p].at = "cancel"
  /\ LET c == work[p].client
     IN \/ /\ Open(c)
           /\ \E status \in {"PENDING_CANCEL", "CANCELED"} : Settle(c, status, book[c].filled)
           /\ Working(p, c, "lookCancelled", NoDetail) \/ Done(p)
        \/ Done(p) /\ UNCHANGED book
  /\ UNCHANGED <<row, starting, sends>>

LookCancelled(p) ==
  /\ work[p].at = "lookCancelled"
  /\ \E detail \in {Reported(work[p].client), Bare("PENDING_CANCEL")} :
       Working(p, work[p].client, "saveCancelled", detail)
  /\ UNCHANGED <<row, starting, book, sends>>

\* Variant: an order counts as cancelled once the broker was asked to cancel it.
SaveCancelledAtOnce(p) ==
  /\ work[p].at = "saveCancelled"
  /\ Update(work[p].client, "CANCELED", work[p].detail.status, work[p].detail.filled, "MATCHED")
  /\ Done(p)
  /\ UNCHANGED <<starting, book, sends>>

SaveCancelled(p) ==
  /\ work[p].at = "saveCancelled"
  /\ LET detail == work[p].detail
     IN Update(work[p].client,
               IF detail.status = "CANCELED" THEN "CANCELED" ELSE "PENDING_CANCEL",
               detail.status, detail.filled, "MATCHED")
  /\ Done(p)
  /\ UNCHANGED <<starting, book, sends>>

(* reconcile_saved_real_orders *)

\* orders_for_reconciliation.  The pass goes on with the rows it has read here.
List(p, statuses) ==
  LET listed == {c \in Saved : row[c].status \in statuses}
  IN work' = [work EXCEPT ![p] = IF listed = {} THEN Idle
                                 ELSE Job("pass", NoClient, NoDetail, Restrict(row, listed), FALSE, NoHistory)]

\* Variant: orders that are being cancelled are not asked about any more.
RefreshUncancelled(p) ==
  /\ ~starting /\ Ready(p)
  /\ List(p, Active \ {"PENDING_CANCEL"})
  /\ UNCHANGED <<row, starting, book, sends>>

\* GET /live/orders/real reconciles the active orders.
Refresh(p) ==
  /\ ~starting /\ Ready(p)
  /\ List(p, Active)
  /\ UNCHANGED <<row, starting, book, sends>>

\* The server starts: it reconciles all orders, and answers no request until it
\* has, or until the broker turns out to be out of reach.
Startup(p) ==
  /\ starting /\ \A q \in Requests : Ready(q)
  /\ List(p, Statuses) \/ UNCHANGED work
  /\ starting' = (work' # work)
  /\ UNCHANGED <<row, book, sends>>

Copy(p) == work[p].list[work[p].client]
\* Order c is dealt with: go on with the next one, or return.
Next1(p, c) ==
  LET rest == DOMAIN work[p].list \ {c}
  IN IF rest = {} THEN Done(p) /\ starting' = FALSE
     ELSE /\ work' = [work EXCEPT ![p] = 
                        Job("pass", NoClient, NoDetail, Restrict(@.list, rest), @.cached, @.history)]
          /\ UNCHANGED starting

\* An order without a broker's id cannot be looked up.
PassUnknown(p, c) ==
  /\ work[p].at = "pass" /\ c \in DOMAIN work[p].list
  /\ ~work[p].list[c].known
  /\ IF work[p].list[c].review = "NEEDS_REVIEW" THEN UNCHANGED row
     ELSE Update(c, work[p].list[c].status, "NONE", Unreported, "NEEDS_REVIEW")
  /\ Next1(p, c)
  /\ UNCHANGED <<book, sends>>

Take(p, c) ==
  /\ work[p].at = "pass" /\ c \in DOMAIN work[p].list
  /\ work[p].list[c].known
  /\ Working(p, c, IF work[p].cached THEN "match" ELSE "open", NoDetail)
  /\ UNCHANGED <<row, starting, book, sends>>

\* The history of the day is read once: first the open orders, ...
ReadOpen(p) ==
  /\ work[p].at = "open"
  /\ work' = [work EXCEPT ![p] =
                Job("closed", @.client, @.detail, @.list, @.cached,
                    [c \in {d \in Held : Open(d)} |-> Reported(c)])]
  /\ UNCHANGED <<row, starting, book, sends>>

\* ... then the closed ones.  A list holds at most 100 orders, so that the one
\* that is looked for may be missing.
ReadClosed(p) ==
  /\ work[p].at = "closed"
  /\ LET closed == {d \in Held : ~Open(d)}
         known == closed \cup DOMAIN work[p].history
     IN \E cut \in SUBSET {work[p].client} :
          work' = [work EXCEPT ![p] =
            Job("match", @.client, @.detail, @.list, TRUE,
                [c \in known \ cut |->
                   IF c \in closed THEN Reported(c) ELSE work[p].history[c]])]
  /\ UNCHANGED <<row, starting, book, sends>>

\* Write what the broker says, if it differs from the row as it was listed.
Reconcile(p, detail) ==
  LET copy == Copy(p)
      status == LocalStatus(detail.status, copy.status)
  IN /\ IF \/ status # copy.status \/ detail.status # copy.told
           \/ detail.filled # copy.filled \/ copy.review # "MATCHED"
        THEN Update(work[p].client, status, detail.status, detail.filled, "MATCHED")
        ELSE UNCHANGED row
     /\ Next1(p, work[p].client)

MatchHistory(p) ==
  /\ work[p].at = "match" /\ work[p].client \in DOMAIN work[p].history
  /\ Reconcile(p, work[p].history[work[p].client])
  /\ UNCHANGED <<book, sends>>

\* order_detail for an order that is not in the history.
ReadDetail(p) ==
  /\ work[p].at = "match" /\ work[p].client \notin DOMAIN work[p].history
  /\ Working(p, work[p].client, "write", Reported(work[p].client))
  /\ UNCHANGED <<row, starting, book, sends>>

WriteDetail(p) ==
  /\ work[p].at = "write"
  /\ Reconcile(p, work[p].detail)
  /\ UNCHANGED <<book, sends>>

\* The broker does not answer a question of the pass; half a history is dropped.
FailToRead(p) ==
  /\ \/ work[p].at \in {"open", "closed"}
     \/ work[p].at = "match" /\ work[p].client \notin DOMAIN work[p].history
  /\ work' = [work EXCEPT ![p] =
                Job("error", @.client, @.detail, @.list, @.cached,
                    IF @.at = "closed" THEN NoHistory ELSE @.history)]
  /\ UNCHANGED <<row, starting, book, sends>>

SaveError(p) ==
  /\ work[p].at = "error"
  /\ Update(work[p].client, Copy(p).status, Copy(p).told, Unreported, "ERROR")
  /\ Next1(p, work[p].client)
  /\ UNCHANGED <<book, sends>>

(* Failures of the server itself *)

\* The database is out of reach: the handler ends with an error, and a server
\* that is starting does not start.
FailToWrite(p) ==
  /\ work[p].at \in {"unsure", "save", "saveCancelled", "pass", "match", "write", "error"}
  /\ Done(p)
  /\ UNCHANGED <<row, starting, book, sends>>

Crash ==
  /\ Crashes
  /\ work' = [p \in Requests |-> Idle]
  /\ starting' = TRUE
  /\ UNCHANGED <<row, book, sends>>

-----------------------------------------------------------------------------
Init ==
  /\ row = [c \in Clients |-> NoRow]
  /\ work = [p \in Requests |-> Idle]
  /\ starting = FALSE
  /\ book = [c \in Clients |-> NoOrder]
  /\ sends = [c \in Clients |-> 0]

Broker == \E c \in Clients : Fill(c) \/ Close(c)
Asked(p) ==
  \/ \E c \in Clients : Prepare(p, c) \/ Cancel(p, c)
  \/ Refresh(p)
  \/ Startup(p)
Submitting(p) == Send(p) \/ SaveUnknown(p) \/ Look(p) \/ SaveAccepted(p)
Cancelling(p) == SendCancel(p) \/ LookCancelled(p) \/ SaveCancelled(p)
Passing(p) ==
  \/ \E c \in Clients : PassUnknown(p, c) \/ Take(p, c)
  \/ ReadOpen(p) \/ ReadClosed(p)
  \/ MatchHistory(p) \/ ReadDetail(p) \/ WriteDetail(p) \/ SaveError(p)

Normal ==
  \/ Broker
  \/ \E p \in Requests : Asked(p) \/ Submitting(p) \/ Cancelling(p) \/ Passing(p)
Next ==
  \/ Normal
  \/ \E p \in Requests : FailToRead(p) \/ FailToWrite(p)
  \/ Crash

Spec == Init /\ [][Next]_vars

\* Threads run on, a server that went down is started again, the owner opens
\* the list of orders again and again, and the broker, the database and the
\* server do not fail for ever.
FairSpec ==
  /\ Spec
  /\ WF_vars(\E p \in Requests : Startup(p))
  /\ \A p \in Requests : /\ WF_vars(Submitting(p) \/ Cancelling(p) \/ Passing(p))
                         /\ SF_vars(Refresh(p))
  /\ <>[][Normal]_vars

-----------------------------------------------------------------------------
(* Properties.                                                              *)

\* Types; an order that is being handled has a row.
TypeOK ==
  /\ row \in [Clients -> Rows \cup {NoRow}]
  /\ starting \in BOOLEAN
  /\ book \in [Clients -> [status : BrokerStatuses, filled : 0..Quantity] \cup {NoOrder}]
  /\ sends \in [Clients -> Nat]
  /\ \A p \in Requests :
       /\ work[p].client \in Clients \cup {NoClient}
       /\ work[p].detail \in Details \cup {NoDetail}
       /\ DOMAIN work[p].list \subseteq Saved
       /\ DOMAIN work[p].history \subseteq Held
       /\ work[p].client # NoClient => work[p].client \in Saved

\* However often a client repeats its request, and whatever gets lost or breaks
\* on the way, an order goes to the broker at most once.
SentOnce == \A c \in Clients : sends[c] <= 1

\* An order that the broker may hold, and that cannot be matched with it because
\* its id was never saved, is never shown as finished: it stays on the list, and
\* keeps the connection from being changed.
UnmatchedStaysOpen ==
  \A c \in Clients : sends[c] > 0 /\ ~row[c].known => row[c].status \in {"SUBMITTING", "UNKNOWN"}

\* A final status in the database is the truth, with the quantity that was
\* traded, although passes write what they read before others wrote: a wrong
\* final status would never be looked at again.
FinalIsTrue ==
  \A c \in Clients : row[c].status \in Final =>
    row[c].known /\ book[c].status = row[c].status /\ book[c].filled = row[c].filled

\* The end of an order whose id is saved reaches the database, and stays.
FinalIsFound ==
  \A c \in Clients :
    row[c].known /\ book[c].status \in Final
      ~> [](row[c].status = book[c].status /\ row[c].filled = book[c].filled)

\* An order that the broker holds is sooner or later matched with it, also when
\* its answer was lost or the server crashed.
OrdersAreRecovered == \A c \in Clients : c \in Held ~> row[c].known
=============================================================================
