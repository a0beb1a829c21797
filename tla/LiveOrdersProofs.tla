-------------------------- MODULE LiveOrdersProofs --------------------------
(***************************************************************************)
(* For any orders, requests, quantity, and with or without crashes: an      *)
(* order is sent once, one without a broker's id is never shown as          *)
(* finished, and a final status is the truth.                               *)
(***************************************************************************)
EXTENDS LiveOrders, TLAPS

Unsaved == {"SUBMITTING", "UNKNOWN"}
Submits(p) == work[p].at \in {"send", "unsure", "look", "save"}
Cancels(p) == work[p].at \in {"cancel", "lookCancelled", "saveCancelled"}
Asks(p) == work[p].at \in {"open", "closed", "match", "write", "error"}

\* What a request has read of order c: an end it has seen is still the end.
Truthful(c, detail) == detail.status \in Final => detail = Reported(c)

\* Types of rows and orders; an open order has shares left.
RowTypes ==
  /\ row \in [Clients -> Rows \cup {NoRow}]
  /\ starting \in BOOLEAN
  /\ book \in [Clients -> [status : BrokerStatuses, filled : 0..Quantity] \cup {NoOrder}]
  /\ sends \in [Clients -> 0..1]
  /\ \A c \in Clients : Open(c) => book[c].filled < Quantity

\* The row, the broker's order and the number of sends fit together.
RowsFit ==
  \A c \in Clients :
    /\ row[c] = NoRow => sends[c] = 0
    /\ sends[c] = 0 => book[c] = NoOrder
    /\ row[c].known => book[c] # NoOrder
    /\ ~row[c].known => row[c].status \in Unsaved \cup {"NONE"}

JobTypes(p) ==
  /\ work[p] = Job(work[p].at, work[p].client, work[p].detail,
                   work[p].list, work[p].cached, work[p].history)
  /\ work[p].client \in Clients \cup {NoClient}
  /\ work[p].client # NoClient => row[work[p].client] # NoRow
  /\ work[p].detail \in Details \cup {NoDetail}
  /\ DOMAIN work[p].list \subseteq Saved
  /\ DOMAIN work[p].history \subseteq Held
  /\ \A c \in DOMAIN work[p].list : work[p].list[c] \in Rows
  /\ \A c \in DOMAIN work[p].history : work[p].history[c] \in Details

\* An order that is being submitted has no broker's id yet.
Submission(p) ==
  Submits(p) =>
    /\ work[p].client \in Clients
    /\ ~row[work[p].client].known
    /\ work[p].at = "send" => sends[work[p].client] = 0
    /\ work[p].at \in {"look", "save"} => book[work[p].client] # NoOrder
    /\ work[p].at = "save" => Truthful(work[p].client, work[p].detail)

Cancellation(p) ==
  Cancels(p) =>
    /\ work[p].client \in Clients
    /\ row[work[p].client].known
    /\ work[p].at = "saveCancelled" => Truthful(work[p].client, work[p].detail)

\* What a pass has read of a row.  Only the pass at the start reads final rows,
\* and nobody writes such a row before it is dealt with.
Listed(p, c) ==
  LET copy == work[p].list[c]
  IN /\ copy.known => row[c].known
     /\ ~copy.known => copy.status \in Unsaved
     /\ copy.status \in Final =>
          starting /\ row[c].status = copy.status /\ row[c].filled = copy.filled

\* What a pass has read of an order at the broker.
ReadTruly(p, c, detail) ==
  /\ Truthful(c, detail)
  /\ c \in DOMAIN work[p].list /\ work[p].list[c].status \in Final => detail = Reported(c)

Pass(p) ==
  /\ DOMAIN work[p].list # {} => work[p].at = "pass" \/ Asks(p)
  /\ \A c \in DOMAIN work[p].list : Listed(p, c)
  /\ \A c \in DOMAIN work[p].history : ReadTruly(p, c, work[p].history[c])
  /\ Asks(p) => work[p].client \in DOMAIN work[p].list /\ Copy(p).known
  /\ work[p].at = "write" =>
       work[p].detail \in Details /\ ReadTruly(p, work[p].client, work[p].detail)

JobOK(p) == JobTypes(p) /\ Submission(p) /\ Cancellation(p) /\ Pass(p)

\* One request submits an order.
OneSubmitter ==
  \A p, q \in Requests :
    Submits(p) /\ Submits(q) /\ work[p].client = work[q].client => p = q

\* One pass runs while the server starts.
OnePassAtStart ==
  starting => \A p, q \in Requests : ~Ready(p) /\ ~Ready(q) => p = q

LiveInv ==
  /\ RowTypes /\ RowsFit /\ FinalIsTrue
  /\ DOMAIN work = Requests /\ \A p \in Requests : JobOK(p)
  /\ OneSubmitter /\ OnePassAtStart

-----------------------------------------------------------------------------
(* What a step leaves of the other requests.                                *)

\* Rows stay and keep their broker's id; orders stay, and their end is final.
Grows ==
  \A c \in Clients :
    /\ row[c] # NoRow => row'[c] # NoRow
    /\ row[c].known => row'[c].known
    /\ book[c] # NoOrder => book'[c] # NoOrder
    /\ book[c].status \in Final => book'[c] = book[c]

\* The step leaves request q alone, and is not in its way.
Spares(q) ==
  /\ work'[q] = work[q]
  /\ Submits(q) => /\ ~row'[work[q].client].known
                   /\ work[q].at = "send" => sends'[work[q].client] = 0
  /\ \A c \in DOMAIN work[q].list : work[q].list[c].status \in Final =>
       starting' /\ row'[c].status = row[c].status /\ row'[c].filled = row[c].filled

\* A step that spares a request leaves what is claimed of it true.
LEMMA SparedIsOK ==
  ASSUME LiveInv, Grows, NEW q \in Requests, Spares(q) PROVE JobOK(q)'
<1> USE LiveAssumption
<1>1. JobOK(q) /\ RowTypes /\ FinalIsTrue /\ work'[q] = work[q]
  BY DEF LiveInv, Spares
<1>2. JobTypes(q)'
  BY <1>1 DEF JobOK, JobTypes, Grows, Saved, Held
<1>3. ASSUME NEW c \in Clients, NEW detail, Truthful(c, detail)
      PROVE  Truthful(c, detail)'
  BY <1>3 DEF Truthful, Grows, Reported
<1>4. Submission(q)'
  BY <1>1, <1>3 DEF JobOK, Submission, Submits, Spares, Grows
<1>5. Cancellation(q)'
  BY <1>1, <1>3 DEF JobOK, Cancellation, Cancels, Grows
<1>6. ASSUME NEW c \in DOMAIN work[q].list
      PROVE  /\ Listed(q, c)'
             /\ work[q].list[c].status \in Final => Reported(c)' = Reported(c)
  BY <1>1 DEF JobOK, JobTypes, Pass, Listed, Grows, Spares, Saved, FinalIsTrue, Reported
<1>7. ASSUME NEW c \in Clients, NEW detail, ReadTruly(q, c, detail)
      PROVE  ReadTruly(q, c, detail)'
  BY <1>1, <1>3, <1>6, <1>7 DEF ReadTruly
<1>8. Pass(q)'
  <2>1. DOMAIN work[q].list \subseteq Clients /\ DOMAIN work[q].history \subseteq Clients
    BY <1>1 DEF JobOK, JobTypes, Saved, Held
  <2>2. (DOMAIN work[q].list # {} => work[q].at = "pass" \/ Asks(q))'
    BY <1>1 DEF JobOK, Pass, Asks
  <2>3. (\A c \in DOMAIN work[q].history : ReadTruly(q, c, work[q].history[c]))'
    BY <1>1, <1>7, <2>1 DEF JobOK, Pass
  <2>4. (Asks(q) => work[q].client \in DOMAIN work[q].list /\ Copy(q).known)'
    BY <1>1 DEF JobOK, Pass, Asks, Copy
  <2>5. (work[q].at = "write" =>
           work[q].detail \in Details /\ ReadTruly(q, work[q].client, work[q].detail))'
    BY <1>1, <1>7, <2>1 DEF JobOK, Pass, Asks
  <2>6. (\A c \in DOMAIN work[q].list : Listed(q, c))'
    BY <1>1, <1>6
  <2> QED BY <2>2, <2>3, <2>4, <2>5, <2>6 DEF Pass
<1> QED BY <1>2, <1>4, <1>5, <1>8 DEF JobOK

\* What a request that acts does to the others.
Acts(p) ==
  /\ ~starting \/ ~Ready(p) \/ \A q \in Requests : Ready(q)
  /\ DOMAIN work' = Requests /\ \A q \in Requests \ {p} : work'[q] = work[q]
  /\ starting' => starting \/ \A q \in Requests : Ready(q)
  /\ \A c \in Clients :
       /\ row'[c].known => row[c].known \/ (Submits(p) /\ work[p].client = c)
       /\ sends'[c] # sends[c] => Submits(p) /\ work[p].client = c
  /\ Submits(p)' => \/ Submits(p) /\ work'[p].client = work[p].client
                    \/ row[work'[p].client] = NoRow

\* A pass that has listed final rows is the only one at work.
LEMMA NothingFinalElsewhere ==
  ASSUME LiveInv, NEW p \in Requests, NEW q \in Requests \ {p},
         ~starting \/ ~Ready(p) \/ Ready(q),
         NEW c \in DOMAIN work[q].list
  PROVE  work[q].list[c].status \notin Final
<1>1. ~Ready(q)
  <2>1. Ready(q) => DOMAIN work[q].list = {}
    BY DEF Ready, Idle, Job, NoList
  <2> QED BY <2>1
<1>2. ~starting
  BY <1>1 DEF LiveInv, OnePassAtStart
<1> QED BY <1>2 DEF LiveInv, JobOK, Pass, Listed

\* It is enough to look at rows, orders and the request that acts.
LEMMA OneActs ==
  ASSUME LiveInv, Grows, NEW p \in Requests, Acts(p),
         RowTypes', RowsFit', FinalIsTrue', JobOK(p)'
  PROVE  LiveInv'
<1>1. ASSUME NEW q \in Requests \ {p} PROVE JobOK(q)'
  <2>1. \A c \in DOMAIN work[q].list : work[q].list[c].status \notin Final
    BY NothingFinalElsewhere DEF Acts
  <2>2. Submits(q) => /\ work[q].client \in Clients
                      /\ ~row[work[q].client].known
                      /\ work[q].at = "send" => sends[work[q].client] = 0
                      /\ ~(Submits(p) /\ work[p].client = work[q].client)
    BY DEF LiveInv, JobOK, Submission, OneSubmitter
  <2>3. Spares(q)
    BY <2>1, <2>2 DEF Acts, Spares
  <2> QED BY <2>3, SparedIsOK
<1>2. ASSUME NEW q \in Requests \ {p}, Submits(p)', Submits(q)', (work[p].client = work[q].client)'
      PROVE  FALSE
  <2>1. Submits(q) /\ work'[q] = work[q]
    BY <1>2 DEF Acts, Submits
  <2>2. row[work[q].client] # NoRow
    BY <2>1, LiveAssumption DEF LiveInv, JobOK, JobTypes, Submission
  <2> QED BY <1>2, <2>1, <2>2 DEF Acts, LiveInv, OneSubmitter
<1>3. OneSubmitter'
  <2>1. ASSUME NEW q \in Requests \ {p}, NEW r \in Requests \ {p}, Submits(q)', Submits(r)',
               (work[q].client = work[r].client)'
        PROVE  q = r
    BY <2>1 DEF Acts, Submits, LiveInv, OneSubmitter
  <2> QED BY <1>2, <2>1 DEF OneSubmitter
<1>4. OnePassAtStart'
  <2>1. ASSUME starting', NEW q \in Requests \ {p}, ~Ready(q)' PROVE Ready(p)' /\ FALSE
    <3>1. ~Ready(q)
      BY <2>1 DEF Acts, Ready
    <3> QED BY <2>1, <3>1 DEF Acts, LiveInv, OnePassAtStart
  <2> QED BY <2>1 DEF OnePassAtStart
<1> QED BY <1>1, <1>3, <1>4 DEF LiveInv, Acts

\* Nothing is claimed of an idle request.
LEMMA IdleIsOK ==
  ASSUME NEW p \in Requests, work'[p] = Idle PROVE JobOK(p)' /\ ~Submits(p)'
BY DEF Idle, Job, JobOK, JobTypes, Submission, Cancellation, Pass, Submits, Cancels, Asks,
       NoList, NoHistory, NoDetail

-----------------------------------------------------------------------------
(* Rows that are written.                                                   *)

\* A status may be written to a row if it is the truth, or is not final.
MayWrite(c, status, told, filled, review) ==
  /\ row[c] # NoRow
  /\ status \in Statuses
  /\ told \in BrokerStatuses \cup {"NONE", "SUBMITTED"}
  /\ filled \in {Unreported} \cup 0..Quantity
  /\ review \in {"PENDING", "MATCHED", "NEEDS_REVIEW", "ERROR"}
  /\ ~row[c].known => status \in Unsaved
  /\ status \in Final =>
       /\ book[c].status = status
       /\ book[c].filled = IF filled = Unreported THEN row[c].filled ELSE filled

\* Writing a permitted status keeps rows true.
LEMMA UpdateKeeps ==
  ASSUME LiveInv, NEW c \in Clients, NEW status, NEW told, NEW filled, NEW review,
         MayWrite(c, status, told, filled, review), Update(c, status, told, filled, review),
         UNCHANGED <<book, sends>>, starting' \in BOOLEAN
  PROVE  /\ RowTypes' /\ RowsFit' /\ FinalIsTrue' /\ Grows
         /\ \A d \in Clients : row'[d].known = row[d].known
         /\ \A d \in Clients \ {c} : row'[d] = row[d]
<1> USE LiveAssumption
<1> DEFINE new == Row(status, row[c].known, IF told = "NONE" THEN row[c].told ELSE told,
                      IF filled = Unreported THEN row[c].filled ELSE filled, review)
<1>1. row \in [Clients -> Rows \cup {NoRow}] /\ row' = [row EXCEPT ![c] = new] /\ row[c] \in Rows
  BY DEF LiveInv, RowTypes, Update, MayWrite
<1>2. new \in Rows /\ new # NoRow /\ new.known = row[c].known /\ new.status = status
      /\ new.filled = IF filled = Unreported THEN row[c].filled ELSE filled
  BY <1>1 DEF MayWrite, Row, Rows, NoRow, Statuses, Active, Final
<1> HIDE DEF new
<1>3. RowTypes'
  BY <1>1, <1>2 DEF LiveInv, RowTypes, Open
<1>4. RowsFit'
  BY <1>1, <1>2 DEF LiveInv, RowsFit, MayWrite
<1>5. FinalIsTrue'
  <2>1. status \in Final => row[c].known
    BY DEF MayWrite, Final, Unsaved
  <2> QED BY <1>1, <1>2, <2>1 DEF LiveInv, FinalIsTrue, MayWrite
<1>6. Grows
  BY <1>1, <1>2 DEF Grows
<1> QED BY <1>1, <1>2, <1>3, <1>4, <1>5, <1>6

\* The pass goes on, after writing no row but that of c.
LEMMA Next1IsOK ==
  ASSUME LiveInv, NEW p \in Requests, NEW c \in DOMAIN work[p].list, Next1(p, c), Grows,
         \A d \in Clients \ {c} : row'[d] = row[d], UNCHANGED book
  PROVE  /\ JobOK(p)' /\ ~Submits(p)' /\ starting' \in BOOLEAN
         /\ DOMAIN work' = Requests /\ \A q \in Requests \ {p} : work'[q] = work[q]
         /\ starting' => starting
<1> USE LiveAssumption
<1> DEFINE rest == DOMAIN work[p].list \ {c}
<1>1. DOMAIN work = Requests /\ JobOK(p) /\ starting \in BOOLEAN
  BY DEF LiveInv, RowTypes
<1>2. CASE rest = {}
  <2>1. work' = [work EXCEPT ![p] = Idle] /\ starting' = FALSE
    BY <1>2 DEF Next1, Done
  <2> QED BY <1>1, <2>1, IdleIsOK
<1>3. CASE rest # {}
  <2> DEFINE list == [d \in rest |-> work[p].list[d]]
  <2>1. work' = [work EXCEPT ![p] =
           Job("pass", NoClient, NoDetail, list, work[p].cached, work[p].history)]
        /\ starting' = starting
    BY <1>3 DEF Next1, Restrict
  <2>2. /\ work'[p] = Job("pass", NoClient, NoDetail, list, work[p].cached, work[p].history)
        /\ work'[p].at = "pass" /\ work'[p].client = NoClient /\ work'[p].detail = NoDetail
        /\ work'[p].list = list /\ work'[p].cached = work[p].cached
        /\ work'[p].history = work[p].history
    BY <1>1, <2>1 DEF Job
  <2>3. DOMAIN list = rest /\ \A d \in rest : list[d] = work[p].list[d]
    OBVIOUS
  <2>4. rest \subseteq Clients \ {c} /\ DOMAIN work[p].history \subseteq Clients
    BY <1>1 DEF JobOK, JobTypes, Saved, Held
  <2> HIDE DEF list, rest
  <2>5. JobTypes(p)'
    BY <1>1, <2>2, <2>3, <2>4 DEF JobOK, JobTypes, Grows, Saved, Held, rest
  <2>6. ~Submits(p)' /\ ~Cancels(p)' /\ ~Asks(p)'
    BY <2>2 DEF Submits, Cancels, Asks
  <2>7. ASSUME NEW d \in rest PROVE Listed(p, d)'
    BY <1>1, <2>1, <2>2, <2>3, <2>4 DEF JobOK, Pass, Listed, rest
  <2>8. ASSUME NEW d \in DOMAIN work[p].history PROVE ReadTruly(p, d, work[p].history[d])'
    BY <1>1, <2>2, <2>3, <2>4 DEF JobOK, Pass, ReadTruly, Truthful, Reported, rest
  <2>9. Pass(p)'
    BY <2>2, <2>3, <2>6, <2>7, <2>8 DEF Pass
  <2> QED BY <1>1, <2>1, <2>5, <2>6, <2>9 DEF JobOK, Submission, Cancellation
<1> QED BY <1>2, <1>3

-----------------------------------------------------------------------------
(* Steps that only read: the job of one request changes.                    *)

\* A step that writes nothing keeps rows true.
LEMMA NothingWritten ==
  ASSUME LiveInv, UNCHANGED <<row, book, sends>>, starting' \in BOOLEAN
  PROVE  RowTypes' /\ RowsFit' /\ FinalIsTrue' /\ Grows
BY DEF LiveInv, RowTypes, RowsFit, FinalIsTrue, Grows, Open

\* A request gets further with its order, or asks about the next one.
LEMMA WorkingKeeps ==
  ASSUME LiveInv, NEW p \in Requests, NEW c \in Clients, NEW place, NEW detail,
         Working(p, c, place, detail), UNCHANGED <<row, book, sends, starting>>,
         ~starting \/ ~Ready(p), row[c] # NoRow, detail \in Details \cup {NoDetail},
         Truthful(c, detail),
         \/ /\ place \in {"look", "save"} /\ Submits(p)
            /\ c = work[p].client /\ book[c] # NoOrder
         \/ /\ place \in {"cancel", "lookCancelled", "saveCancelled"}
            /\ row[c].known /\ DOMAIN work[p].list = {}
         \/ /\ place \in {"open", "match", "write"}
            /\ c \in DOMAIN work[p].list /\ work[p].list[c].known
            /\ place = "write" => detail \in Details /\ ReadTruly(p, c, detail)
  PROVE  LiveInv'
<1> USE LiveAssumption
<1>1. DOMAIN work = Requests /\ JobOK(p)
  BY DEF LiveInv
<1>2. /\ work'[p] = Job(place, c, detail, work[p].list, work[p].cached, work[p].history)
      /\ work'[p].at = place /\ work'[p].client = c /\ work'[p].detail = detail
      /\ work'[p].list = work[p].list /\ work'[p].cached = work[p].cached
      /\ work'[p].history = work[p].history
  BY <1>1 DEF Working, Job
<1>3. JobTypes(p)'
  BY <1>1, <1>2 DEF JobOK, JobTypes, Saved, Held
<1>t. Truthful(c, detail)'
  BY DEF Truthful, Reported
<1>4. Submission(p)'
  <2>1. CASE place \in {"look", "save"} /\ Submits(p) /\ c = work[p].client /\ book[c] # NoOrder
    BY <1>1, <1>2, <1>t, <2>1 DEF JobOK, Submission, Submits
  <2>2. CASE place \notin {"look", "save"}
    BY <1>2, <2>2 DEF Submission, Submits
  <2> QED BY <2>1, <2>2
<1>5. Cancellation(p)'
  <2>1. CASE place \in {"cancel", "lookCancelled", "saveCancelled"} /\ row[c].known
    BY <1>2, <1>t, <2>1 DEF Cancellation, Cancels
  <2>2. CASE place \notin {"cancel", "lookCancelled", "saveCancelled"}
    BY <1>2, <2>2 DEF Cancellation, Cancels
  <2> QED BY <2>1, <2>2
<1>6. Pass(p)'
  <2>1. Submits(p) => DOMAIN work[p].list = {}
    BY <1>1 DEF Submits, JobOK, Pass, Asks
  <2>2. \A d, found : ReadTruly(p, d, found) => ReadTruly(p, d, found)'
    BY <1>2 DEF ReadTruly, Truthful, Reported
  <2>3. ASSUME NEW d \in DOMAIN work[p].list PROVE Listed(p, d)'
    BY <1>1, <1>2 DEF JobOK, Pass, Listed
  <2>4. CASE place \in {"open", "match", "write"}
    BY <1>1, <1>2, <2>2, <2>3, <2>4 DEF JobOK, Pass, Asks, Copy
  <2>5. CASE place \notin {"open", "match", "write"}
    <3>1. DOMAIN work[p].list = {} /\ ~Asks(p)' /\ work'[p].at # "write"
      BY <1>2, <2>1, <2>5 DEF Asks
    <3> QED BY <1>1, <1>2, <2>2, <3>1 DEF JobOK, Pass
  <2> QED BY <2>4, <2>5
<1>7. Acts(p)
  BY <1>1, <1>2 DEF Acts, Working, Submits
<1> QED BY <1>3, <1>4, <1>5, <1>6, <1>7, OneActs, NothingWritten DEF JobOK, LiveInv, RowTypes

\* The request asks for the order it has sent.
LEMMA LookKeeps == ASSUME LiveInv, NEW p \in Requests, Look(p) PROVE LiveInv'
<1> USE LiveAssumption
<1> DEFINE c == work[p].client
<1>1. /\ c \in Clients /\ row[c] # NoRow /\ book[c] # NoOrder /\ Submits(p) /\ ~Ready(p)
      /\ book[c] \in [status : BrokerStatuses, filled : 0..Quantity]
  BY DEF LiveInv, RowTypes, JobOK, JobTypes, Submission, Look, Submits, Ready, Idle, Job
<1>2. PICK detail \in {Reported(c), Bare("SUBMITTED")} : Working(p, c, "save", detail)
  BY DEF Look
<1>3. detail \in Details /\ Truthful(c, detail)
  BY <1>1 DEF Reported, Bare, Details, Truthful, Final
<1> QED BY <1>1, <1>2, <1>3, WorkingKeeps DEF Look

LEMMA LookCancelledKeeps == ASSUME LiveInv, NEW p \in Requests, LookCancelled(p) PROVE LiveInv'
<1> USE LiveAssumption
<1> DEFINE c == work[p].client
<1>1. /\ c \in Clients /\ row[c] # NoRow /\ row[c].known /\ ~Ready(p)
      /\ book[c] \in [status : BrokerStatuses, filled : 0..Quantity] /\ DOMAIN work[p].list = {}
  BY DEF LiveInv, RowTypes, RowsFit, JobOK, JobTypes, Cancellation, LookCancelled, Cancels,
         Pass, Asks, Ready, Idle, Job
<1>2. PICK detail \in {Reported(c), Bare("PENDING_CANCEL")} : Working(p, c, "saveCancelled", detail)
  BY DEF LookCancelled
<1>3. detail \in Details /\ Truthful(c, detail)
  BY <1>1 DEF Reported, Bare, Details, Truthful, Final, BrokerStatuses, BrokerOpen
<1> QED BY <1>1, <1>2, <1>3, WorkingKeeps DEF LookCancelled

LEMMA CancelKeeps ==
  ASSUME LiveInv, NEW p \in Requests, NEW c \in Clients, Cancel(p, c) PROVE LiveInv'
<1>1. row[c] # NoRow /\ DOMAIN work[p].list = {}
  BY DEF Cancel, NoRow, Row, Ready, Idle, Job, NoList
<1>2. Truthful(c, NoDetail)
  BY DEF Truthful, NoDetail, Bare, Final
<1> QED BY <1>1, <1>2, WorkingKeeps DEF Cancel

LEMMA TakeKeeps ==
  ASSUME LiveInv, NEW p \in Requests, NEW c \in Clients, Take(p, c) PROVE LiveInv'
<1>1. row[c] # NoRow /\ ~Ready(p)
  BY DEF Take, LiveInv, JobOK, JobTypes, Saved, Ready, Idle, Job
<1>2. Truthful(c, NoDetail)
  BY DEF Truthful, NoDetail, Bare, Final
<1> QED BY <1>1, <1>2, WorkingKeeps DEF Take

\* While a pass has a row as final, that is what the broker has.
LEMMA FinalCopyIsTrue ==
  ASSUME LiveInv, NEW p \in Requests, NEW c \in DOMAIN work[p].list,
         work[p].list[c].status \in Final
  PROVE  book[c].status = work[p].list[c].status /\ book[c].filled = work[p].list[c].filled
BY DEF LiveInv, JobOK, JobTypes, Saved, Pass, Listed, FinalIsTrue

LEMMA ReadDetailKeeps == ASSUME LiveInv, NEW p \in Requests, ReadDetail(p) PROVE LiveInv'
<1> DEFINE c == work[p].client
<1>1. /\ c \in Clients /\ row[c] # NoRow /\ ~Ready(p)
      /\ book[c] \in [status : BrokerStatuses, filled : 0..Quantity]
      /\ c \in DOMAIN work[p].list /\ work[p].list[c].known
  BY DEF LiveInv, RowTypes, RowsFit, JobOK, JobTypes, Saved, ReadDetail, Pass, Listed, Asks, Copy,
         Ready, Idle, Job
<1>2. Reported(c) \in Details /\ Truthful(c, Reported(c)) /\ ReadTruly(p, c, Reported(c))
  BY <1>1 DEF Reported, Details, Truthful, ReadTruly
<1> QED BY <1>1, <1>2, WorkingKeeps DEF ReadDetail

\* A pass reads the history, or fails to.
LEMMA HistoryKeeps ==
  ASSUME LiveInv, NEW p \in Requests, Asks(p), NEW place \in {"closed", "match", "error"},
         NEW cached, NEW history, UNCHANGED <<row, book, sends, starting>>,
         work' = [work EXCEPT ![p] =
           Job(place, work[p].client, work[p].detail, work[p].list, cached, history)],
         DOMAIN history \subseteq Held,
         \A c \in DOMAIN history : history[c] \in Details /\ ReadTruly(p, c, history[c])
  PROVE  LiveInv'
<1> USE LiveAssumption
<1>1. DOMAIN work = Requests /\ JobOK(p)
  BY DEF LiveInv
<1>2. /\ work'[p] = Job(place, work[p].client, work[p].detail, work[p].list, cached, history)
      /\ work'[p].at = place /\ work'[p].client = work[p].client
      /\ work'[p].detail = work[p].detail /\ work'[p].list = work[p].list
      /\ work'[p].cached = cached /\ work'[p].history = history
  BY <1>1 DEF Job
<1>3. JobTypes(p)'
  BY <1>1, <1>2 DEF JobOK, JobTypes, Saved, Held
<1>4. ~Submits(p)' /\ ~Cancels(p)' /\ Asks(p)' /\ ~Ready(p)
  BY <1>2 DEF Submits, Cancels, Asks, Ready, Idle, Job
<1>5. ASSUME NEW c \in DOMAIN work[p].list PROVE Listed(p, c)'
  BY <1>1, <1>2 DEF JobOK, Pass, Listed
<1>6. ASSUME NEW c \in DOMAIN history PROVE ReadTruly(p, c, history[c])'
  BY <1>2 DEF ReadTruly, Truthful, Reported
<1>7. Pass(p)'
  BY <1>1, <1>2, <1>4, <1>5, <1>6 DEF JobOK, Pass, Copy
<1>8. Acts(p)
  BY <1>1, <1>4 DEF Acts
<1> QED BY <1>3, <1>4, <1>7, <1>8, OneActs, NothingWritten
        DEF JobOK, Submission, Cancellation, LiveInv, RowTypes

\* What the broker reports is true.
LEMMA ReportIsTrue ==
  ASSUME LiveInv, NEW p \in Requests, NEW c \in Held
  PROVE  Reported(c) \in Details /\ ReadTruly(p, c, Reported(c))
<1>1. book[c] \in [status : BrokerStatuses, filled : 0..Quantity]
  BY DEF LiveInv, RowTypes, Held
<1> QED BY <1>1 DEF Reported, Details, Truthful, ReadTruly

LEMMA ReadOpenKeeps == ASSUME LiveInv, NEW p \in Requests, ReadOpen(p) PROVE LiveInv'
<1> DEFINE history == [c \in {d \in Held : Open(d)} |-> Reported(c)]
<1>1. Asks(p) /\ DOMAIN history \subseteq Held
  BY DEF ReadOpen, Asks
<1>2. \A c \in DOMAIN history : history[c] \in Details /\ ReadTruly(p, c, history[c])
  BY ReportIsTrue
<1>3. work' = [work EXCEPT ![p] =
        Job("closed", work[p].client, work[p].detail, work[p].list, work[p].cached, history)]
  BY DEF ReadOpen
<1> HIDE DEF history
<1> QED BY <1>1, <1>2, <1>3, HistoryKeeps DEF ReadOpen

LEMMA ReadClosedKeeps == ASSUME LiveInv, NEW p \in Requests, ReadClosed(p) PROVE LiveInv'
<1> DEFINE closed == {d \in Held : ~Open(d)}
           known == closed \cup DOMAIN work[p].history
           history(cut) == [c \in known \ cut |->
                              IF c \in closed THEN Reported(c) ELSE work[p].history[c]]
<1>1. PICK cut \in SUBSET {work[p].client} :
        work' = [work EXCEPT ![p] =
          Job("match", work[p].client, work[p].detail, work[p].list, TRUE, history(cut))]
  BY DEF ReadClosed
<1>2. Asks(p) /\ JobOK(p)
  BY DEF ReadClosed, Asks, LiveInv
<1>3. DOMAIN history(cut) \subseteq Held
  BY <1>2 DEF JobOK, JobTypes
<1>4. ASSUME NEW c \in DOMAIN history(cut)
      PROVE  history(cut)[c] \in Details /\ ReadTruly(p, c, history(cut)[c])
  <2>1. CASE c \in closed
    BY <2>1, ReportIsTrue
  <2>2. CASE c \notin closed
    BY <1>2, <2>2 DEF JobOK, JobTypes, Pass
  <2> QED BY <2>1, <2>2
<1> HIDE DEF history
<1> QED BY <1>1, <1>2, <1>3, <1>4, HistoryKeeps DEF ReadClosed

LEMMA FailToReadKeeps == ASSUME LiveInv, NEW p \in Requests, FailToRead(p) PROVE LiveInv'
<1> DEFINE history == IF work[p].at = "closed" THEN NoHistory ELSE work[p].history
<1>1. Asks(p) /\ JobOK(p)
  BY DEF FailToRead, Asks, LiveInv
<1>2. DOMAIN history \subseteq Held
      /\ \A c \in DOMAIN history : history[c] \in Details /\ ReadTruly(p, c, history[c])
  BY <1>1 DEF JobOK, JobTypes, Pass, NoHistory
<1>3. work' = [work EXCEPT ![p] =
        Job("error", work[p].client, work[p].detail, work[p].list, work[p].cached, history)]
  BY DEF FailToRead
<1> HIDE DEF history
<1> QED BY <1>1, <1>2, <1>3, HistoryKeeps DEF FailToRead

\* A request ends.
LEMMA DoneKeeps ==
  ASSUME LiveInv, NEW p \in Requests, Done(p), ~Ready(p), UNCHANGED <<row, book, sends, starting>>
  PROVE  LiveInv'
<1>1. DOMAIN work = Requests
  BY DEF LiveInv
<1>2. work'[p] = Idle /\ Acts(p)
  BY <1>1, IdleIsOK DEF Done, Acts
<1> QED BY <1>2, IdleIsOK, OneActs, NothingWritten DEF LiveInv, RowTypes

LEMMA FailToWriteKeeps == ASSUME LiveInv, NEW p \in Requests, FailToWrite(p) PROVE LiveInv'
BY DoneKeeps DEF FailToWrite, Ready, Idle, Job

\* A pass begins with what it finds in the database.
LEMMA ListKeeps ==
  ASSUME LiveInv, NEW p \in Requests, NEW statuses, List(p, statuses), Ready(p),
         UNCHANGED <<row, book, sends>>, starting' \in BOOLEAN,
         \/ ~starting /\ ~starting' /\ statuses \cap Final = {}
         \/ (\A q \in Requests : Ready(q)) /\ starting' = (work' # work)
  PROVE  LiveInv'
<1> USE LiveAssumption
<1> DEFINE listed == {c \in Saved : row[c].status \in statuses}
           list == Restrict(row, listed)
<1>1. DOMAIN work = Requests /\ RowTypes /\ RowsFit
  BY DEF LiveInv
<1>2. Acts(p) /\ \A q \in Requests \ {p} : work'[q] = work[q]
  BY <1>1 DEF Acts, List, Submits, Idle, Job
<1>3. CASE listed = {}
  <2>1. work'[p] = Idle
    BY <1>1, <1>3 DEF List
  <2> QED BY <1>2, <2>1, IdleIsOK, OneActs, NothingWritten
<1>4. CASE listed # {}
  <2>1. work' = [work EXCEPT ![p] = Job("pass", NoClient, NoDetail, list, FALSE, NoHistory)]
    BY <1>4 DEF List
  <2>2. /\ work'[p] = Job("pass", NoClient, NoDetail, list, FALSE, NoHistory)
        /\ work'[p].at = "pass" /\ work'[p].client = NoClient /\ work'[p].detail = NoDetail
        /\ work'[p].list = list /\ work'[p].cached = FALSE /\ work'[p].history = NoHistory
    BY <1>1, <2>1 DEF Job
  <2>3. DOMAIN list = listed /\ \A c \in listed : list[c] = row[c]
    BY DEF Restrict
  <2>4. work' # work
    BY <2>2 DEF Ready, Idle, Job
  <2>5. listed \subseteq Saved /\ \A c \in listed : row[c] \in Rows /\ row[c].status \in statuses
    BY <1>1 DEF RowTypes, Saved
  <2> HIDE DEF list, listed
  <2>6. JobTypes(p)'
    BY <2>2, <2>3, <2>5 DEF JobTypes, NoHistory, Saved, Held
  <2>7. ~Submits(p)' /\ ~Cancels(p)' /\ ~Asks(p)'
    BY <2>2 DEF Submits, Cancels, Asks
  <2>8. ASSUME NEW c \in listed PROVE Listed(p, c)'
    <3>1. ~row[c].known => row[c].status \in Unsaved
      BY <1>1, <2>5 DEF RowsFit, Saved, Rows, Statuses, Active, Final
    <3>2. row[c].status \in Final => starting'
      BY <2>4, <2>5
    <3> QED BY <2>2, <2>3, <3>1, <3>2 DEF Listed
  <2>9. Pass(p)'
    BY <2>2, <2>3, <2>7, <2>8 DEF Pass, NoHistory
  <2> QED BY <1>2, <2>6, <2>7, <2>9, OneActs, NothingWritten DEF JobOK, Submission, Cancellation
<1> QED BY <1>3, <1>4

LEMMA RefreshKeeps == ASSUME LiveInv, NEW p \in Requests, Refresh(p) PROVE LiveInv'
<1>1. Active \cap Final = {}
  BY DEF Active, Final
<1>2. starting' \in BOOLEAN /\ ~starting'
  BY DEF Refresh, LiveInv, RowTypes
<1> QED BY <1>1, <1>2, ListKeeps DEF Refresh

LEMMA StartupKeeps == ASSUME LiveInv, NEW p \in Requests, Startup(p) PROVE LiveInv'
<1>1. CASE List(p, Statuses)
  BY <1>1, ListKeeps DEF Startup
<1>2. CASE UNCHANGED work
  <2>1. Acts(p) /\ starting' = FALSE /\ Ready(p)
    BY <1>2 DEF Startup, Acts, LiveInv, Submits
  <2>2. work'[p] = Idle
    BY <1>2, <2>1 DEF Ready
  <2> QED BY <2>1, <2>2, IdleIsOK, OneActs, NothingWritten DEF Startup
<1> QED BY <1>1, <1>2 DEF Startup

-----------------------------------------------------------------------------
(* Steps that write rows.                                                   *)

\* A request writes the row of its order and ends.
LEMMA UpdateAndDone ==
  ASSUME LiveInv, NEW p \in Requests, NEW c \in Clients,
         NEW status, NEW told, NEW filled, NEW review,
         MayWrite(c, status, told, filled, review), Update(c, status, told, filled, review),
         Done(p), ~Ready(p), UNCHANGED <<starting, book, sends>>
  PROVE  LiveInv'
<1>1. DOMAIN work = Requests /\ starting' \in BOOLEAN
  BY DEF LiveInv, RowTypes
<1>2. /\ RowTypes' /\ RowsFit' /\ FinalIsTrue' /\ Grows
      /\ \A d \in Clients : row'[d].known = row[d].known
  BY <1>1, UpdateKeeps
<1>3. JobOK(p)' /\ Acts(p)
  BY <1>1, <1>2, IdleIsOK DEF Done, Acts
<1> QED BY <1>2, <1>3, OneActs

LEMMA SaveUnknownKeeps == ASSUME LiveInv, NEW p \in Requests, SaveUnknown(p) PROVE LiveInv'
<1> DEFINE c == work[p].client
<1>1. c \in Clients /\ ~Ready(p)
  BY DEF SaveUnknown, LiveInv, JobOK, Submission, Submits, Ready, Idle, Job
<1>2. MayWrite(c, "UNKNOWN", "NONE", Unreported, "NEEDS_REVIEW")
  BY <1>1, LiveAssumption
  DEF MayWrite, LiveInv, JobOK, JobTypes, Statuses, Active, Final, Unsaved, Unreported
<1> QED BY <1>1, <1>2, UpdateAndDone DEF SaveUnknown

LEMMA SaveCancelledKeeps == ASSUME LiveInv, NEW p \in Requests, SaveCancelled(p) PROVE LiveInv'
<1> DEFINE c == work[p].client
           detail == work[p].detail
           status == IF detail.status = "CANCELED" THEN "CANCELED" ELSE "PENDING_CANCEL"
<1>1. /\ c \in Clients /\ ~Ready(p) /\ row[c] # NoRow /\ row[c].known /\ Truthful(c, detail)
      /\ detail \in Details \cup {NoDetail}
      /\ book[c] \in [status : BrokerStatuses, filled : 0..Quantity] \cup {NoOrder}
  BY LiveAssumption DEF SaveCancelled, LiveInv, RowTypes, JobOK, JobTypes, Cancellation, Cancels,
     Ready, Idle, Job
<1>2. /\ detail.status \in BrokerStatuses \cup {"NONE", "SUBMITTED"}
      /\ detail.filled \in {Unreported} \cup 0..Quantity
  BY <1>1 DEF Details, NoDetail, Bare
<1>3. status \in Statuses /\ (status \in Final => detail.status = "CANCELED")
  BY DEF Statuses, Active, Final
<1>4. detail.status = "CANCELED" =>
        book[c].status = "CANCELED" /\ book[c].filled = detail.filled /\ detail.filled # Unreported
  BY <1>1 DEF Truthful, Final, Reported, NoOrder, Unreported
<1>5. MayWrite(c, status, detail.status, detail.filled, "MATCHED")
  BY <1>1, <1>2, <1>3, <1>4 DEF MayWrite
<1> QED BY <1>1, <1>5, UpdateAndDone DEF SaveCancelled

\* A request of a pass writes the row of its order and goes on.
LEMMA UpdateAndNext ==
  ASSUME LiveInv, NEW p \in Requests, NEW c \in DOMAIN work[p].list,
         NEW status, NEW told, NEW filled, NEW review,
         \/ UNCHANGED row
         \/ /\ MayWrite(c, status, told, filled, review)
            /\ Update(c, status, told, filled, review),
         Next1(p, c), UNCHANGED <<book, sends>>
  PROVE  LiveInv'
<1>1. c \in Clients /\ ~Ready(p) /\ starting' \in BOOLEAN
  <2>1. c \in Clients
    BY DEF LiveInv, JobOK, JobTypes, Saved
  <2>2. Ready(p) => DOMAIN work[p].list = {}
    BY DEF Ready, Idle, Job, NoList
  <2>3. starting' = FALSE \/ starting' = starting
    BY DEF Next1
  <2> QED BY <2>1, <2>2, <2>3 DEF LiveInv, RowTypes
<1>2. /\ RowTypes' /\ RowsFit' /\ FinalIsTrue' /\ Grows
      /\ \A d \in Clients : row'[d].known = row[d].known
      /\ \A d \in Clients \ {c} : row'[d] = row[d]
  BY <1>1, UpdateKeeps, NothingWritten
<1>3. /\ JobOK(p)' /\ ~Submits(p)' /\ DOMAIN work' = Requests
      /\ \A q \in Requests \ {p} : work'[q] = work[q]
      /\ starting' => starting
  BY <1>2, Next1IsOK
<1>4. Acts(p)
  BY <1>1, <1>2, <1>3 DEF Acts
<1> QED BY <1>2, <1>3, <1>4, OneActs

\* The row is written as it was listed, which is never as finished.
LEMMA PassUnknownKeeps ==
  ASSUME LiveInv, NEW p \in Requests, NEW c \in Clients, PassUnknown(p, c) PROVE LiveInv'
<1> DEFINE status == work[p].list[c].status
<1>1. c \in DOMAIN work[p].list /\ status \in Unsaved /\ row[c] # NoRow
  BY DEF PassUnknown, LiveInv, JobOK, JobTypes, Saved, Pass, Listed
<1>2. MayWrite(c, status, "NONE", Unreported, "NEEDS_REVIEW")
  BY <1>1 DEF MayWrite, Unsaved, Statuses, Active, Final
<1> QED BY <1>1, <1>2, UpdateAndNext DEF PassUnknown

\* What a pass may write: what the broker said, or what the row said.
LEMMA ReconcileKeeps ==
  ASSUME LiveInv, NEW p \in Requests, Asks(p), NEW detail \in Details,
         ReadTruly(p, work[p].client, detail), Reconcile(p, detail), UNCHANGED <<book, sends>>
  PROVE  LiveInv'
<1> DEFINE c == work[p].client
           status == LocalStatus(detail.status, Copy(p).status)
<1>1. /\ c \in DOMAIN work[p].list /\ c \in Clients /\ row[c] # NoRow /\ row[c].known
      /\ Copy(p) \in Rows /\ Copy(p) = work[p].list[c]
      /\ book[c] \in [status : BrokerStatuses, filled : 0..Quantity] \cup {NoOrder}
  BY DEF LiveInv, RowTypes, JobOK, JobTypes, Saved, Pass, Listed, Copy
<1>2. detail.status \in BrokerStatuses \cup {"SUBMITTED"}
      /\ detail.filled \in {Unreported} \cup 0..Quantity
  BY DEF Details
<1>3. status \in Statuses
  BY <1>1, <1>2 DEF LocalStatus, Statuses, Active, BrokerOpen, Rows
<1>4. status \in Final => book[c].status = status /\ book[c].filled = detail.filled
  <2>1. CASE detail.status \in Final
    BY <2>1 DEF ReadTruly, Truthful, Reported, LocalStatus
  <2>2. CASE detail.status \notin Final /\ Copy(p).status \in Final
    BY <1>1, <2>2, FinalCopyIsTrue DEF ReadTruly, Reported
  <2>3. CASE detail.status \notin Final /\ Copy(p).status \notin Final
    BY <2>3 DEF LocalStatus, BrokerOpen, Final
  <2> QED BY <2>1, <2>2, <2>3
<1>5. status \in Final => detail.filled # Unreported
  BY <1>1, <1>4 DEF Unreported, NoOrder
<1>6. MayWrite(c, status, detail.status, detail.filled, "MATCHED")
  BY <1>1, <1>2, <1>3, <1>4, <1>5 DEF MayWrite
<1> QED BY <1>1, <1>6, UpdateAndNext DEF Reconcile

LEMMA MatchHistoryKeeps == ASSUME LiveInv, NEW p \in Requests, MatchHistory(p) PROVE LiveInv'
<1> DEFINE detail == work[p].history[work[p].client]
<1>1. Asks(p) /\ detail \in Details /\ ReadTruly(p, work[p].client, detail)
  BY DEF MatchHistory, Asks, LiveInv, JobOK, JobTypes, Pass
<1> QED BY <1>1, ReconcileKeeps DEF MatchHistory

LEMMA WriteDetailKeeps == ASSUME LiveInv, NEW p \in Requests, WriteDetail(p) PROVE LiveInv'
<1>1. Asks(p) /\ work[p].detail \in Details /\ ReadTruly(p, work[p].client, work[p].detail)
  BY DEF WriteDetail, Asks, LiveInv, JobOK, Pass
<1> QED BY <1>1, ReconcileKeeps DEF WriteDetail

LEMMA SaveErrorKeeps == ASSUME LiveInv, NEW p \in Requests, SaveError(p) PROVE LiveInv'
<1> DEFINE c == work[p].client
<1>1. /\ c \in DOMAIN work[p].list /\ c \in Clients /\ row[c] # NoRow /\ row[c].known
      /\ Copy(p) \in Rows /\ Copy(p) = work[p].list[c]
  BY DEF SaveError, LiveInv, JobOK, JobTypes, Saved, Pass, Listed, Copy, Asks
<1>2. Copy(p).status \in Final => book[c].status = Copy(p).status /\ book[c].filled = row[c].filled
  BY <1>1, FinalCopyIsTrue DEF LiveInv, JobOK, Pass, Listed
<1>3. MayWrite(c, Copy(p).status, Copy(p).told, Unreported, "ERROR")
  BY <1>1, <1>2 DEF MayWrite, Rows
<1> QED BY <1>1, <1>3, UpdateAndNext DEF SaveError

\* A new row: nobody else can be submitting it.
LEMMA PrepareKeeps ==
  ASSUME LiveInv, NEW p \in Requests, NEW c \in Clients, Prepare(p, c) PROVE LiveInv'
<1> USE LiveAssumption
<1>1. DOMAIN work = Requests /\ JobOK(p) /\ RowTypes /\ RowsFit
  BY DEF LiveInv
<1>2. row' = [row EXCEPT ![c] = NewRow] /\ UNCHANGED <<starting, book, sends>>
  BY DEF Prepare
<1>3. NewRow \in Rows /\ NewRow # NoRow /\ ~NewRow.known /\ NewRow.status = "SUBMITTING"
  BY DEF NewRow, NoRow, Row, Rows, Statuses, Active
<1>4. /\ RowTypes' /\ RowsFit' /\ Grows
      /\ \A d \in Clients : row'[d].known => row[d].known
  BY <1>1, <1>2, <1>3 DEF RowTypes, RowsFit, Grows, Prepare, NoRow, Row, Unsaved, Open
<1>5. FinalIsTrue'
  BY <1>1, <1>2, <1>3 DEF LiveInv, FinalIsTrue, RowTypes, Final
<1>6. /\ work'[p] = Job("send", c, NoDetail, NoList, FALSE, NoHistory)
      /\ work'[p].at = "send" /\ work'[p].client = c /\ work'[p].detail = NoDetail
      /\ work'[p].list = NoList /\ work'[p].cached = FALSE /\ work'[p].history = NoHistory
      /\ \A q \in Requests \ {p} : work'[q] = work[q]
      /\ DOMAIN work' = Requests
  BY <1>1 DEF Prepare, Working, Ready, Idle, Job
<1>7. JobTypes(p)'
  BY <1>2, <1>3, <1>6, <1>1 DEF JobTypes, NoList, NoHistory, RowTypes
<1>8. JobOK(p)'
  <2>1. ~Cancels(p)' /\ ~Asks(p)' /\ work'[p].at \notin {"look", "save", "write"}
    BY <1>6 DEF Cancels, Asks
  <2>2. sends[c] = 0 /\ row'[c] = NewRow
    BY <1>1, <1>2 DEF RowTypes, RowsFit, Prepare
  <2>3. Submission(p)'
    BY <1>2, <1>3, <1>6, <2>1, <2>2 DEF Submission
  <2>4. Pass(p)'
    BY <1>6, <2>1 DEF Pass, NoList, NoHistory
  <2> QED BY <1>7, <2>1, <2>3, <2>4 DEF JobOK, Cancellation
<1>9. Acts(p)
  <2>1. ~starting /\ ~starting' /\ row[c] = NoRow
    BY <1>2 DEF Prepare
  <2>2. \A d \in Clients : sends'[d] = sends[d]
    BY <1>2
  <2> QED BY <1>4, <1>6, <2>1, <2>2 DEF Acts
<1> QED BY <1>4, <1>5, <1>8, <1>9, OneActs

\* The row gets its broker's id: only its submitter does that.
LEMMA SaveAcceptedKeeps == ASSUME LiveInv, NEW p \in Requests, SaveAccepted(p) PROVE LiveInv'
<1> USE LiveAssumption
<1> DEFINE c == work[p].client
           detail == work[p].detail
           new == Row(LocalStatus(detail.status, "SUBMITTED"), TRUE, detail.status,
                      IF detail.filled = Unreported THEN row[c].filled ELSE detail.filled, "MATCHED")
<1>1. /\ DOMAIN work = Requests /\ RowTypes /\ RowsFit /\ starting' \in BOOLEAN
      /\ c \in Clients /\ row[c] \in Rows /\ book[c] # NoOrder /\ Truthful(c, detail)
      /\ detail \in Details \cup {NoDetail} /\ ~Ready(p) /\ Submits(p)
  BY DEF SaveAccepted, LiveInv, RowTypes, JobOK, JobTypes, Submission, Submits, Ready, Idle, Job
<1>2. /\ row' = [row EXCEPT ![c] = new]
      /\ Done(p) /\ UNCHANGED <<starting, book, sends>>
  BY DEF SaveAccepted
<1>3. /\ new \in Rows /\ new # NoRow /\ new.known
      /\ new.status = LocalStatus(detail.status, "SUBMITTED")
      /\ new.filled = IF detail.filled = Unreported THEN row[c].filled ELSE detail.filled
  <2>1. /\ detail.status \in BrokerStatuses \cup {"NONE", "SUBMITTED"}
        /\ detail.filled \in {Unreported} \cup 0..Quantity
    BY <1>1 DEF Details, NoDetail, Bare
  <2>2. LocalStatus(detail.status, "SUBMITTED") \in Statuses
    BY DEF LocalStatus, Statuses, Active, BrokerOpen
  <2> QED BY <1>1, <2>1, <2>2 DEF Row, Rows, NoRow
<1> HIDE DEF new
<1>4. new.status \in Final => book[c].status = new.status /\ book[c].filled = new.filled
  <2>1. new.status \in Final => detail.status = new.status
    BY <1>3 DEF LocalStatus, Final
  <2>2. book[c] \in [status : BrokerStatuses, filled : 0..Quantity]
    BY <1>1 DEF RowTypes
  <2>3. book[c].filled # Unreported
    BY <2>2 DEF Unreported
  <2>4. new.status \in Final => detail.status = book[c].status /\ detail.filled = book[c].filled
    BY <1>1, <2>1 DEF Truthful, Reported
  <2> QED BY <1>3, <2>1, <2>3, <2>4
<1>5. RowTypes' /\ RowsFit' /\ Grows
  BY <1>1, <1>2, <1>3 DEF RowTypes, RowsFit, Grows, Open
<1>6. FinalIsTrue'
  BY <1>1, <1>2, <1>3, <1>4 DEF LiveInv, FinalIsTrue, RowTypes
<1>7. JobOK(p)' /\ Acts(p)
  BY <1>1, <1>2, <1>3, IdleIsOK DEF Done, Acts, RowTypes
<1> QED BY <1>5, <1>6, <1>7, OneActs

-----------------------------------------------------------------------------
(* Steps at the broker.                                                     *)

\* A request goes on after the broker did what it was asked for.
LEMMA AnsweredKeeps ==
  ASSUME LiveInv, NEW p \in Requests, NEW place, Working(p, work[p].client, place, NoDetail),
         UNCHANGED <<row, starting>>, RowTypes', RowsFit', FinalIsTrue', Grows,
         \A c \in Clients : sends'[c] # sends[c] => Submits(p) /\ work[p].client = c,
         \/ place \in {"look", "unsure"} /\ Submits(p)
         \/ place = "lookCancelled" /\ Cancels(p),
         place = "look" => book'[work[p].client] # NoOrder
  PROVE  LiveInv'
<1> USE LiveAssumption
<1> DEFINE c == work[p].client
<1>1. DOMAIN work = Requests /\ JobOK(p)
  BY DEF LiveInv
<1>2. /\ work'[p] = Job(place, c, NoDetail, work[p].list, work[p].cached, work[p].history)
      /\ work'[p].at = place /\ work'[p].client = c /\ work'[p].detail = NoDetail
      /\ work'[p].list = work[p].list /\ work'[p].cached = work[p].cached
      /\ work'[p].history = work[p].history
  BY <1>1 DEF Working, Job
<1>3. c \in Clients /\ DOMAIN work[p].list = {} /\ ~Ready(p)
  BY <1>1 DEF JobOK, Submission, Cancellation, Submits, Cancels, Pass, Asks, Ready, Idle, Job
<1>4. JobTypes(p)'
  BY <1>1, <1>2 DEF JobOK, JobTypes, Saved, Held, Grows
<1>5. Submission(p)'
  <2>1. CASE place \in {"look", "unsure"} /\ Submits(p)
    BY <1>1, <1>2, <1>3, <2>1 DEF JobOK, Submission
  <2>2. CASE place = "lookCancelled"
    BY <1>2, <2>2 DEF Submission, Submits
  <2> QED BY <2>1, <2>2
<1>6. Cancellation(p)'
  <2>1. CASE place = "lookCancelled" /\ Cancels(p)
    BY <1>1, <1>2, <1>3, <2>1 DEF JobOK, Cancellation
  <2>2. CASE place \in {"look", "unsure"}
    BY <1>2, <2>2 DEF Cancellation, Cancels
  <2> QED BY <2>1, <2>2
<1>7. Pass(p)'
  <2>1. ~Asks(p)' /\ work'[p].at # "write"
    BY <1>2 DEF Asks
  <2>2. ASSUME NEW d \in DOMAIN work[p].history PROVE ReadTruly(p, d, work[p].history[d])'
    <3>1. d \in Clients /\ Truthful(d, work[p].history[d])
      BY <1>1 DEF JobOK, JobTypes, Held, Pass, ReadTruly
    <3>2. Truthful(d, work[p].history[d])'
      BY <1>2, <3>1 DEF Truthful, Reported, Grows
    <3> QED BY <1>2, <1>3, <3>2 DEF ReadTruly
  <2> QED BY <1>2, <1>3, <2>1, <2>2 DEF Pass
<1>8. Acts(p)
  <2>1. Submits(p)' => Submits(p)
    BY <1>2 DEF Submits
  <2> QED BY <1>1, <1>2, <1>3, <2>1 DEF Acts, Working
<1> QED BY <1>4, <1>5, <1>6, <1>7, <1>8, OneActs DEF JobOK

\* The order goes out once, since its submitter is about to send it for the first time.
LEMMA SendKeeps == ASSUME LiveInv, NEW p \in Requests, Send(p) PROVE LiveInv'
<1> USE LiveAssumption
<1> DEFINE c == work[p].client
           placed == [status |-> "PENDING", filled |-> 0]
<1>1. /\ c \in Clients /\ Submits(p) /\ ~Ready(p) /\ sends[c] = 0 /\ book[c] = NoOrder
      /\ ~row[c].known /\ row[c] # NoRow /\ UNCHANGED <<row, starting>>
  BY DEF Send, Submits, LiveInv, JobOK, JobTypes, Submission, RowsFit, Ready, Idle, Job
<1>2. CASE Done(p) /\ UNCHANGED <<book, sends>>
  BY <1>1, <1>2, DoneKeeps
<1>3. CASE /\ book' = [book EXCEPT ![c] = placed] \/ UNCHANGED book
           /\ sends' = [sends EXCEPT ![c] = @ + 1]
           /\ \/ Working(p, c, "look", NoDetail) /\ book' = [book EXCEPT ![c] = placed]
              \/ Working(p, c, "unsure", NoDetail)
  <2>1. placed \in [status : BrokerStatuses, filled : 0..Quantity] /\ placed # NoOrder
        /\ placed.filled < Quantity /\ sends[c] + 1 = 1
    BY <1>1 DEF BrokerStatuses, BrokerOpen, NoOrder
  <2> HIDE DEF placed
  <2>2. RowTypes'
    BY <1>1, <1>3, <2>1 DEF LiveInv, RowTypes, Open
  <2>3. RowsFit' /\ FinalIsTrue'
    BY <1>1, <1>3, <2>1 DEF LiveInv, RowTypes, RowsFit, FinalIsTrue
  <2>4. Grows
    BY <1>1, <1>3, <2>1 DEF LiveInv, RowTypes, Grows, NoOrder, Final
  <2>5. \A d \in Clients : sends'[d] # sends[d] => Submits(p) /\ c = d
    BY <1>1, <1>3 DEF LiveInv, RowTypes
  <2>6. Working(p, c, "look", NoDetail) /\ book' = [book EXCEPT ![c] = placed] =>
          book'[c] # NoOrder
    BY <1>1, <2>1 DEF LiveInv, RowTypes
  <2> QED BY <1>1, <1>3, <2>2, <2>3, <2>4, <2>5, <2>6, AnsweredKeeps
<1> QED BY <1>2, <1>3 DEF Send

\* An open order changes: nobody has seen its end yet.
LEMMA SettleKeeps ==
  ASSUME LiveInv, NEW c \in Clients, Open(c), NEW status \in BrokerStatuses,
         NEW filled \in 0..Quantity, status \in BrokerOpen => filled < Quantity,
         Settle(c, status, filled), UNCHANGED <<row, starting, sends>>
  PROVE  RowTypes' /\ RowsFit' /\ FinalIsTrue' /\ Grows
<1> DEFINE new == [status |-> status, filled |-> filled]
<1>1. book' = [book EXCEPT ![c] = new] /\ new.status = status /\ new.filled = filled
      /\ new \in [status : BrokerStatuses, filled : 0..Quantity] /\ new # NoOrder
  BY DEF Settle, NoOrder, BrokerStatuses, BrokerOpen, Final
<1>2. book[c].status \notin Final /\ book[c] # NoOrder
  BY DEF Open, BrokerOpen, Final, NoOrder
<1> HIDE DEF new
<1>3. RowTypes'
  BY <1>1 DEF LiveInv, RowTypes, Open
<1>4. RowsFit' /\ FinalIsTrue' /\ Grows
  BY <1>1, <1>2 DEF LiveInv, RowTypes, RowsFit, FinalIsTrue, Grows
<1> QED BY <1>3, <1>4

LEMMA SendCancelKeeps == ASSUME LiveInv, NEW p \in Requests, SendCancel(p) PROVE LiveInv'
<1> USE LiveAssumption
<1> DEFINE c == work[p].client
<1>1. /\ c \in Clients /\ Cancels(p) /\ ~Ready(p) /\ DOMAIN work = Requests
      /\ UNCHANGED <<row, starting, sends>>
  BY DEF SendCancel, Cancels, LiveInv, JobOK, Cancellation, Ready, Idle, Job
<1>2. CASE Done(p) /\ UNCHANGED book
  BY <1>1, <1>2, DoneKeeps
<1>3. CASE /\ Open(c)
           /\ \E status \in {"PENDING_CANCEL", "CANCELED"} : Settle(c, status, book[c].filled)
           /\ Working(p, c, "lookCancelled", NoDetail) \/ Done(p)
  <2>1. PICK status \in {"PENDING_CANCEL", "CANCELED"} : Settle(c, status, book[c].filled)
    BY <1>3
  <2>2. status \in BrokerStatuses /\ book[c].filled \in 0..Quantity /\ book[c].filled < Quantity
    BY <1>1, <1>3 DEF LiveInv, RowTypes, Open, BrokerStatuses, BrokerOpen, Final, NoOrder
  <2>3. RowTypes' /\ RowsFit' /\ FinalIsTrue' /\ Grows
    BY <1>1, <1>3, <2>1, <2>2, SettleKeeps
  <2>4. CASE Working(p, c, "lookCancelled", NoDetail)
    BY <1>1, <2>3, <2>4, AnsweredKeeps
  <2>5. CASE Done(p)
    <3>1. JobOK(p)' /\ Acts(p)
      BY <1>1, <2>5, IdleIsOK DEF Done, Acts
    <3> QED BY <2>3, <3>1, OneActs
  <2> QED BY <1>3, <2>4, <2>5
<1> QED BY <1>2, <1>3 DEF SendCancel

\* The broker moves open orders only.
LEMMA BrokerKeeps == ASSUME LiveInv, NEW c \in Clients, Fill(c) \/ Close(c) PROVE LiveInv'
<1> USE LiveAssumption
<1>1. Open(c) /\ UNCHANGED <<row, work, starting, sends>>
  BY DEF Fill, Close
<1>2. book[c].filled \in 0..Quantity /\ book[c].filled < Quantity
  BY <1>1 DEF LiveInv, RowTypes, Open, BrokerOpen, NoOrder
<1>3. \E status \in BrokerStatuses, filled \in 0..Quantity :
        Settle(c, status, filled) /\ (status \in BrokerOpen => filled < Quantity)
  <2>1. CASE Fill(c)
    <3> DEFINE filled == book[c].filled + 1
    <3>1. filled \in 0..Quantity /\ (filled # Quantity => filled < Quantity)
      BY <1>2
    <3>2. \E status \in {"FILLED", "PENDING_CANCEL", "PARTIAL_FILLED"} :
            Settle(c, status, filled) /\ (status # "FILLED" => filled # Quantity)
      BY <2>1 DEF Fill
    <3> HIDE DEF filled
    <3> QED BY <3>1, <3>2 DEF BrokerStatuses, BrokerOpen, Final
  <2>2. CASE Close(c)
    BY <1>2, <2>2 DEF Close, BrokerStatuses, BrokerOpen, Final
  <2> QED BY <2>1, <2>2
<1>4. RowTypes' /\ RowsFit' /\ FinalIsTrue' /\ Grows
  BY <1>1, <1>3, SettleKeeps
<1>5. \A q \in Requests : JobOK(q)'
  <2>1. \A q \in Requests : Spares(q)
    BY <1>1 DEF LiveInv, JobOK, Submission, Pass, Listed, Spares
  <2> QED BY <1>4, <2>1, SparedIsOK
<1>6. OneSubmitter' /\ OnePassAtStart'
  BY <1>1 DEF LiveInv, OneSubmitter, Submits, OnePassAtStart, Ready
<1> QED BY <1>1, <1>4, <1>5, <1>6 DEF LiveInv

\* A crash leaves rows and orders, and no request.
LEMMA CrashKeeps == ASSUME LiveInv, Crash PROVE LiveInv'
<1>1. RowTypes' /\ RowsFit' /\ FinalIsTrue'
  BY NothingWritten DEF Crash
<1>2. ASSUME NEW p \in Requests PROVE JobOK(p)' /\ ~Submits(p)' /\ Ready(p)'
  BY IdleIsOK DEF Crash, Ready
<1> QED BY <1>1, <1>2 DEF LiveInv, Crash, OneSubmitter, OnePassAtStart

-----------------------------------------------------------------------------

\* At first there is nothing.
LEMMA LiveInit == Init => LiveInv
<1> SUFFICES ASSUME Init PROVE LiveInv
  OBVIOUS
<1> USE LiveAssumption
<1>1. NoRow.status = "NONE" /\ ~NoRow.known /\ NoOrder.status = "NONE"
  BY DEF NoRow, Row, NoOrder
<1>2. RowTypes
  <2>1. \A c \in Clients : ~Open(c)
    BY <1>1 DEF Init, Open, BrokerOpen
  <2>2. row \in [Clients -> Rows \cup {NoRow}] /\ starting \in BOOLEAN
    BY DEF Init
  <2>3. book \in [Clients -> [status : BrokerStatuses, filled : 0..Quantity] \cup {NoOrder}]
    BY DEF Init
  <2>4. sends \in [Clients -> 0..1]
    BY DEF Init
  <2> QED BY <2>1, <2>2, <2>3, <2>4 DEF RowTypes
<1>3. RowsFit /\ FinalIsTrue
  BY <1>1 DEF Init, RowsFit, FinalIsTrue, Final
<1>4. ASSUME NEW p \in Requests PROVE JobOK(p) /\ ~Submits(p)
  BY DEF Init, Idle, Job, JobOK, JobTypes, Submission, Cancellation, Pass, Submits, Cancels, Asks,
         NoList, NoHistory, NoDetail
<1> QED BY <1>2, <1>3, <1>4 DEF LiveInv, Init, OneSubmitter, OnePassAtStart

\* What is claimed of rows, orders and requests holds in all states.
THEOREM LiveInvariant == Spec => []LiveInv
<1>1. LiveInv /\ [Next]_vars => LiveInv'
  <2> SUFFICES ASSUME LiveInv, [Next]_vars PROVE LiveInv'
    OBVIOUS
  <2>1. CASE Broker
    BY <2>1, BrokerKeeps DEF Broker
  <2>2. ASSUME NEW p \in Requests, Asked(p) PROVE LiveInv'
    BY <2>2, PrepareKeeps, CancelKeeps, RefreshKeeps, StartupKeeps DEF Asked
  <2>3. ASSUME NEW p \in Requests, Submitting(p) PROVE LiveInv'
    BY <2>3, SendKeeps, SaveUnknownKeeps, LookKeeps, SaveAcceptedKeeps DEF Submitting
  <2>4. ASSUME NEW p \in Requests, Cancelling(p) PROVE LiveInv'
    BY <2>4, SendCancelKeeps, LookCancelledKeeps, SaveCancelledKeeps DEF Cancelling
  <2>5. ASSUME NEW p \in Requests, Passing(p) PROVE LiveInv'
    BY <2>5, PassUnknownKeeps, TakeKeeps, ReadOpenKeeps, ReadClosedKeeps, MatchHistoryKeeps,
       ReadDetailKeeps, WriteDetailKeeps, SaveErrorKeeps DEF Passing
  <2>6. ASSUME NEW p \in Requests, FailToRead(p) \/ FailToWrite(p) PROVE LiveInv'
    BY <2>6, FailToReadKeeps, FailToWriteKeeps
  <2>7. CASE Crash
    BY <2>7, CrashKeeps
  <2>8. CASE UNCHANGED vars
    <3>1. RowTypes' /\ RowsFit' /\ FinalIsTrue' /\ Grows
      BY <2>8, NothingWritten DEF vars, LiveInv, RowTypes
    <3>2. \A q \in Requests : Spares(q)
      BY <2>8 DEF vars, LiveInv, JobOK, Submission, Pass, Listed, Spares
    <3>3. OneSubmitter' /\ OnePassAtStart'
      BY <2>8 DEF vars, LiveInv, OneSubmitter, Submits, OnePassAtStart, Ready
    <3> QED BY <2>8, <3>1, <3>2, <3>3, SparedIsOK DEF vars, LiveInv
  <2> QED BY <2>1, <2>2, <2>3, <2>4, <2>5, <2>6, <2>7, <2>8 DEF Next, Normal
<1> QED BY LiveInit, <1>1, PTL DEF Spec

\* Rows, orders and what requests are doing have their types.
THEOREM LiveTypes == Spec => []TypeOK
<1>1. LiveInv => TypeOK
  BY DEF LiveInv, RowTypes, JobOK, JobTypes, TypeOK, Saved, Held
<1> QED BY <1>1, LiveInvariant, PTL

\* An order goes to the broker at most once, however often its client repeats the
\* request, whatever fails, and wherever the server crashes.
THEOREM OrdersAreSentOnce == Spec => []SentOnce
<1>1. LiveInv => SentOnce
  BY DEF LiveInv, RowTypes, SentOnce
<1> QED BY <1>1, LiveInvariant, PTL

\* An order that may be at the broker, but whose id was never saved, is never
\* shown as finished.
THEOREM UnmatchedOrdersStayOpen == Spec => []UnmatchedStaysOpen
<1>1. LiveInv => UnmatchedStaysOpen
  <2> SUFFICES ASSUME LiveInv, NEW c \in Clients, sends[c] > 0, ~row[c].known
               PROVE  row[c].status \in Unsaved
    BY DEF UnmatchedStaysOpen, Unsaved
  <2>1. row[c] \in Rows
    BY DEF LiveInv, RowTypes, RowsFit
  <2> QED BY <2>1 DEF LiveInv, RowsFit, Rows, Statuses, Active, Final
<1> QED BY <1>1, LiveInvariant, PTL

\* A final status in the database is the broker's, with the traded quantity,
\* although requests write what they read before others wrote.
THEOREM FinalStatusIsTrue == Spec => []FinalIsTrue
<1>1. LiveInv => FinalIsTrue
  BY DEF LiveInv
<1> QED BY <1>1, LiveInvariant, PTL

=============================================================================
