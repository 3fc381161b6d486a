--------------------------- MODULE PlannedOrders ---------------------------
(***************************************************************************)
(* One planned order: PlannedOrdersService and its commercial wrapper over *)
(* the order's row, its bids, the refunds of its credit, its dispute, and  *)
(* the job queue. No handler locks the row: each reads first, and writes   *)
(* later under the condition of its own statement (gate). A handler in     *)
(* progress is a record of its next statement and of what it has read.     *)
(* Names carry the component's, since modules are composed by EXTENDS.     *)
(***************************************************************************)
EXTENDS Integers, FiniteSets

CONSTANTS
    Bidders,        \* the masters who may bid
    NoBidder,       \* masterId IS NULL
    NoPlannedJob,   \* a handler that serves a request
    PlannedHandlers, \* bound: how many handlers run at once
    Modes,          \* commercialMode of the order: PAID, FREE_PILOT
    MaxBids,        \* PLANNED_MAX_BIDS
    MaxTurn         \* bound on how often a bid is selected

ASSUME PlannedSentinels == NoBidder \notin Bidders
ASSUME PlannedBounds ==
    MaxBids \in Nat \ {0} /\ MaxTurn \in Nat /\ IsFiniteSet(PlannedHandlers)
ASSUME ModesAssumption == Modes \subseteq {"PAID", "FREE_PILOT"}

VARIABLES
    planned,       \* the row of PlannedOrder; turn counts the selections made
    bids,          \* masters with a PlannedOrderBid, one per master and order
    outbox,        \* expiryScheduledAt of the creation request, "none" without one
    returned,      \* REFUND rows of the order, per master
    plannedDispute, \* the status of the order's Dispute, unique per order
    plannedJobs,   \* jobs queued, or taken and not completed
    plannedCall    \* the handlers in progress

plannedVars == <<planned, bids, outbox, returned, plannedDispute, plannedJobs, plannedCall>>

-----------------------------------------------------------------------------
Before == {"PUBLISHED"}                                  \* before a selection
After == {"MASTER_SELECTED", "CONFIRMED", "IN_PROGRESS"} \* and after it
Finished == {"CLOSED", "CANCELLED_BY_CLIENT", "EXPIRED"}
PlannedStatus == {"NONE", "DONE"} \cup Before \cup After \cup Finished

ExpiryJob == [name |-> "EXPIRY", who |-> NoBidder, turn |-> 0]
AutoClosePlannedJob == [name |-> "AUTO_CLOSE", who |-> NoBidder, turn |-> 0]
\* The job names the bid. The turn only tells the jobs of one bid apart.
ConfirmTimeoutJob(m, t) == [name |-> "CONFIRM_TIMEOUT", who |-> m, turn |-> t]
PlannedJob == {ExpiryJob, AutoClosePlannedJob}
                \cup {ConfirmTimeoutJob(m, t) : m \in Bidders, t \in 1..MaxTurn}

PlannedStatement ==
    {"idle", "sendExpiry", "schedule", "mark", "countBids", "insertBid", "select",
     "sendConfirmTimeout", "confirm", "decline", "timeout", "onSite", "complete",
     "sendAutoClose", "checkDispute", "close", "expire", "cancelBefore",
     "cancelAfter", "cancelByMaster", "insertDispute"}

\* who: the master who acts, is selected, or was read as masterId; turn: the
\* selection that was in force at that moment.
PlannedCall == [at : PlannedStatement, who : Bidders \cup {NoBidder}, turn : 0..MaxTurn,
                job : PlannedJob \cup {NoPlannedJob}]
PlannedIdle == [at |-> "idle", who |-> NoBidder, turn |-> 0, job |-> NoPlannedJob]

PlannedTypeOK ==
    /\ planned \in [status : PlannedStatus, mode : Modes, master : Bidders \cup {NoBidder},
                    price : Bidders \cup {NoBidder}, turn : 0..MaxTurn]
    /\ bids \subseteq Bidders
    /\ outbox \in {"none", "pending", "scheduled"}
    /\ returned \in [Bidders -> Nat]
    /\ plannedDispute \in {"NONE", "OPEN", "RESOLVED"}
    /\ plannedJobs \subseteq PlannedJob
    /\ plannedCall \in [PlannedHandlers -> PlannedCall]

PlannedInit ==
    /\ \E mode \in Modes :
          planned = [status |-> "NONE", mode |-> mode, master |-> NoBidder,
                     price |-> NoBidder, turn |-> 0]
    /\ bids = {} /\ outbox = "none"
    /\ returned = [m \in Bidders |-> 0]
    /\ plannedDispute = "NONE"
    /\ plannedJobs = {}
    /\ plannedCall = [h \in PlannedHandlers |-> PlannedIdle]

-----------------------------------------------------------------------------
(* How handlers go on and end *)

PlannedAt(h, statement) == plannedCall[h].at = statement
PlannedRequest(statement, m) ==
    [at |-> statement, who |-> m, turn |-> planned.turn, job |-> NoPlannedJob]
PlannedBegin(h, c) == PlannedAt(h, "idle") /\ plannedCall' = [plannedCall EXCEPT ![h] = c]
PlannedGoTo(h, statement) == plannedCall' = [plannedCall EXCEPT ![h].at = statement]
\* It throws or dies, so that the job it serves is delivered again, or serves none.
PlannedLeave(h) == plannedCall' = [plannedCall EXCEPT ![h] = PlannedIdle] /\ UNCHANGED plannedJobs
PlannedEnd(h) ==
    /\ plannedCall' = [plannedCall EXCEPT ![h] = PlannedIdle]
    /\ plannedJobs' = plannedJobs \ {plannedCall[h].job}
SendAndReturn(h, job) ==
    /\ plannedCall' = [plannedCall EXCEPT ![h] = PlannedIdle]
    /\ plannedJobs' = plannedJobs \cup {job}

BugNoPlannedGate(from) == TRUE
\* updateMany where status in from
PlannedGate(from) == planned.status \in from

\* The handler's gate: the row becomes row and the handler ends, or it throws.
GateAndEnd(h, from, row) ==
    IF PlannedGate(from) THEN planned' = row /\ PlannedEnd(h)
    ELSE UNCHANGED planned /\ PlannedLeave(h)

BugMasterNotCleared == [planned EXCEPT !.status = "PUBLISHED"]
\* Back to the feed; the bids stay.
Republished == [planned EXCEPT !.status = "PUBLISHED", !.master = NoBidder]

-----------------------------------------------------------------------------
(* Creation, and the job that expires an order without bids *)

\* create sends the job after its transaction and nothing repeats that;
\* createIdempotent also commits a request row that serves as an outbox.
CreatePlanned(h) ==
    /\ planned.status = "NONE"
    /\ planned' = [planned EXCEPT !.status = "PUBLISHED"]
    /\ \/ outbox' = "pending" /\ PlannedBegin(h, PlannedRequest("schedule", NoBidder))
       \/ outbox' = "none" /\ PlannedBegin(h, PlannedRequest("sendExpiry", NoBidder))
    /\ UNCHANGED <<bids, returned, plannedDispute, plannedJobs>>

SendExpiry(h) ==
    /\ PlannedAt(h, "sendExpiry")
    /\ SendAndReturn(h, ExpiryJob)
    /\ UNCHANGED <<planned, bids, outbox, returned, plannedDispute>>

BugRecoverScheduled == outbox = "scheduled"
OutboxPending == outbox = "pending"
\* recoverCreationExpiry, each minute; a replayed creation does the same.
RecoverExpiry(h) ==
    /\ OutboxPending
    /\ PlannedBegin(h, PlannedRequest("schedule", NoBidder))
    /\ UNCHANGED <<planned, bids, outbox, returned, plannedDispute, plannedJobs>>

\* scheduleCreationExpiry: the job first, the mark after it.
ScheduleExpiry(h) ==
    /\ PlannedAt(h, "schedule")
    /\ plannedJobs' = plannedJobs \cup {ExpiryJob}
    /\ PlannedGoTo(h, "mark")
    /\ UNCHANGED <<planned, bids, outbox, returned, plannedDispute>>

\* The queue is down or the send fails: the row stays pending.
ScheduleFails(h) ==
    /\ PlannedAt(h, "schedule")
    /\ PlannedLeave(h)
    /\ UNCHANGED <<planned, bids, outbox, returned, plannedDispute>>

MarkScheduled(h) ==
    /\ PlannedAt(h, "mark")
    /\ outbox' = "scheduled"
    /\ PlannedLeave(h)
    /\ UNCHANGED <<planned, bids, returned, plannedDispute>>

-----------------------------------------------------------------------------
(* Bids and credits *)

\* Who is blocked for new orders is left open: a refusal is no step.
PlaceBid(h, m) ==
    /\ planned.status = "PUBLISHED"
    /\ PlannedBegin(h, PlannedRequest("countBids", m))
    /\ UNCHANGED <<planned, bids, outbox, returned, plannedDispute, plannedJobs>>

BugOneBidMore == Cardinality(bids) <= MaxBids
RoomForBid == Cardinality(bids) < MaxBids

CountBids(h) ==
    /\ PlannedAt(h, "countBids")
    /\ IF RoomForBid THEN PlannedGoTo(h, "insertBid") /\ UNCHANGED plannedJobs
       ELSE PlannedLeave(h)
    /\ UNCHANGED <<planned, bids, outbox, returned, plannedDispute>>

\* The credit (not in the pilot), the bid and the SPEND row, or nothing: the bid is
\* unique, and whether the master has a credit LeadCredits says.
InsertBid(h) ==
    /\ PlannedAt(h, "insertBid")
    /\ bids' \in {bids, bids \cup {plannedCall[h].who}}
    /\ PlannedLeave(h)
    /\ UNCHANGED <<planned, outbox, returned, plannedDispute>>

-----------------------------------------------------------------------------
(* Selection and confirmation *)

SelectBid(h, m) ==
    /\ m \in bids
    /\ PlannedBegin(h, PlannedRequest("select", m))
    /\ UNCHANGED <<planned, bids, outbox, returned, plannedDispute, plannedJobs>>

SelectGate(h) ==
    LET t == planned.turn + 1
    IN  /\ PlannedAt(h, "select")
        /\ IF PlannedGate({"PUBLISHED"}) /\ t <= MaxTurn    \* bound: beyond it the handler dies
           THEN /\ planned' = [planned EXCEPT !.status = "MASTER_SELECTED",
                                              !.master = plannedCall[h].who, !.turn = t]
                /\ plannedCall' = [plannedCall EXCEPT ![h].at = "sendConfirmTimeout", ![h].turn = t]
                /\ UNCHANGED plannedJobs
           ELSE UNCHANGED planned /\ PlannedLeave(h)
        /\ UNCHANGED <<bids, outbox, returned, plannedDispute>>

SendConfirmTimeout(h) ==
    /\ PlannedAt(h, "sendConfirmTimeout")
    /\ SendAndReturn(h, ConfirmTimeoutJob(plannedCall[h].who, plannedCall[h].turn))
    /\ UNCHANGED <<planned, bids, outbox, returned, plannedDispute>>

\* guardMaster, and the same check in confirm and decline
IsSelected(m) == planned.master = m

\* The requests that check who is selected, and leave the status to the gate.
MasterAsks(h, m) ==
    /\ IsSelected(m)
    /\ \E statement \in {"confirm", "decline", "onSite", "complete"} :
          PlannedBegin(h, PlannedRequest(statement, m))
    /\ UNCHANGED <<planned, bids, outbox, returned, plannedDispute, plannedJobs>>

\* The price is that of the bid read before.
ConfirmGate(h) ==
    /\ PlannedAt(h, "confirm")
    /\ GateAndEnd(h, {"MASTER_SELECTED"},
           [planned EXCEPT !.status = "CONFIRMED", !.price = plannedCall[h].who])
    /\ UNCHANGED <<bids, outbox, returned, plannedDispute>>

BugAnyBid(j) == planned.status = "MASTER_SELECTED"
SelectionTimedOut(j) == planned.status = "MASTER_SELECTED" /\ planned.master = j.who

TakeConfirmTimeout(h) ==
    \E j \in plannedJobs :
        /\ j.name = "CONFIRM_TIMEOUT"
        /\ IF SelectionTimedOut(j)
           THEN PlannedBegin(h, [PlannedRequest("timeout", j.who) EXCEPT !.job = j])
                /\ UNCHANGED plannedJobs
           ELSE plannedJobs' = plannedJobs \ {j} /\ UNCHANGED plannedCall
        /\ UNCHANGED <<planned, bids, outbox, returned, plannedDispute>>

\* returnToPublished, for a decline and for the timeout
ReturnGate(h) ==
    /\ PlannedAt(h, "decline") \/ PlannedAt(h, "timeout")
    /\ GateAndEnd(h, {"MASTER_SELECTED"}, Republished)
    /\ UNCHANGED <<bids, outbox, returned, plannedDispute>>

-----------------------------------------------------------------------------
(* Work, closing and expiry *)

OnSiteGate(h) ==
    /\ PlannedAt(h, "onSite")
    /\ GateAndEnd(h, {"CONFIRMED"}, [planned EXCEPT !.status = "IN_PROGRESS"])
    /\ UNCHANGED <<bids, outbox, returned, plannedDispute>>

CompleteGate(h) ==
    /\ PlannedAt(h, "complete")
    /\ IF PlannedGate({"IN_PROGRESS"})
       THEN /\ planned' = [planned EXCEPT !.status = "DONE"]
            /\ PlannedGoTo(h, "sendAutoClose") /\ UNCHANGED plannedJobs
       ELSE UNCHANGED planned /\ PlannedLeave(h)
    /\ UNCHANGED <<bids, outbox, returned, plannedDispute>>

SendPlannedAutoClose(h) ==
    /\ PlannedAt(h, "sendAutoClose")
    /\ SendAndReturn(h, AutoClosePlannedJob)
    /\ UNCHANGED <<planned, bids, outbox, returned, plannedDispute>>

\* confirmCompletion: an order keeps its client, so the gate is all there is.
ConfirmCompletion ==
    /\ PlannedGate({"DONE"})
    /\ planned' = [planned EXCEPT !.status = "CLOSED"]
    /\ UNCHANGED <<bids, outbox, returned, plannedDispute, plannedJobs, plannedCall>>

TakeAutoClose(h) ==
    /\ AutoClosePlannedJob \in plannedJobs
    /\ IF planned.status = "DONE"
       THEN /\ PlannedBegin(h, [PlannedRequest("checkDispute", NoBidder)
                                  EXCEPT !.job = AutoClosePlannedJob])
            /\ UNCHANGED plannedJobs
       ELSE plannedJobs' = plannedJobs \ {AutoClosePlannedJob} /\ UNCHANGED plannedCall
    /\ UNCHANGED <<planned, bids, outbox, returned, plannedDispute>>

CheckDispute(h) ==
    /\ PlannedAt(h, "checkDispute")
    /\ IF plannedDispute = "OPEN" THEN PlannedEnd(h)
       ELSE PlannedGoTo(h, "close") /\ UNCHANGED plannedJobs
    /\ UNCHANGED <<planned, bids, outbox, returned, plannedDispute>>

CloseGate(h) ==
    /\ PlannedAt(h, "close")
    /\ GateAndEnd(h, {"DONE"}, [planned EXCEPT !.status = "CLOSED"])
    /\ UNCHANGED <<bids, outbox, returned, plannedDispute>>

TakeExpiry(h) ==
    /\ ExpiryJob \in plannedJobs
    /\ IF planned.status = "PUBLISHED" /\ bids = {}
       THEN /\ PlannedBegin(h, [PlannedRequest("expire", NoBidder) EXCEPT !.job = ExpiryJob])
            /\ UNCHANGED plannedJobs
       ELSE plannedJobs' = plannedJobs \ {ExpiryJob} /\ UNCHANGED plannedCall
    /\ UNCHANGED <<planned, bids, outbox, returned, plannedDispute>>

ExpireGate(h) ==
    /\ PlannedAt(h, "expire")
    /\ GateAndEnd(h, {"PUBLISHED"}, [planned EXCEPT !.status = "EXPIRED"])
    /\ UNCHANGED <<bids, outbox, returned, plannedDispute>>

-----------------------------------------------------------------------------
(* Cancellation, dispute, crashes *)

CancelPlanned(h) ==
    /\ \/ planned.status \in Before /\ PlannedBegin(h, PlannedRequest("cancelBefore", NoBidder))
       \/ planned.status \in After /\ PlannedBegin(h, PlannedRequest("cancelAfter", planned.master))
       \/ \E m \in Bidders :
             /\ planned.status \in {"CONFIRMED", "IN_PROGRESS"} /\ IsSelected(m)
             /\ PlannedBegin(h, PlannedRequest("cancelByMaster", m))
    /\ UNCHANGED <<planned, bids, outbox, returned, plannedDispute, plannedJobs>>

CancelBeforeGate(h) ==
    /\ PlannedAt(h, "cancelBefore")
    /\ GateAndEnd(h, Before, [planned EXCEPT !.status = "CANCELLED_BY_CLIENT"])
    /\ UNCHANGED <<bids, outbox, returned, plannedDispute>>

\* The credit goes back to the master read before the transaction; not in the pilot.
CancelAfterGate(h) ==
    LET m == plannedCall[h].who
    IN  /\ PlannedAt(h, "cancelAfter")
        /\ GateAndEnd(h, After, [planned EXCEPT !.status = "CANCELLED_BY_CLIENT"])
        /\ IF PlannedGate(After) /\ planned.mode = "PAID" /\ m # NoBidder
           THEN returned' = [returned EXCEPT ![m] = @ + 1]
           ELSE UNCHANGED returned
        /\ UNCHANGED <<bids, outbox, plannedDispute>>

\* What the master is charged for it is in LeadCredits.
CancelByMasterGate(h) ==
    /\ PlannedAt(h, "cancelByMaster")
    /\ GateAndEnd(h, {"CONFIRMED", "IN_PROGRESS"}, Republished)
    /\ UNCHANGED <<bids, outbox, returned, plannedDispute>>

OpenPlannedDispute(h) ==
    /\ planned.status \in {"IN_PROGRESS", "DONE", "CLOSED"}
    /\ PlannedBegin(h, PlannedRequest("insertDispute", NoBidder))
    /\ UNCHANGED <<planned, bids, outbox, returned, plannedDispute, plannedJobs>>

InsertDispute(h) ==
    /\ PlannedAt(h, "insertDispute")
    /\ plannedDispute' = IF plannedDispute = "NONE" THEN "OPEN" ELSE plannedDispute
    /\ PlannedLeave(h)
    /\ UNCHANGED <<planned, bids, outbox, returned>>

\* The read of the order in the transaction and its conditional update.
ResolvePlannedDispute ==
    /\ plannedDispute = "OPEN"
    /\ plannedDispute' = "RESOLVED"
    /\ planned' = IF planned.status = "DONE" THEN [planned EXCEPT !.status = "CLOSED"] ELSE planned
    /\ UNCHANGED <<bids, outbox, returned, plannedJobs, plannedCall>>

PlannedDie(h) ==
    /\ ~PlannedAt(h, "idle")
    /\ PlannedLeave(h)
    /\ UNCHANGED <<planned, bids, outbox, returned, plannedDispute>>

-----------------------------------------------------------------------------
PlannedStep(h) ==
    \/ SendExpiry(h) \/ ScheduleExpiry(h) \/ ScheduleFails(h) \/ MarkScheduled(h)
    \/ CountBids(h) \/ InsertBid(h) \/ SelectGate(h) \/ SendConfirmTimeout(h)
    \/ ConfirmGate(h) \/ ReturnGate(h) \/ OnSiteGate(h) \/ CompleteGate(h)
    \/ SendPlannedAutoClose(h) \/ CheckDispute(h) \/ CloseGate(h) \/ ExpireGate(h)
    \/ CancelBeforeGate(h) \/ CancelAfterGate(h) \/ CancelByMasterGate(h) \/ InsertDispute(h)

PlannedNext ==
    \/ \E h \in PlannedHandlers :
          \/ CreatePlanned(h) \/ RecoverExpiry(h) \/ CancelPlanned(h) \/ OpenPlannedDispute(h)
          \/ TakeConfirmTimeout(h) \/ TakeAutoClose(h) \/ TakeExpiry(h)
          \/ \E m \in Bidders : PlaceBid(h, m) \/ SelectBid(h, m) \/ MasterAsks(h, m)
          \/ PlannedStep(h) \/ PlannedDie(h)
    \/ ConfirmCompletion \/ ResolvePlannedDispute

PlannedSpec == PlannedInit /\ [][PlannedNext]_plannedVars

\* The cron comes back each minute; it does not find the queue down for ever, nor
\* die each time between the send and the mark.
PlannedFairness ==
    \A h \in PlannedHandlers :
        /\ WF_plannedVars(PlannedStep(h))
        /\ SF_plannedVars(RecoverExpiry(h))
        /\ SF_plannedVars(ScheduleExpiry(h)) /\ SF_plannedVars(MarkScheduled(h))

-----------------------------------------------------------------------------
(* Properties *)

\* Bids are counted before they are inserted and nothing is locked. The limit
\* (placeBid) is therefore exceeded, but never by more than the number of bids
\* that were on the way beside the one that filled it.
BidsBounded == Cardinality(bids) <= MaxBids + Cardinality(PlannedHandlers) - 1

\* Who is assigned, and at whose price, in each status: a bidder from the selection
\* on, nobody while the order is published or when it expires, whatever stale
\* handler wrote last (select, returnToPublished, confirm, cancelByMaster).
ChosenIsABidder ==
    /\ planned.status \in After \cup {"DONE", "CLOSED"} => planned.master \in bids
    /\ planned.status \in {"CONFIRMED", "IN_PROGRESS", "DONE", "CLOSED"} => planned.price \in bids
    /\ planned.status \in Before \cup {"EXPIRED"} => planned.master = NoBidder

\* A handler that read who is selected, and finds its gate open, meets somebody
\* else there only if a bid was selected again meanwhile: no decline, timeout,
\* confirmation or cancellation alone makes a confirmation, a return to the feed,
\* a penalty or a refund hit the wrong master.
StaleOnlyAfterReselection ==
    \A h \in PlannedHandlers :
        LET c == plannedCall[h]
        IN  /\ c.turn = planned.turn
            /\ \/ c.at \in {"confirm", "decline", "timeout"} /\ planned.status = "MASTER_SELECTED"
               \/ c.at = "cancelAfter" /\ planned.status \in After
               \/ c.at = "cancelByMaster" /\ planned.status \in {"CONFIRMED", "IN_PROGRESS"}
            => c.who = planned.master

\* A client's cancellation returns one credit, once in the life of the order, to a
\* master who has bid on it, and none in the pilot (cancelByClient).
OneRefundToABidder ==
    /\ \A m \in Bidders : returned[m] > 0 =>
          /\ returned[m] = 1 /\ m \in bids
          /\ planned.mode = "PAID" /\ planned.status = "CANCELLED_BY_CLIENT"
    /\ \A m, n \in Bidders : returned[m] > 0 /\ returned[n] > 0 => m = n

\* The order as a booking: whoever is selected may step back, or be replaced after he
\* has not confirmed, until he has reported the work done.
PlannedPhase ==
    CASE planned.status = "NONE" -> "idle"
      [] planned.status \in Before -> "open"
      [] planned.status \in After -> "booked"
      [] planned.status = "DONE" -> "underway"
      [] planned.status \in Finished -> "over"

PlannedServer == IF planned.status \in After \cup {"DONE"} THEN planned.master ELSE NoBidder

PlannedBookings == INSTANCE Booking WITH
    Orders <- {"planned"}, Masters <- Bidders, NoMaster <- NoBidder,
    ClientOf <- [o \in {"planned"} |-> "client"],
    phase <- [o \in {"planned"} |-> PlannedPhase],
    server <- [o \in {"planned"} |-> PlannedServer]

\* The order is booked the way an urgent one is, though no handler locks it: one
\* master at a time, who does not change without the order having been in the feed
\* again, nobody is taken off work he has reported, and over is over. What Booking
\* says of several orders is not at stake here: this mode has no such limits.
PlannedImplementsBooking == PlannedBookings!Spec

\* The committed request row serves as an outbox: whatever dies between the send
\* and the mark, the expiry job of a keyed creation gets sent (recoverCreationExpiry).
ExpiryGetsScheduled == outbox = "pending" ~> outbox = "scheduled"
=============================================================================
