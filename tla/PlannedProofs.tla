---------------------------- MODULE PlannedProofs ----------------------------
(* Theorems about PlannedOrders and LeadCredits, for any bidders, handlers, *)
(* purchases, cancellations and limits.                                    *)
EXTENDS PlannedOrders, LeadCredits, FiniteSetTheorems, TLAPS

-----------------------------------------------------------------------------
(* The inductive invariant *)

(* Handlers that have read who is selected, and act on it later.           *)
Reading == {"confirm", "decline", "timeout", "onSite", "complete", "cancelAfter", "cancelByMaster"}

(* Where nobody is selected, until a bid is selected again.                *)
Deselected == {"PUBLISHED", "EXPIRED", "CANCELLED_BY_CLIENT"}

(* Who bids or was selected is a bidder; a timeout is sent for a selection. *)
Addressed(c) ==
    /\ c.at \in {"countBids", "insertBid", "sendConfirmTimeout"} => c.who \in Bidders
    /\ c.at = "sendConfirmTimeout" => c.turn \in 1..MaxTurn

(* What a handler has read is of its turn, and true until the turn is over; *)
(* it acts for a bidder.                                                   *)
HandlersKnow ==
    \A h \in PlannedHandlers :
        LET c == plannedCall[h]
        IN  /\ c.turn <= planned.turn /\ Addressed(c)
            /\ c.at \in {"select"} \cup Reading => c.who \in bids
            /\ c.at \in Reading /\ c.turn = planned.turn =>
                  c.who = planned.master \/ planned.status \in Deselected

MasterIsBidder ==
    /\ planned.master \in bids \cup {NoBidder} /\ NoBidder \notin bids
    /\ planned.status = "NONE" => planned.master = NoBidder

PlannedInv ==
    PlannedTypeOK /\ HandlersKnow /\ MasterIsBidder /\ ChosenIsABidder /\ OneRefundToABidder

-----------------------------------------------------------------------------
(* Types of calls *)

LEMMA IdleIsCall == PlannedIdle \in PlannedCall
  BY PlannedBounds DEF PlannedIdle, PlannedCall, PlannedStatement

LEMMA RequestIsCall ==
    ASSUME PlannedTypeOK, NEW s \in PlannedStatement, NEW m \in Bidders \cup {NoBidder}
    PROVE  PlannedRequest(s, m) \in PlannedCall
<1>1. planned.turn \in 0..MaxTurn
  BY DEF PlannedTypeOK
<1> HIDE DEF PlannedTypeOK
<1> QED
  BY <1>1 DEF PlannedRequest, PlannedCall

(* A call that goes on to another statement, and jobs, are well typed.     *)
LEMMA CallsOn ==
    ASSUME NEW c \in PlannedCall, NEW s \in PlannedStatement, NEW t \in 0..MaxTurn
    PROVE  [c EXCEPT !.at = s, !.turn = t] \in PlannedCall
  BY DEF PlannedCall

LEMMA JobTypes ==
    /\ ExpiryJob \in PlannedJob /\ AutoClosePlannedJob \in PlannedJob
    /\ \A m \in Bidders, t \in 1..MaxTurn : ConfirmTimeoutJob(m, t) \in PlannedJob
    /\ \A j \in PlannedJob : j.name = "CONFIRM_TIMEOUT" => j.who \in Bidders
<1>1. ExpiryJob \in PlannedJob /\ AutoClosePlannedJob \in PlannedJob
  BY DEF PlannedJob
<1>2. \A m \in Bidders, t \in 1..MaxTurn : ConfirmTimeoutJob(m, t) \in PlannedJob
  BY DEF PlannedJob
<1>3. ASSUME NEW j \in PlannedJob, j.name = "CONFIRM_TIMEOUT" PROVE j.who \in Bidders
  <2>1. ExpiryJob.name # "CONFIRM_TIMEOUT" /\ AutoClosePlannedJob.name # "CONFIRM_TIMEOUT"
    BY DEF ExpiryJob, AutoClosePlannedJob
  <2>2. PICK m \in Bidders, t \in 1..MaxTurn : j = ConfirmTimeoutJob(m, t)
    BY <1>3, <2>1 DEF PlannedJob
  <2> QED  BY <2>2 DEF ConfirmTimeoutJob
<1> QED
  BY <1>1, <1>2, <1>3

(* What a handler becomes: one that holds nothing to act on, one that acts *)
(* on a bid it has read, or one that acts on the selection it has read.    *)
Fits(c) ==
    \/ c.at \notin {"select"} \cup Reading /\ c.turn <= planned'.turn /\ Addressed(c)
    \/ c.at = "select" /\ c.who \in bids /\ c.turn = planned.turn /\ UNCHANGED planned
    \/ /\ c.at \in Reading /\ c.who = planned.master /\ c.turn = planned.turn /\ UNCHANGED planned
       /\ c.who \in Bidders \/ planned.status \in After

Moves(h) ==
    /\ plannedCall' \in [PlannedHandlers -> PlannedCall] /\ plannedJobs' \subseteq PlannedJob
    /\ \A k \in PlannedHandlers \ {h} : plannedCall'[k] = plannedCall[k]
    /\ Fits(plannedCall'[h])

(* A handler that ends, in any of the ways.                                *)
LEMMA Ends ==
    ASSUME PlannedTypeOK, NEW h \in PlannedHandlers, planned'.turn \in Nat,
           \/ PlannedLeave(h) \/ PlannedEnd(h)
           \/ \E j \in PlannedJob : SendAndReturn(h, j)
    PROVE  Moves(h)
<1>1. plannedCall' = [plannedCall EXCEPT ![h] = PlannedIdle] /\ plannedJobs' \subseteq PlannedJob
  BY DEF PlannedTypeOK, PlannedLeave, PlannedEnd, SendAndReturn
<1>2. PlannedIdle.at = "idle" /\ PlannedIdle.turn = 0
  BY DEF PlannedIdle
<1> QED
  BY <1>1, <1>2, IdleIsCall DEF Moves, Fits, Reading, PlannedTypeOK, Addressed

(* A handler that goes on to a statement that does not act on the selection. *)
LEMMA GoesOn ==
    ASSUME PlannedTypeOK, HandlersKnow, NEW h \in PlannedHandlers,
           NEW s \in PlannedStatement \ ({"select", "countBids", "sendConfirmTimeout"} \cup Reading),
           s = "insertBid" => PlannedAt(h, "countBids"), PlannedGoTo(h, s),
           UNCHANGED planned.turn, plannedJobs' \subseteq PlannedJob
    PROVE  Moves(h)
<1>1. [plannedCall[h] EXCEPT !.at = s] \in PlannedCall
  BY DEF PlannedTypeOK, PlannedCall
<1>2. plannedCall[h].turn <= planned.turn /\ (s = "insertBid" => plannedCall[h].who \in Bidders)
  BY DEF HandlersKnow, Addressed, PlannedAt
<1> QED
  BY <1>1, <1>2 DEF PlannedGoTo, Moves, Fits, PlannedTypeOK, PlannedCall, Addressed

(* A handler that begins.                                                  *)
LEMMA Begins ==
    ASSUME PlannedTypeOK, NEW h \in PlannedHandlers, NEW c \in PlannedCall, PlannedBegin(h, c), Fits(c),
           plannedJobs' \subseteq PlannedJob
    PROVE  Moves(h)
  BY DEF PlannedBegin, Moves, PlannedTypeOK

-----------------------------------------------------------------------------
(* What each operation does to the row and to its handler *)

(* How the row changes.                                                    *)
StatusMoves(from, to) ==
    \/ from = "NONE" /\ to = "PUBLISHED"
    \/ from = "CONFIRMED" /\ to = "IN_PROGRESS"
    \/ from = "IN_PROGRESS" /\ to = "DONE"
    \/ from = "DONE" /\ to = "CLOSED"
    \/ from = "PUBLISHED" /\ to = "EXPIRED"
    \/ from \in Before \cup After /\ to = "CANCELLED_BY_CLIENT"

RowKeeps ==
    \/ UNCHANGED planned
    \/ \E to \in PlannedStatus :
          StatusMoves(planned.status, to) /\ planned' = [planned EXCEPT !.status = to]

RowMoves(h) ==
    LET c == plannedCall[h]
    IN  \/ RowKeeps
        \/ /\ c.at = "select" /\ planned.status = "PUBLISHED" /\ planned.turn < MaxTurn
           /\ planned' = [planned EXCEPT !.status = "MASTER_SELECTED", !.master = c.who,
                                         !.turn = planned.turn + 1]
        \/ /\ c.at = "confirm" /\ planned.status = "MASTER_SELECTED"
           /\ planned' = [planned EXCEPT !.status = "CONFIRMED", !.price = c.who]
        \/ planned.status \in {"MASTER_SELECTED", "CONFIRMED", "IN_PROGRESS"} /\ planned' = Republished

OthersUnchanged == UNCHANGED <<bids, returned, plannedDispute>>

(* The handlers that only begin, read or send: no operation of the row.    *)
LEMMA ReadersStep ==
    ASSUME PlannedTypeOK, HandlersKnow, NEW h \in PlannedHandlers,
           \/ RecoverExpiry(h) \/ CancelPlanned(h) \/ OpenPlannedDispute(h)
           \/ TakeConfirmTimeout(h) \/ TakeAutoClose(h) \/ TakeExpiry(h)
           \/ \E m \in Bidders : PlaceBid(h, m) \/ SelectBid(h, m) \/ MasterAsks(h, m)
    PROVE  Moves(h) \/ (UNCHANGED plannedCall /\ plannedJobs' \subseteq PlannedJob)
<1>0. planned.turn \in Nat /\ planned.master \in Bidders \cup {NoBidder} /\ plannedJobs \subseteq PlannedJob
  BY PlannedBounds DEF PlannedTypeOK
<1>1. ASSUME NEW s \in PlannedStatement \ ({"select", "sendConfirmTimeout"} \cup Reading),
             NEW m \in Bidders \cup {NoBidder}, m \in Bidders \/ s \notin {"countBids", "insertBid"},
             NEW j \in PlannedJob \cup {NoPlannedJob},
             PlannedBegin(h, [PlannedRequest(s, m) EXCEPT !.job = j]), UNCHANGED planned,
             plannedJobs' \subseteq PlannedJob
      PROVE  Moves(h)
  <2>1. [PlannedRequest(s, m) EXCEPT !.job = j] \in PlannedCall
    BY RequestIsCall DEF PlannedCall
  <2>2. Fits([PlannedRequest(s, m) EXCEPT !.job = j])
    BY <1>0, <1>1 DEF Fits, PlannedRequest, Addressed
  <2> QED  BY <1>1, <2>1, <2>2, Begins
<1>2. ASSUME NEW s \in PlannedStatement \ ({"select", "sendConfirmTimeout"} \cup Reading),
             NEW m \in Bidders \cup {NoBidder}, m \in Bidders \/ s \notin {"countBids", "insertBid"},
             PlannedBegin(h, PlannedRequest(s, m)), UNCHANGED <<planned, plannedJobs>>
      PROVE  Moves(h)
  <2>1. Fits(PlannedRequest(s, m))
    BY <1>0, <1>2 DEF Fits, PlannedRequest, Addressed
  <2> QED  BY <1>0, <1>2, <2>1, Begins, RequestIsCall
<1>3. ASSUME NEW s \in Reading, NEW m \in Bidders \cup {NoBidder}, m = planned.master,
             m \in Bidders \/ planned.status \in After,
             NEW j \in PlannedJob \cup {NoPlannedJob},
             PlannedBegin(h, [PlannedRequest(s, m) EXCEPT !.job = j]), UNCHANGED <<planned, plannedJobs>>
      PROVE  Moves(h)
  <2>1. [PlannedRequest(s, m) EXCEPT !.job = j] \in PlannedCall
    BY RequestIsCall DEF PlannedCall, Reading, PlannedStatement
  <2>2. Fits([PlannedRequest(s, m) EXCEPT !.job = j])
    BY <1>0, <1>3 DEF Fits, PlannedRequest
  <2> QED  BY <1>0, <1>3, <2>1, <2>2, Begins
<1>4. \A s, m : PlannedRequest(s, m) = [PlannedRequest(s, m) EXCEPT !.job = NoPlannedJob]
  BY DEF PlannedRequest
<1> USE DEF PlannedStatement, Reading
<1>5. CASE RecoverExpiry(h) \/ OpenPlannedDispute(h)
  BY <1>2, <1>5 DEF RecoverExpiry, OpenPlannedDispute
<1>6. CASE CancelPlanned(h)
  <2>1. CASE PlannedBegin(h, PlannedRequest("cancelBefore", NoBidder))
    BY <1>2, <1>6, <2>1 DEF CancelPlanned
  <2>2. CASE planned.status \in After /\ PlannedBegin(h, PlannedRequest("cancelAfter", planned.master))
    BY <1>0, <1>3, <1>4, <1>6, <2>2 DEF CancelPlanned
  <2>3. ASSUME NEW m \in Bidders, IsSelected(m), PlannedBegin(h, PlannedRequest("cancelByMaster", m))
        PROVE  Moves(h)
    BY <1>3, <1>4, <1>6, <2>3 DEF CancelPlanned, IsSelected
  <2> QED  BY <1>6, <2>1, <2>2, <2>3 DEF CancelPlanned
<1>7. CASE TakeConfirmTimeout(h)
  <2>1. PICK j \in plannedJobs :
           /\ j.name = "CONFIRM_TIMEOUT"
           /\ IF SelectionTimedOut(j)
              THEN PlannedBegin(h, [PlannedRequest("timeout", j.who) EXCEPT !.job = j])
                   /\ UNCHANGED plannedJobs
              ELSE plannedJobs' = plannedJobs \ {j} /\ UNCHANGED plannedCall
           /\ UNCHANGED planned
    BY <1>7 DEF TakeConfirmTimeout
  <2>2. j \in PlannedJob /\ j.who \in Bidders
    BY <1>0, <2>1, JobTypes
  <2>3. CASE SelectionTimedOut(j)
    BY <1>3, <2>1, <2>2, <2>3 DEF SelectionTimedOut
  <2>4. CASE ~SelectionTimedOut(j)
    BY <1>0, <2>1, <2>4
  <2> QED  BY <2>3, <2>4
<1>8. CASE TakeAutoClose(h)
  <2>1. CASE planned.status = "DONE"
    BY <1>0, <1>1, <1>8, <2>1, JobTypes DEF TakeAutoClose
  <2>2. CASE planned.status # "DONE"
    BY <1>0, <1>8, <2>2 DEF TakeAutoClose
  <2> QED  BY <2>1, <2>2
<1>9. CASE TakeExpiry(h)
  <2>1. CASE planned.status = "PUBLISHED" /\ bids = {}
    BY <1>0, <1>1, <1>9, <2>1, JobTypes DEF TakeExpiry
  <2>2. CASE ~(planned.status = "PUBLISHED" /\ bids = {})
    BY <1>0, <1>9, <2>2 DEF TakeExpiry
  <2> QED  BY <2>1, <2>2
<1>10. ASSUME NEW m \in Bidders, PlaceBid(h, m) PROVE Moves(h)
  BY <1>2, <1>10 DEF PlaceBid
<1>11. ASSUME NEW m \in Bidders, SelectBid(h, m) PROVE Moves(h)
  <2>1. Fits(PlannedRequest("select", m))
    BY <1>0, <1>11 DEF Fits, PlannedRequest, SelectBid
  <2> QED  BY <1>0, <1>11, <2>1, Begins, RequestIsCall DEF SelectBid
<1>12. ASSUME NEW m \in Bidders, MasterAsks(h, m) PROVE Moves(h)
  <2>1. PICK s \in {"confirm", "decline", "onSite", "complete"} : PlannedBegin(h, PlannedRequest(s, m))
    BY <1>12 DEF MasterAsks
  <2> QED  BY <1>3, <1>4, <1>12, <2>1 DEF MasterAsks, IsSelected
<1> QED
  BY <1>5, <1>6, <1>7, <1>8, <1>9, <1>10, <1>11, <1>12

RowOK ==
    planned' \in [status : PlannedStatus, mode : Modes, master : Bidders \cup {NoBidder},
                  price : Bidders \cup {NoBidder}, turn : 0..MaxTurn]

(* A row that changes in these ways is well typed, and counts on.          *)
LEMMA RowTypes ==
    ASSUME PlannedTypeOK, RowKeeps \/ \E h \in PlannedHandlers : RowMoves(h)
    PROVE  RowOK /\ planned'.mode = planned.mode /\ planned'.turn >= planned.turn
<1> USE DEF RowKeeps
<1> DEFINE Row == [status : PlannedStatus, mode : Modes, master : Bidders \cup {NoBidder},
                   price : Bidders \cup {NoBidder}, turn : 0..MaxTurn]
<1>1. planned \in Row /\ \A h \in PlannedHandlers : plannedCall[h].who \in Bidders \cup {NoBidder}
  BY DEF PlannedTypeOK, PlannedCall
<1>2. CASE UNCHANGED planned
  BY <1>1, <1>2 DEF RowOK
<1>3. ASSUME NEW s \in PlannedStatus, planned' = [planned EXCEPT !.status = s]
      PROVE  RowOK /\ planned'.mode = planned.mode /\ planned'.turn >= planned.turn
  BY <1>1, <1>3 DEF RowOK
<1>4. ASSUME NEW h \in PlannedHandlers, planned.turn < MaxTurn,
             planned' = [planned EXCEPT !.status = "MASTER_SELECTED", !.master = plannedCall[h].who,
                                        !.turn = planned.turn + 1]
      PROVE  RowOK /\ planned'.mode = planned.mode /\ planned'.turn >= planned.turn
  <2>1. "MASTER_SELECTED" \in PlannedStatus
    BY DEF PlannedStatus, After
  <2>2. planned.turn + 1 \in 0..MaxTurn
    BY <1>1, <1>4, PlannedBounds
  <2>3. planned' = [status |-> "MASTER_SELECTED", mode |-> planned.mode, master |-> plannedCall[h].who,
                    price |-> planned.price, turn |-> planned.turn + 1]
    BY <1>1, <1>4
  <2> QED  BY <1>1, <2>1, <2>2, <2>3 DEF RowOK
<1>5. ASSUME NEW h \in PlannedHandlers,
             planned' = [planned EXCEPT !.status = "CONFIRMED", !.price = plannedCall[h].who]
      PROVE  RowOK /\ planned'.mode = planned.mode /\ planned'.turn >= planned.turn
  <2>1. "CONFIRMED" \in PlannedStatus
    BY DEF PlannedStatus, After
  <2>2. planned' = [status |-> "CONFIRMED", mode |-> planned.mode, master |-> planned.master,
                    price |-> plannedCall[h].who, turn |-> planned.turn]
    BY <1>1, <1>5
  <2> QED  BY <1>1, <2>1, <2>2 DEF RowOK
<1>6. CASE planned' = Republished
  <2>1. "PUBLISHED" \in PlannedStatus
    BY DEF PlannedStatus, Before
  <2>2. planned' = [status |-> "PUBLISHED", mode |-> planned.mode, master |-> NoBidder,
                    price |-> planned.price, turn |-> planned.turn]
    BY <1>1, <1>6 DEF Republished
  <2> QED  BY <1>1, <2>1, <2>2 DEF RowOK
<1> QED
  BY <1>2, <1>3, <1>4, <1>5, <1>6 DEF RowMoves

(* A change of the status alone.                                           *)
LEMMA StatusIsRow ==
    ASSUME NEW h \in PlannedHandlers, NEW to \in {"PUBLISHED", "IN_PROGRESS", "DONE", "CLOSED", "EXPIRED",
                                                 "CANCELLED_BY_CLIENT"},
           StatusMoves(planned.status, to), planned' = [planned EXCEPT !.status = to]
    PROVE  RowMoves(h)
<1>1. to \in PlannedStatus
  BY DEF PlannedStatus, Before, After, Finished
<1> QED
  BY <1>1 DEF RowMoves, RowKeeps

(* A gate that moves the status is one of the moves of the row.            *)
LEMMA GateMoves ==
    ASSUME PlannedTypeOK, NEW h \in PlannedHandlers, NEW from, NEW row,
           GateAndEnd(h, from, row), planned.status \in from /\ planned' = row => RowMoves(h)
    PROVE  RowMoves(h) /\ Moves(h)
<1>1. RowMoves(h)
  BY DEF GateAndEnd, PlannedGate, RowMoves, RowKeeps
<1>2. planned'.turn \in Nat
  BY <1>1, RowTypes, PlannedBounds DEF RowOK
<1> QED
  BY <1>1, <1>2, Ends DEF GateAndEnd

LEMMA WritersStep ==
    ASSUME PlannedTypeOK, HandlersKnow, NEW h \in PlannedHandlers,
           CreatePlanned(h) \/ PlannedStep(h) \/ PlannedDie(h)
    PROVE  RowMoves(h) /\ Moves(h)
<1>0. planned.turn \in Nat /\ plannedJobs \subseteq PlannedJob
  BY PlannedBounds DEF PlannedTypeOK
<1>a. ASSUME UNCHANGED planned PROVE RowMoves(h) /\ planned'.turn \in Nat
  BY <1>0, <1>a DEF RowMoves, RowKeeps
<1> USE DEF PlannedStatement, Reading
<1>1. CASE CreatePlanned(h)
  <2>1. RowMoves(h)
    BY <1>1, StatusIsRow DEF CreatePlanned, StatusMoves
  <2>2. planned'.turn = planned.turn
    BY <1>1 DEF CreatePlanned, PlannedTypeOK
  <2>3. PICK s \in {"schedule", "sendExpiry"} : PlannedBegin(h, PlannedRequest(s, NoBidder))
    BY <1>1 DEF CreatePlanned
  <2>4. Fits(PlannedRequest(s, NoBidder)) /\ PlannedRequest(s, NoBidder) \in PlannedCall
    BY <1>0, <2>2, RequestIsCall DEF Fits, PlannedRequest, Addressed
  <2>5. plannedJobs' \subseteq PlannedJob
    BY <1>0, <1>1 DEF CreatePlanned
  <2> QED  BY <2>1, <2>3, <2>4, <2>5, Begins
<1>2. CASE SendExpiry(h) \/ SendPlannedAutoClose(h)
  BY <1>a, <1>2, Ends, JobTypes DEF SendExpiry, SendPlannedAutoClose
<1>3. CASE SendConfirmTimeout(h)
  <2>1. ConfirmTimeoutJob(plannedCall[h].who, plannedCall[h].turn) \in PlannedJob
    BY <1>3, JobTypes DEF SendConfirmTimeout, HandlersKnow, Addressed, PlannedAt
  <2> QED  BY <1>a, <1>3, <2>1, Ends DEF SendConfirmTimeout
<1>4. CASE ScheduleFails(h) \/ MarkScheduled(h) \/ InsertBid(h) \/ InsertDispute(h) \/ PlannedDie(h)
  BY <1>a, <1>4, Ends DEF ScheduleFails, MarkScheduled, InsertBid, InsertDispute, PlannedDie
<1>5. CASE ScheduleExpiry(h)
  BY <1>0, <1>a, <1>5, GoesOn, JobTypes DEF ScheduleExpiry
<1>6. CASE CountBids(h)
  <2>1. CASE PlannedGoTo(h, "insertBid") /\ UNCHANGED plannedJobs
    BY <1>0, <1>a, <1>6, <2>1, GoesOn DEF CountBids
  <2>2. CASE PlannedLeave(h)
    BY <1>a, <1>6, <2>2, Ends DEF CountBids
  <2> QED  BY <1>6, <2>1, <2>2 DEF CountBids
<1>7. CASE CheckDispute(h)
  <2>1. CASE PlannedGoTo(h, "close") /\ UNCHANGED plannedJobs
    BY <1>0, <1>a, <1>7, <2>1, GoesOn DEF CheckDispute
  <2>2. CASE PlannedEnd(h)
    BY <1>a, <1>7, <2>2, Ends DEF CheckDispute
  <2> QED  BY <1>7, <2>1, <2>2 DEF CheckDispute
<1>8. CASE SelectGate(h)
  <2>1. CASE UNCHANGED planned /\ PlannedLeave(h)
    BY <1>a, <2>1, Ends
  <2>2. CASE ~(UNCHANGED planned /\ PlannedLeave(h))
    <3>1. /\ plannedCall[h].at = "select" /\ planned.status = "PUBLISHED" /\ planned.turn + 1 <= MaxTurn
          /\ planned' = [planned EXCEPT !.status = "MASTER_SELECTED", !.master = plannedCall[h].who,
                                        !.turn = planned.turn + 1]
          /\ plannedCall' = [plannedCall EXCEPT ![h].at = "sendConfirmTimeout",
                                                ![h].turn = planned.turn + 1]
          /\ UNCHANGED plannedJobs
      BY <1>8, <2>2 DEF SelectGate, PlannedGate, PlannedAt
    <3>2. planned.turn + 1 \in 1..MaxTurn /\ plannedCall[h].who \in Bidders
      BY <1>0, <3>1, PlannedBounds DEF HandlersKnow, PlannedTypeOK
    <3>3. RowMoves(h)
      <4>1. planned.turn < MaxTurn
        BY <1>0, <3>1, PlannedBounds
      <4> QED  BY <3>1, <4>1 DEF RowMoves
    <3>4. planned'.turn = planned.turn + 1
      BY <3>1 DEF PlannedTypeOK
    <3>5. [plannedCall[h] EXCEPT !.at = "sendConfirmTimeout", !.turn = planned.turn + 1] \in PlannedCall
      <4>1. plannedCall[h] \in PlannedCall /\ planned.turn + 1 \in 0..MaxTurn
        BY <3>2, PlannedBounds DEF PlannedTypeOK
      <4>2. "sendConfirmTimeout" \in PlannedStatement
        OBVIOUS
      <4> QED  BY <4>1, <4>2, CallsOn
    <3>6. /\ plannedCall'[h].at = "sendConfirmTimeout" /\ plannedCall'[h].turn = planned.turn + 1
          /\ plannedCall'[h].who = plannedCall[h].who
          /\ plannedCall' \in [PlannedHandlers -> PlannedCall]
          /\ \A k \in PlannedHandlers \ {h} : plannedCall'[k] = plannedCall[k]
      BY <3>1, <3>5 DEF PlannedTypeOK, PlannedCall
    <3> QED  BY <1>0, <3>1, <3>2, <3>3, <3>4, <3>6 DEF Moves, Fits, Addressed
  <2> QED  BY <2>1, <2>2
<1>9. CASE CompleteGate(h)
  <2>1. CASE UNCHANGED planned /\ PlannedLeave(h)
    BY <1>a, <2>1, Ends
  <2>2. CASE ~(UNCHANGED planned /\ PlannedLeave(h))
    <3>1. /\ planned.status = "IN_PROGRESS" /\ planned' = [planned EXCEPT !.status = "DONE"]
          /\ PlannedGoTo(h, "sendAutoClose") /\ UNCHANGED plannedJobs
      BY <1>9, <2>2 DEF CompleteGate, PlannedGate
    <3>2. RowMoves(h)
      BY <3>1, StatusIsRow DEF StatusMoves
    <3>3. planned'.turn = planned.turn
      BY <3>1 DEF PlannedTypeOK
    <3> QED  BY <1>0, <3>1, <3>2, <3>3, GoesOn
  <2> QED  BY <2>1, <2>2
<1>10. CASE ConfirmGate(h)
  <2>1. plannedCall[h].at = "confirm"
    BY <1>10 DEF ConfirmGate, PlannedAt
  <2> DEFINE row == [planned EXCEPT !.status = "CONFIRMED", !.price = plannedCall[h].who]
  <2>2. planned.status \in {"MASTER_SELECTED"} /\ planned' = row => RowMoves(h)
    BY <2>1 DEF RowMoves
  <2> QED  BY <1>10, <2>2, GateMoves DEF ConfirmGate
<1>11. CASE ReturnGate(h)
  <2>1. planned.status \in {"MASTER_SELECTED"} /\ planned' = Republished => RowMoves(h)
    BY DEF RowMoves
  <2> QED  BY <1>11, <2>1, GateMoves DEF ReturnGate
<1>12. CASE CancelByMasterGate(h)
  <2>1. planned.status \in {"CONFIRMED", "IN_PROGRESS"} /\ planned' = Republished => RowMoves(h)
    BY DEF RowMoves
  <2> QED  BY <1>12, <2>1, GateMoves DEF CancelByMasterGate
<1>13. ASSUME NEW from, NEW to \in {"IN_PROGRESS", "CLOSED", "EXPIRED", "CANCELLED_BY_CLIENT"},
              \A s \in from : StatusMoves(s, to),
              GateAndEnd(h, from, [planned EXCEPT !.status = to])
       PROVE  RowMoves(h) /\ Moves(h)
  <2> DEFINE row == [planned EXCEPT !.status = to]
  <2>1. planned.status \in from /\ planned' = row => RowMoves(h)
    BY <1>13, StatusIsRow
  <2> HIDE DEF row
  <2>2. GateAndEnd(h, from, row)
    BY <1>13 DEF row
  <2> QED  BY <2>1, <2>2, GateMoves
<1>14. CASE OnSiteGate(h) \/ CloseGate(h) \/ ExpireGate(h) \/ CancelBeforeGate(h) \/ CancelAfterGate(h)
  <2>1. /\ \A s \in {"CONFIRMED"} : StatusMoves(s, "IN_PROGRESS")
        /\ \A s \in {"DONE"} : StatusMoves(s, "CLOSED")
        /\ \A s \in {"PUBLISHED"} : StatusMoves(s, "EXPIRED")
        /\ \A s \in Before : StatusMoves(s, "CANCELLED_BY_CLIENT")
        /\ \A s \in After : StatusMoves(s, "CANCELLED_BY_CLIENT")
    BY DEF StatusMoves
  <2> QED
    BY <1>13, <1>14, <2>1 DEF OnSiteGate, CloseGate, ExpireGate, CancelBeforeGate, CancelAfterGate
<1> QED
  BY <1>1, <1>2, <1>3, <1>4, <1>5, <1>6, <1>7, <1>8, <1>9, <1>10, <1>11, <1>12, <1>14 DEF PlannedStep

(* What a step of the system does to the row, to the handlers, to the bids *)
(* and to the credits.                                                     *)
RowStep == RowKeeps \/ \E h \in PlannedHandlers : RowMoves(h)
CallStep ==
    \/ UNCHANGED plannedCall /\ plannedJobs' \subseteq PlannedJob
    \/ \E h \in PlannedHandlers : Moves(h)
BidStep == bids \subseteq bids' /\ bids' \subseteq bids \cup Bidders
RefundStep ==
    \/ UNCHANGED returned
    \/ \E h \in PlannedHandlers :
          LET m == plannedCall[h].who
          IN  /\ plannedCall[h].at = "cancelAfter" /\ m # NoBidder
              /\ planned.status \in After /\ planned.mode = "PAID"
              /\ planned' = [planned EXCEPT !.status = "CANCELLED_BY_CLIENT"]
              /\ returned' = [returned EXCEPT ![m] = @ + 1]
LogStep ==
    outbox' \in {"none", "pending", "scheduled"} /\ plannedDispute' \in {"NONE", "OPEN", "RESOLVED"}

LEMMA StepEffects ==
    ASSUME PlannedTypeOK, HandlersKnow, [PlannedNext]_plannedVars
    PROVE  RowStep /\ CallStep /\ BidStep /\ RefundStep /\ LogStep
<1> DEFINE Goal == RowStep /\ CallStep /\ BidStep /\ RefundStep /\ LogStep
<1>0. LogStep \/ ~UNCHANGED <<outbox, plannedDispute>>
  BY DEF LogStep, PlannedTypeOK
<1>1. ASSUME UNCHANGED <<bids, returned, outbox, plannedDispute>> PROVE BidStep /\ RefundStep /\ LogStep
  BY <1>0, <1>1 DEF BidStep, RefundStep
<1>2. CASE UNCHANGED plannedVars
  BY <1>1, <1>2 DEF plannedVars, RowStep, RowKeeps, CallStep, PlannedTypeOK
<1>3. CASE ConfirmCompletion
  <2>1. "CLOSED" \in PlannedStatus
    BY DEF PlannedStatus, Finished
  <2> QED
    BY <1>1, <1>3, <2>1 DEF ConfirmCompletion, PlannedGate, RowStep, RowKeeps, StatusMoves, CallStep, PlannedTypeOK
<1>4. CASE ResolvePlannedDispute
  <2>1. "CLOSED" \in PlannedStatus
    BY DEF PlannedStatus, Finished
  <2> QED
    BY <1>4, <2>1 DEF ResolvePlannedDispute, RowStep, RowKeeps, StatusMoves, CallStep, PlannedTypeOK,
                      BidStep, RefundStep, LogStep
<1>5. ASSUME NEW h \in PlannedHandlers,
             \/ RecoverExpiry(h) \/ CancelPlanned(h) \/ OpenPlannedDispute(h)
             \/ TakeConfirmTimeout(h) \/ TakeAutoClose(h) \/ TakeExpiry(h)
             \/ \E m \in Bidders : PlaceBid(h, m) \/ SelectBid(h, m) \/ MasterAsks(h, m)
      PROVE  Goal
  <2>1. UNCHANGED <<planned, bids, returned, outbox, plannedDispute>>
    BY <1>5 DEF RecoverExpiry, CancelPlanned, OpenPlannedDispute, TakeConfirmTimeout, TakeAutoClose,
                TakeExpiry, PlaceBid, SelectBid, MasterAsks
  <2> QED  BY <1>1, <1>5, <2>1, ReadersStep DEF RowStep, RowKeeps, CallStep
<1>6. ASSUME NEW h \in PlannedHandlers, CreatePlanned(h) \/ PlannedStep(h) \/ PlannedDie(h) PROVE Goal
  <2>1. RowStep /\ CallStep
    BY <1>6, WritersStep DEF RowStep, CallStep
  <2>2. CASE CreatePlanned(h) \/ MarkScheduled(h) \/ InsertDispute(h)
    BY <2>1, <2>2 DEF CreatePlanned, MarkScheduled, InsertDispute, BidStep, RefundStep, LogStep, PlannedTypeOK
  <2>3. CASE InsertBid(h)
    <3>1. plannedCall[h].who \in Bidders
      BY <2>3 DEF InsertBid, HandlersKnow, Addressed, PlannedAt
    <3> QED  BY <2>1, <2>3, <3>1, <1>0 DEF InsertBid, BidStep, RefundStep
  <2>4. CASE CancelAfterGate(h)
    BY <1>0, <2>1, <2>4 DEF CancelAfterGate, GateAndEnd, PlannedGate, PlannedAt, BidStep, RefundStep
  <2>5. CASE ~(\/ CreatePlanned(h) \/ MarkScheduled(h) \/ InsertDispute(h) \/ InsertBid(h)
               \/ CancelAfterGate(h))
    <3>1. UNCHANGED <<bids, returned, outbox, plannedDispute>>
      BY <1>6, <2>5
         DEF PlannedStep, SendExpiry, ScheduleExpiry, ScheduleFails, CountBids, SelectGate,
             SendConfirmTimeout, ConfirmGate, ReturnGate, OnSiteGate, CompleteGate, SendPlannedAutoClose,
             CheckDispute, CloseGate, ExpireGate, CancelBeforeGate, CancelByMasterGate, PlannedDie
    <3> QED  BY <1>1, <2>1, <3>1
  <2> QED  BY <2>2, <2>3, <2>4, <2>5
<1> QED
  BY <1>2, <1>3, <1>4, <1>5, <1>6 DEF PlannedNext

-----------------------------------------------------------------------------
(* The invariant is inductive *)

LEMMA PlannedInvInit == PlannedInit => PlannedInv
<1> SUFFICES ASSUME PlannedInit PROVE PlannedInv
  OBVIOUS
<1>1. PICK mode \in Modes : planned = [status |-> "NONE", mode |-> mode, master |-> NoBidder,
                                       price |-> NoBidder, turn |-> 0]
  BY DEF PlannedInit
<1>2. "NONE" \in PlannedStatus /\ 0 \in 0..MaxTurn
  BY PlannedBounds DEF PlannedStatus
<1>3. PlannedTypeOK
  <2>1. planned \in [status : PlannedStatus, mode : Modes, master : Bidders \cup {NoBidder},
                     price : Bidders \cup {NoBidder}, turn : 0..MaxTurn]
    BY <1>1, <1>2
  <2>2. plannedCall \in [PlannedHandlers -> PlannedCall]
    BY IdleIsCall DEF PlannedInit
  <2>3. returned \in [Bidders -> Nat]
    BY DEF PlannedInit
  <2> QED  BY <2>1, <2>2, <2>3 DEF PlannedInit, PlannedTypeOK
<1>4. HandlersKnow
  BY <1>1 DEF PlannedInit, HandlersKnow, PlannedIdle, Addressed, Reading
<1>5. MasterIsBidder /\ ChosenIsABidder
  BY <1>1 DEF PlannedInit, MasterIsBidder, ChosenIsABidder, After, Before
<1>6. OneRefundToABidder
  BY DEF PlannedInit, OneRefundToABidder
<1> QED
  BY <1>3, <1>4, <1>5, <1>6 DEF PlannedInv

(* The fields of the row that a step leaves, or sets.                      *)
LEMMA RowFields ==
    ASSUME PlannedInv, RowStep
    PROVE  \/ UNCHANGED planned
           \/ /\ StatusMoves(planned.status, planned'.status)
              /\ planned'.master = planned.master /\ planned'.price = planned.price
              /\ planned'.turn = planned.turn
           \/ /\ planned.status = "PUBLISHED" /\ planned'.status = "MASTER_SELECTED"
              /\ planned'.master \in bids /\ planned'.price = planned.price
              /\ planned'.turn = planned.turn + 1
           \/ /\ planned.status = "MASTER_SELECTED" /\ planned'.status = "CONFIRMED"
              /\ planned'.master = planned.master /\ planned'.price \in bids
              /\ planned'.turn = planned.turn
           \/ /\ planned.status \in {"MASTER_SELECTED", "CONFIRMED", "IN_PROGRESS"}
              /\ planned'.status = "PUBLISHED" /\ planned'.master = NoBidder
              /\ planned'.price = planned.price /\ planned'.turn = planned.turn
<1>1. planned \in [status : PlannedStatus, mode : Modes, master : Bidders \cup {NoBidder},
                   price : Bidders \cup {NoBidder}, turn : 0..MaxTurn]
  BY DEF PlannedInv, PlannedTypeOK
<1>2. \A h \in PlannedHandlers : plannedCall[h].at \in {"select", "confirm"} => plannedCall[h].who \in bids
  BY DEF PlannedInv, HandlersKnow, Reading
<1> QED
  BY <1>1, <1>2 DEF RowStep, RowKeeps, RowMoves, Republished

LEMMA PlannedTypeStep ==
    ASSUME PlannedInv, [PlannedNext]_plannedVars
    PROVE  /\ PlannedTypeOK' /\ RowStep /\ CallStep /\ BidStep /\ RefundStep
           /\ planned'.mode = planned.mode /\ planned'.turn >= planned.turn
<1>1. PlannedTypeOK /\ RowStep /\ CallStep /\ BidStep /\ RefundStep /\ LogStep
  BY StepEffects DEF PlannedInv
<1>2. RowOK /\ planned'.mode = planned.mode /\ planned'.turn >= planned.turn
  BY <1>1, RowTypes DEF RowStep
<1>3. returned' \in [Bidders -> Nat]
  <2>1. \A h \in PlannedHandlers : plannedCall[h].who \in Bidders \cup {NoBidder}
    BY <1>1 DEF PlannedTypeOK, PlannedCall
  <2> QED  BY <1>1, <2>1 DEF RefundStep, PlannedTypeOK
<1>4. plannedCall' \in [PlannedHandlers -> PlannedCall] /\ plannedJobs' \subseteq PlannedJob
  BY <1>1 DEF CallStep, Moves, PlannedTypeOK
<1>5. bids' \subseteq Bidders
  BY <1>1 DEF BidStep, PlannedTypeOK
<1> QED
  BY <1>1, <1>2, <1>3, <1>4, <1>5 DEF PlannedTypeOK, RowOK, LogStep

LEMMA PlannedInvStep == PlannedInv /\ [PlannedNext]_plannedVars => PlannedInv'
<1> SUFFICES ASSUME PlannedInv, [PlannedNext]_plannedVars PROVE PlannedInv'
  OBVIOUS
<1>1. /\ PlannedTypeOK' /\ RowStep /\ CallStep /\ BidStep /\ RefundStep
      /\ planned'.mode = planned.mode /\ planned'.turn >= planned.turn
  BY PlannedTypeStep
<1>2. /\ PlannedTypeOK /\ HandlersKnow /\ MasterIsBidder /\ ChosenIsABidder /\ OneRefundToABidder
      /\ planned.turn \in Nat /\ planned'.turn \in Nat /\ NoBidder \notin Bidders
      /\ \A h \in PlannedHandlers : plannedCall[h].turn \in Nat
  BY <1>1, PlannedBounds, PlannedSentinels DEF PlannedInv, PlannedTypeOK, PlannedCall
<1>3. HandlersKnow'
  <2> SUFFICES ASSUME NEW k \in PlannedHandlers
               PROVE  LET c == plannedCall'[k]
                      IN  /\ c.turn <= planned'.turn /\ Addressed(c)
                          /\ c.at \in {"select"} \cup Reading => c.who \in bids'
                          /\ c.at \in Reading /\ c.turn = planned'.turn =>
                                c.who = planned'.master \/ planned'.status \in Deselected
    BY DEF HandlersKnow, Addressed
  <2> DEFINE c == plannedCall[k]
  <2>1. /\ c.turn <= planned.turn /\ Addressed(c)
        /\ c.at \in {"select"} \cup Reading => c.who \in bids
        /\ c.at \in Reading /\ c.turn = planned.turn =>
              c.who = planned.master \/ planned.status \in Deselected
    BY <1>2 DEF HandlersKnow
  <2>2. CASE plannedCall'[k] = c
    <3>1. c.turn = planned'.turn => planned'.turn = planned.turn
      BY <1>1, <1>2, <2>1
    <3>2. planned'.turn = planned.turn /\ c.who = planned.master =>
             c.who = planned'.master \/ planned'.status \in Deselected
      BY <1>1, <1>2, RowFields DEF Deselected
    <3>3. planned'.turn = planned.turn /\ planned.status \in Deselected => planned'.status \in Deselected
      BY <1>1, <1>2, RowFields DEF Deselected, StatusMoves
    <3> QED  BY <1>1, <1>2, <2>1, <2>2, <3>1, <3>2, <3>3 DEF BidStep
  <2>3. CASE Fits(plannedCall'[k])
    <3>1. planned.master \in Bidders \/ planned.status \in After => planned.master \in bids
      BY <1>2 DEF MasterIsBidder, ChosenIsABidder
    <3> QED  BY <1>1, <1>2, <2>3, <3>1 DEF Fits, BidStep, Addressed, Reading
  <2> QED  BY <1>1, <2>2, <2>3 DEF CallStep, Moves
<1>4. MasterIsBidder'
  BY <1>1, <1>2, RowFields DEF MasterIsBidder, BidStep, StatusMoves
<1>5. ChosenIsABidder'
  BY <1>1, <1>2, RowFields DEF MasterIsBidder, ChosenIsABidder, BidStep, StatusMoves, Before, After
<1>6. OneRefundToABidder'
  <2>1. CASE UNCHANGED returned
    <3>1. planned.status = "CANCELLED_BY_CLIENT" => planned'.status = "CANCELLED_BY_CLIENT"
      BY <1>1, RowFields DEF StatusMoves, Before, After
    <3> QED  BY <1>1, <1>2, <2>1, <3>1 DEF OneRefundToABidder, BidStep
  <2>2. ASSUME NEW m \in bids, planned.status \in After, planned.mode = "PAID",
               planned' = [planned EXCEPT !.status = "CANCELLED_BY_CLIENT"],
               returned' = [returned EXCEPT ![m] = @ + 1]
        PROVE  OneRefundToABidder'
    <3>1. m \in Bidders /\ returned \in [Bidders -> Nat]
      BY <1>2 DEF PlannedTypeOK
    <3>2. \A n \in Bidders : returned[n] = 0
      BY <1>2, <2>2, <3>1 DEF OneRefundToABidder, After
    <3>3. planned'.status = "CANCELLED_BY_CLIENT" /\ planned'.mode = "PAID"
      BY <1>1, <1>2, <2>2 DEF PlannedTypeOK
    <3>4. \A n \in Bidders : returned'[n] = IF n = m THEN 1 ELSE 0
      BY <2>2, <3>1, <3>2
    <3> QED  BY <1>1, <3>3, <3>4, <2>2 DEF OneRefundToABidder, BidStep
  <2>3. \A h \in PlannedHandlers : plannedCall[h].at = "cancelAfter" => plannedCall[h].who \in bids
    BY <1>2 DEF HandlersKnow, Reading
  <2> QED  BY <1>1, <2>1, <2>2, <2>3 DEF RefundStep
<1> QED
  BY <1>1, <1>3, <1>4, <1>5, <1>6 DEF PlannedInv

(* Who is assigned in each status, and at whose price, is a bidder.        *)
THEOREM ChosenStaysABidder == PlannedSpec => []ChosenIsABidder
<1>1. PlannedInv => ChosenIsABidder
  BY DEF PlannedInv
<1> QED
  BY <1>1, PlannedInvInit, PlannedInvStep, PTL DEF PlannedSpec

(* A gate that a handler finds open hits the master it has read, unless a  *)
(* bid was selected again since: select, decline, timeout, confirm and the *)
(* two cancellations, in any number and any order.                         *)
THEOREM StaleNeedsReselection == PlannedSpec => []StaleOnlyAfterReselection
<1>1. PlannedInv => StaleOnlyAfterReselection
  BY DEF PlannedInv, HandlersKnow, StaleOnlyAfterReselection, Reading, Deselected, After
<1> QED
  BY <1>1, PlannedInvInit, PlannedInvStep, PTL DEF PlannedSpec

(* cancelByClient returns one credit at most, to a bidder, and not in the  *)
(* pilot, however many cancellations run.                                  *)
THEOREM RefundIsOnce == PlannedSpec => []OneRefundToABidder
<1>1. PlannedInv => OneRefundToABidder
  BY DEF PlannedInv
<1> QED
  BY <1>1, PlannedInvInit, PlannedInvStep, PTL DEF PlannedSpec

-----------------------------------------------------------------------------
(* The number of bids *)

(* Handlers that have found room, and have not inserted yet.               *)
Inserting == {h \in PlannedHandlers : PlannedAt(h, "insertBid")}

(* Each bid that exceeds the limit was on the way when the order filled up. *)
BidsInv ==
    /\ IsFiniteSet(bids)
    /\ Cardinality(bids) + Cardinality(Inserting) <= MaxBids + Cardinality(PlannedHandlers) - 1

(* The steps that change bids, or who is on the way to insert one.         *)
LEMMA BidMoves ==
    ASSUME PlannedTypeOK, [PlannedNext]_plannedVars
    PROVE  \/ Inserting' \subseteq Inserting /\ UNCHANGED bids
           \/ UNCHANGED bids /\ Cardinality(bids) < MaxBids
           \/ \E h \in Inserting : /\ Inserting' = Inserting \ {h}
                                   /\ bids' = bids \/ bids' = bids \cup {plannedCall[h].who}
<1> DEFINE Goal == Inserting' \subseteq Inserting /\ UNCHANGED bids
<1>0. plannedCall \in [PlannedHandlers -> PlannedCall]
  BY DEF PlannedTypeOK
<1> USE DEF Inserting, PlannedAt
<1>1. ASSUME NEW h \in PlannedHandlers, NEW c, c.at # "insertBid",
             plannedCall' = [plannedCall EXCEPT ![h] = c]
      PROVE  Inserting' \subseteq Inserting
  BY <1>0, <1>1
<1>2. ASSUME UNCHANGED plannedCall PROVE Inserting' \subseteq Inserting
  BY <1>2
<1>3. ASSUME NEW h \in PlannedHandlers, NEW s, s # "insertBid", PlannedGoTo(h, s)
      PROVE  Inserting' \subseteq Inserting
  BY <1>0, <1>3 DEF PlannedGoTo, PlannedCall
<1>4. PlannedIdle.at # "insertBid"
  BY DEF PlannedIdle
<1>5. ASSUME NEW h \in PlannedHandlers, NEW s, s # "insertBid", NEW m, NEW j,
             \/ PlannedBegin(h, PlannedRequest(s, m))
             \/ PlannedBegin(h, [PlannedRequest(s, m) EXCEPT !.job = j])
      PROVE  Inserting' \subseteq Inserting
  <2>1. PlannedRequest(s, m).at # "insertBid" /\ [PlannedRequest(s, m) EXCEPT !.job = j].at # "insertBid"
    BY <1>5 DEF PlannedRequest
  <2> QED  BY <1>1, <1>5, <2>1 DEF PlannedBegin
<1>6. ASSUME NEW h \in PlannedHandlers,
             PlannedLeave(h) \/ PlannedEnd(h) \/ \E j : SendAndReturn(h, j)
      PROVE  Inserting' \subseteq Inserting
  BY <1>1, <1>4, <1>6 DEF PlannedLeave, PlannedEnd, SendAndReturn
<1>7. ASSUME NEW h \in PlannedHandlers, NEW from, NEW row, GateAndEnd(h, from, row)
      PROVE  Inserting' \subseteq Inserting
  BY <1>6, <1>7 DEF GateAndEnd
<1> HIDE DEF Inserting
<1>8. CASE UNCHANGED plannedVars \/ ConfirmCompletion \/ ResolvePlannedDispute
  BY <1>2, <1>8 DEF plannedVars, ConfirmCompletion, ResolvePlannedDispute
<1>9. ASSUME NEW h \in PlannedHandlers,
             CreatePlanned(h) \/ RecoverExpiry(h) \/ CancelPlanned(h) \/ OpenPlannedDispute(h)
      PROVE  Goal
  BY <1>5, <1>9 DEF CreatePlanned, RecoverExpiry, CancelPlanned, OpenPlannedDispute
<1>10. ASSUME NEW h \in PlannedHandlers, TakeConfirmTimeout(h) \/ TakeAutoClose(h) \/ TakeExpiry(h)
       PROVE  Goal
  BY <1>2, <1>5, <1>10 DEF TakeConfirmTimeout, TakeAutoClose, TakeExpiry
<1>11. ASSUME NEW h \in PlannedHandlers, NEW m \in Bidders,
              PlaceBid(h, m) \/ SelectBid(h, m) \/ MasterAsks(h, m)
       PROVE  Goal
  BY <1>5, <1>11 DEF PlaceBid, SelectBid, MasterAsks
<1>12. ASSUME NEW h \in PlannedHandlers,
              \/ SendExpiry(h) \/ ScheduleFails(h) \/ MarkScheduled(h) \/ SendConfirmTimeout(h)
              \/ SendPlannedAutoClose(h) \/ InsertDispute(h) \/ PlannedDie(h)
       PROVE  Goal
  BY <1>6, <1>12 DEF SendExpiry, ScheduleFails, MarkScheduled, SendConfirmTimeout, SendPlannedAutoClose,
                     InsertDispute, PlannedDie
<1>13. ASSUME NEW h \in PlannedHandlers,
              \/ ConfirmGate(h) \/ ReturnGate(h) \/ OnSiteGate(h) \/ CloseGate(h) \/ ExpireGate(h)
              \/ CancelBeforeGate(h) \/ CancelAfterGate(h) \/ CancelByMasterGate(h)
       PROVE  Goal
  BY <1>7, <1>13 DEF ConfirmGate, ReturnGate, OnSiteGate, CloseGate, ExpireGate, CancelBeforeGate,
                     CancelAfterGate, CancelByMasterGate
<1>14. ASSUME NEW h \in PlannedHandlers, ScheduleExpiry(h) \/ CheckDispute(h) \/ CompleteGate(h)
       PROVE  Goal
  BY <1>3, <1>6, <1>14 DEF ScheduleExpiry, CheckDispute, CompleteGate
<1>15. ASSUME NEW h \in PlannedHandlers, SelectGate(h) PROVE Goal
  <2>1. CASE plannedCall' = [plannedCall EXCEPT ![h].at = "sendConfirmTimeout", ![h].turn = planned.turn + 1]
    BY <1>0, <1>15, <2>1 DEF SelectGate, Inserting, PlannedCall
  <2>2. CASE PlannedLeave(h)
    BY <1>6, <1>15, <2>2 DEF SelectGate
  <2> QED  BY <1>15, <2>1, <2>2 DEF SelectGate
<1>16. ASSUME NEW h \in PlannedHandlers, CountBids(h)
       PROVE  Goal \/ (UNCHANGED bids /\ Cardinality(bids) < MaxBids)
  BY <1>6, <1>16 DEF CountBids, RoomForBid
<1>17. ASSUME NEW h \in PlannedHandlers, InsertBid(h)
       PROVE  /\ h \in Inserting /\ Inserting' = Inserting \ {h}
              /\ bids' = bids \/ bids' = bids \cup {plannedCall[h].who}
  BY <1>0, <1>4, <1>17 DEF InsertBid, PlannedLeave, Inserting
<1> QED
  BY <1>8, <1>9, <1>10, <1>11, <1>12, <1>13, <1>14, <1>15, <1>16, <1>17 DEF PlannedNext, PlannedStep

LEMMA BidsInvStep ==
    PlannedTypeOK /\ BidsInv /\ [PlannedNext]_plannedVars => BidsInv'
<1> SUFFICES ASSUME PlannedTypeOK, BidsInv, [PlannedNext]_plannedVars PROVE BidsInv'
  OBVIOUS
<1>1. /\ Inserting \subseteq PlannedHandlers /\ Inserting' \subseteq PlannedHandlers
      /\ IsFiniteSet(PlannedHandlers) /\ IsFiniteSet(Inserting) /\ IsFiniteSet(Inserting')
      /\ IsFiniteSet(bids)
  BY FS_Subset, PlannedBounds DEF Inserting, BidsInv
<1>2. /\ Cardinality(bids) \in Nat /\ Cardinality(Inserting) \in Nat /\ Cardinality(Inserting') \in Nat
      /\ Cardinality(PlannedHandlers) \in Nat /\ MaxBids \in Nat
      /\ Cardinality(Inserting') <= Cardinality(PlannedHandlers)
  BY <1>1, FS_CardinalityType, FS_Subset, PlannedBounds
<1>3. CASE Inserting' \subseteq Inserting /\ UNCHANGED bids
  <2>1. Cardinality(Inserting') <= Cardinality(Inserting)
    BY <1>1, <1>3, FS_Subset
  <2> QED  BY <1>2, <1>3, <2>1 DEF BidsInv
<1>4. CASE UNCHANGED bids /\ Cardinality(bids) < MaxBids
  BY <1>2, <1>4 DEF BidsInv
<1>5. ASSUME NEW h \in Inserting, Inserting' = Inserting \ {h}, NEW m,
             bids' = bids \/ bids' = bids \cup {m}
      PROVE  BidsInv'
  <2>1. Cardinality(Inserting') = Cardinality(Inserting) - 1
    BY <1>1, <1>5, FS_RemoveElement
  <2>2. /\ IsFiniteSet(bids \cup {m})
        /\ Cardinality(bids \cup {m}) = IF m \in bids THEN Cardinality(bids) ELSE Cardinality(bids) + 1
    BY <1>1, FS_AddElement
  <2>3. IsFiniteSet(bids') /\ Cardinality(bids') <= Cardinality(bids) + 1 /\ Cardinality(bids') \in Nat
    <3>1. CASE bids' = bids
      BY <1>1, <1>2, <3>1
    <3>2. CASE bids' = bids \cup {m}
      BY <1>2, <2>2, <3>2
    <3> QED  BY <1>5, <3>1, <3>2
  <2>4. Cardinality(bids) + Cardinality(Inserting) <= MaxBids + Cardinality(PlannedHandlers) - 1
    BY DEF BidsInv
  <2>5. Cardinality(bids') + Cardinality(Inserting') <= MaxBids + Cardinality(PlannedHandlers) - 1
    BY <1>2, <2>1, <2>3, <2>4
  <2> QED  BY <2>3, <2>5 DEF BidsInv
<1> QED
  BY <1>3, <1>4, <1>5, BidMoves

(* placeBid counts without a lock: the limit is exceeded by one bid at most *)
(* for each other handler.                                                 *)
THEOREM BidsStayBounded == PlannedSpec => []BidsBounded
<1>1. PlannedInit => BidsInv
  <2> SUFFICES ASSUME PlannedInit PROVE BidsInv
    OBVIOUS
  <2>1. bids = {} /\ Inserting = {}
    BY DEF PlannedInit, Inserting, PlannedAt, PlannedIdle
  <2>2. Cardinality(PlannedHandlers) \in Nat /\ Cardinality({}) = 0 /\ IsFiniteSet({})
    BY PlannedBounds, FS_CardinalityType, FS_EmptySet
  <2> QED  BY <2>1, <2>2, PlannedBounds DEF BidsInv
<1>2. BidsInv => BidsBounded
  <2> SUFFICES ASSUME BidsInv PROVE BidsBounded
    OBVIOUS
  <2>1. Cardinality(bids) \in Nat /\ Cardinality(Inserting) \in Nat /\ Cardinality(PlannedHandlers) \in Nat
    BY FS_Subset, FS_CardinalityType, PlannedBounds DEF Inserting, BidsInv
  <2> QED  BY <2>1, PlannedBounds DEF BidsInv, BidsBounded
<1>3. PlannedInv => PlannedTypeOK
  BY DEF PlannedInv
<1> QED
  BY <1>1, <1>2, <1>3, PlannedInvInit, PlannedInvStep, BidsInvStep, PTL DEF PlannedSpec

-----------------------------------------------------------------------------
(* A planned order is a booking *)

(* The phase and the server of each status.                                *)
LEMMA PhaseOfStatus ==
    /\ planned.status = "NONE" => PlannedPhase = "idle" /\ PlannedServer = NoBidder
    /\ planned.status = "PUBLISHED" => PlannedPhase = "open" /\ PlannedServer = NoBidder
    /\ planned.status \in After => PlannedPhase = "booked" /\ PlannedServer = planned.master
    /\ planned.status = "DONE" => PlannedPhase = "underway" /\ PlannedServer = planned.master
    /\ planned.status \in Finished => PlannedPhase = "over" /\ PlannedServer = NoBidder
  BY DEF PlannedPhase, PlannedServer, Before, After, Finished

(* The same of the row that a step leaves.                                 *)
LEMMA PhaseOfNextStatus ==
    /\ planned'.status = "PUBLISHED" => PlannedPhase' = "open" /\ PlannedServer' = NoBidder
    /\ planned'.status \in After => PlannedPhase' = "booked" /\ PlannedServer' = planned'.master
    /\ planned'.status = "DONE" => PlannedPhase' = "underway" /\ PlannedServer' = planned'.master
    /\ planned'.status \in Finished => PlannedPhase' = "over" /\ PlannedServer' = NoBidder
  BY DEF PlannedPhase, PlannedServer, Before, After, Finished

LEMMA PlannedBookingStep ==
    PlannedInv /\ [PlannedNext]_plannedVars => [PlannedBookings!Next]_(PlannedBookings!vars)
<1> SUFFICES ASSUME PlannedInv, [PlannedNext]_plannedVars
             PROVE  [PlannedBookings!Next]_(PlannedBookings!vars)
  OBVIOUS
<1> DEFINE Turn(from, to) == PlannedPhase = from /\ PlannedPhase' = to
           Frees == PlannedServer' = NoBidder
<1>1. RowStep /\ bids \subseteq Bidders /\ NoBidder \notin bids
  BY PlannedTypeStep DEF PlannedInv, PlannedTypeOK, MasterIsBidder
<1>2. ASSUME PlannedPhase' = PlannedPhase, PlannedServer' = PlannedServer
      PROVE  UNCHANGED PlannedBookings!vars
  BY <1>2 DEF PlannedBookings!vars
<1>3. ASSUME Turn("idle", "open"), PlannedServer' = PlannedServer
      PROVE  PlannedBookings!Open("planned")
  BY <1>3 DEF PlannedBookings!Open
<1>4. ASSUME NEW m \in Bidders, Turn("open", "booked"), PlannedServer = NoBidder, PlannedServer' = m,
             m # NoBidder
      PROVE  PlannedBookings!Book("planned", m)
  BY <1>4 DEF PlannedBookings!Book
<1>5. ASSUME Turn("booked", "open"), Frees PROVE PlannedBookings!StepBack("planned")
  BY <1>5 DEF PlannedBookings!StepBack
<1>6. ASSUME Turn("booked", "underway"), PlannedServer' = PlannedServer
      PROVE  PlannedBookings!SetOut("planned")
  BY <1>6 DEF PlannedBookings!SetOut
<1>7. ASSUME PlannedPhase \in {"open", "booked", "underway"}, PlannedPhase' = "over", Frees
      PROVE  PlannedBookings!Finish("planned")
  BY <1>7 DEF PlannedBookings!Finish, PlannedBookings!Running
<1> HIDE DEF Turn, Frees
<1>8. CASE UNCHANGED planned
  BY <1>2, <1>8 DEF PlannedPhase, PlannedServer
<1>9. CASE /\ StatusMoves(planned.status, planned'.status)
           /\ planned'.master = planned.master
  <2>1. CASE planned.status = "NONE" /\ planned'.status = "PUBLISHED"
    BY <1>3, <2>1, PhaseOfStatus, PhaseOfNextStatus DEF PlannedBookings!Next, Turn
  <2>2. CASE planned.status = "CONFIRMED" /\ planned'.status = "IN_PROGRESS"
    BY <1>2, <1>9, <2>2, PhaseOfStatus, PhaseOfNextStatus DEF After
  <2>3. CASE planned.status = "IN_PROGRESS" /\ planned'.status = "DONE"
    BY <1>6, <1>9, <2>3, PhaseOfStatus, PhaseOfNextStatus DEF PlannedBookings!Next, After, Turn
  <2>4. CASE planned.status \in {"PUBLISHED", "DONE"} \cup After /\ planned'.status \in Finished
    BY <1>7, <2>4, PhaseOfStatus, PhaseOfNextStatus DEF PlannedBookings!Next, Frees
  <2> QED  BY <1>9, <2>1, <2>2, <2>3, <2>4 DEF StatusMoves, Before, Finished
<1>10. CASE /\ planned.status = "PUBLISHED" /\ planned'.status = "MASTER_SELECTED"
            /\ planned'.master \in bids
  BY <1>1, <1>4, <1>10, PhaseOfStatus, PhaseOfNextStatus DEF PlannedBookings!Next, After, Turn
<1>11. CASE /\ planned.status = "MASTER_SELECTED" /\ planned'.status = "CONFIRMED"
            /\ planned'.master = planned.master
  BY <1>2, <1>11, PhaseOfStatus, PhaseOfNextStatus DEF After
<1>12. CASE /\ planned.status \in {"MASTER_SELECTED", "CONFIRMED", "IN_PROGRESS"}
            /\ planned'.status = "PUBLISHED"
  BY <1>5, <1>12, PhaseOfStatus, PhaseOfNextStatus DEF PlannedBookings!Next, After, Turn, Frees
<1> QED
  BY <1>1, <1>8, <1>9, <1>10, <1>11, <1>12, RowFields

(* A planned order implements the abstract specification of the urgent     *)
(* mode, for any bidders, handlers and selections: the gates of its        *)
(* handlers do what the locks of the urgent mode do.                       *)
THEOREM PlannedOrdersImplementBooking == PlannedSpec => PlannedImplementsBooking
<1>1. PlannedInit => PlannedBookings!Init
  BY DEF PlannedInit, PlannedBookings!Init, PlannedPhase, PlannedServer, Before, After, Finished
<1> QED
  BY <1>1, PlannedBookingStep, PlannedInvInit, PlannedInvStep, PTL
     DEF PlannedSpec, PlannedImplementsBooking, PlannedBookings!Spec

-----------------------------------------------------------------------------
(* The credit account: type correctness *)

LEMMA CreditTypeInit == CreditInit => CreditTypeOK
<1> SUFFICES ASSUME CreditInit PROVE CreditTypeOK
  OBVIOUS
<1>0. balance \in Int
  BY DEF CreditInit
<1>1. /\ taken \subseteq Purchases
      /\ holder \in Cancelled \cup {NoHolder} /\ masterBlocked \in BOOLEAN
      /\ fined \subseteq LostDisputes /\ cancellations \subseteq Cancelled
  BY DEF CreditInit
<1>3. seen \in [Cancelled -> Nat]
  BY DEF CreditInit
<1>2. /\ purchase \in [Purchases -> {"NONE", "PENDING", "charged", "declined", "stuck", "SUCCEEDED", "FAILED"}]
      /\ spend \in [CreditBids -> {"NONE", "SPEND", "REFUND"}]
  BY DEF CreditInit
<1> QED
  BY <1>0, <1>1, <1>2, <1>3 DEF CreditTypeOK

(* What each operation of the account leaves well formed.                  *)
LEMMA CreditTypeStep == CreditTypeOK /\ [CreditNext]_creditVars => CreditTypeOK'
<1> SUFFICES ASSUME CreditTypeOK, [CreditNext]_creditVars PROVE CreditTypeOK'
  OBVIOUS
<1> USE DEF CreditTypeOK, saleVars, penaltyVars
<1>1. CASE UNCHANGED creditVars
  BY <1>1 DEF creditVars
<1>2. ASSUME NEW p \in Purchases, BuyPackage(p) \/ Charge(p) \/ SettlePurchase(p) \/ PurchaseDies(p)
      PROVE  CreditTypeOK'
  <2>1. CASE BuyPackage(p)
    BY <2>1 DEF BuyPackage
  <2>2. CASE Charge(p)
    BY <2>2 DEF Charge
  <2>3. CASE SettlePurchase(p)
    BY <2>3, CreditBounds DEF SettlePurchase
  <2>4. CASE PurchaseDies(p)
    BY <2>4 DEF PurchaseDies
  <2> QED  BY <1>2, <2>1, <2>2, <2>3, <2>4
<1>3. ASSUME NEW b \in CreditBids, Spend(b) \/ Refund(b) PROVE CreditTypeOK'
  BY <1>3 DEF Spend, Refund
<1>4. ASSUME NEW d \in LostDisputes, Fine(d) PROVE CreditTypeOK'
  BY <1>4, CreditBounds DEF Fine
<1>5. ASSUME NEW o \in Cancelled, CountCancellations(o) PROVE CreditTypeOK'
  <2>1. Cardinality(cancellations) + 1 \in Nat
    BY FS_Subset, FS_CardinalityType, CreditBounds
  <2> QED  BY <1>5, <2>1 DEF CountCancellations
<1>6. ASSUME NEW o \in Cancelled, CommitPenalty(o) PROVE CreditTypeOK'
  <2>1. BlocksMaster(o) \in BOOLEAN
    BY DEF BlocksMaster
  <2>2. masterBlocked' \in BOOLEAN
    BY <1>6, <2>1 DEF CommitPenalty
  <2> QED  BY <1>6, <2>2, CreditBounds DEF CommitPenalty
<1>7. ASSUME NEW o \in Cancelled, PenaltyRollsBack(o) PROVE CreditTypeOK'
  BY <1>7 DEF PenaltyRollsBack
<1> QED
  BY <1>1, <1>2, <1>3, <1>4, <1>5, <1>6, <1>7 DEF CreditNext

-----------------------------------------------------------------------------
(* The transactions of cancellations take turns *)

(* Whoever has counted holds the account, and has counted what is there.   *)
CountIsTrue ==
    \A o \in Cancelled : seen[o] > 0 /\ o \notin cancellations =>
        holder = o /\ seen[o] = Cardinality(cancellations) + 1

(* An account that is held was counted by its holder, who has not ended.   *)
HolderCounts == holder \in Cancelled => seen[holder] > 0 /\ holder \notin cancellations

CreditInv == CreditTypeOK /\ CountIsTrue /\ HolderCounts /\ OnlyPenaltiesOverdraw
                /\ ThirdCancellationBlocks

(* One more penalty pays for what it takes off the account.                *)
LEMMA OnePenaltyMore ==
    ASSUME NEW b \in Int, NEW p \in Nat, NEW n \in Nat, b + p * n >= 0
    PROVE  (b - p) + p * (n + 1) >= 0
<1>1. p * (n + 1) = p * n + p
  OBVIOUS
<1> QED
  BY <1>1

LEMMA CreditInvInit == CreditInit => CreditInv
<1> SUFFICES ASSUME CreditInit PROVE CreditInv
  OBVIOUS
<1>1. CreditTypeOK
  BY CreditTypeInit
<1>2. Cardinality({}) = 0
  BY FS_EmptySet
<1>3. CountIsTrue /\ HolderCounts
  BY CreditBounds DEF CreditInit, CountIsTrue, HolderCounts
<1>4. OnlyPenaltiesOverdraw /\ ThirdCancellationBlocks
  BY <1>2, CreditBounds DEF CreditInit, OnlyPenaltiesOverdraw, ThirdCancellationBlocks
<1> QED
  BY <1>1, <1>3, <1>4 DEF CreditInv

(* Committed penalties, and how the next one counts.                       *)
LEMMA PenaltyNumbers ==
    ASSUME CreditTypeOK
    PROVE  /\ Cardinality(cancellations) \in Nat /\ Cardinality(fined) \in Nat
           /\ \A o \in Cancelled \ cancellations :
                 Cardinality(cancellations \cup {o}) = Cardinality(cancellations) + 1
           /\ \A d \in LostDisputes \ fined : Cardinality(fined \cup {d}) = Cardinality(fined) + 1
<1>1. IsFiniteSet(cancellations) /\ IsFiniteSet(fined)
  BY FS_Subset, CreditBounds DEF CreditTypeOK
<1> QED
  BY <1>1, FS_CardinalityType, FS_AddElement

LEMMA CreditInvStep == CreditInv /\ [CreditNext]_creditVars => CreditInv'
<1> SUFFICES ASSUME CreditInv, [CreditNext]_creditVars PROVE CreditInv'
  OBVIOUS
<1> USE DEF CreditInv
<1>0. CreditTypeOK'
  BY CreditTypeStep
<1>n. /\ Cardinality(cancellations) \in Nat /\ Cardinality(fined) \in Nat
      /\ balance \in Int /\ PenaltyCredits \in Nat /\ BlockThreshold \in Nat
  BY PenaltyNumbers, CreditBounds DEF CreditTypeOK
<1>1. ASSUME UNCHANGED penaltyVars, balance' >= balance \/ balance' >= 0, balance' \in Int PROVE CreditInv'
  <2>1. CountIsTrue' /\ HolderCounts' /\ ThirdCancellationBlocks'
    BY <1>1 DEF penaltyVars, CountIsTrue, HolderCounts, ThirdCancellationBlocks
  <2>2. PenaltyCredits * (Cardinality(cancellations) + Cardinality(fined)) >= 0
    BY <1>n
  <2>3. OnlyPenaltiesOverdraw'
    BY <1>1, <1>n, <2>2 DEF penaltyVars, OnlyPenaltiesOverdraw
  <2> QED  BY <1>0, <2>1, <2>3
<1>2. CASE UNCHANGED creditVars
  BY <1>1, <1>2, <1>n DEF creditVars, penaltyVars
<1>3. ASSUME NEW p \in Purchases, BuyPackage(p) \/ Charge(p) \/ SettlePurchase(p) \/ PurchaseDies(p)
      PROVE  CreditInv'
  <2>1. UNCHANGED penaltyVars /\ balance' >= balance /\ balance' \in Int
    BY <1>3, <1>n, CreditBounds DEF BuyPackage, Charge, SettlePurchase, PurchaseDies
  <2> QED  BY <1>1, <2>1
<1>4. ASSUME NEW b \in CreditBids, Spend(b) \/ Refund(b) PROVE CreditInv'
  <2>1. UNCHANGED penaltyVars /\ (balance' >= balance \/ balance' >= 0) /\ balance' \in Int
    BY <1>4, <1>n DEF Spend, Refund, HasCredit
  <2> QED  BY <1>1, <2>1
<1>5. ASSUME NEW d \in LostDisputes, Fine(d) PROVE CreditInv'
  <2>1. Cardinality(fined') = Cardinality(fined) + 1
    BY <1>5, PenaltyNumbers DEF Fine
  <2>2. OnlyPenaltiesOverdraw'
    <3> DEFINE n == Cardinality(cancellations) + Cardinality(fined)
    <3>1. n \in Nat /\ Cardinality(cancellations)' + Cardinality(fined)' = n + 1
      BY <1>5, <1>n, <2>1 DEF Fine
    <3>2. balance' = balance - PenaltyCredits
      BY <1>5 DEF Fine
    <3> HIDE DEF n
    <3>3. balance + PenaltyCredits * n >= 0
      BY DEF OnlyPenaltiesOverdraw, n
    <3>4. (balance - PenaltyCredits) + PenaltyCredits * (n + 1) >= 0
      BY <1>n, <3>1, <3>3, OnePenaltyMore
    <3> QED  BY <3>1, <3>2, <3>4 DEF OnlyPenaltiesOverdraw
  <2>3. CountIsTrue' /\ HolderCounts' /\ ThirdCancellationBlocks'
    BY <1>5 DEF Fine, CountIsTrue, HolderCounts, ThirdCancellationBlocks
  <2> QED  BY <1>0, <2>2, <2>3
<1>6. ASSUME NEW o \in Cancelled, CountCancellations(o) PROVE CreditInv'
  <2>1. /\ cancellations' = cancellations /\ fined' = fined /\ balance' = balance
        /\ masterBlocked' = masterBlocked
        /\ seen' = [seen EXCEPT ![o] = Cardinality(cancellations) + 1]
        /\ holder' = o /\ holder = NoHolder /\ o \notin cancellations
    BY <1>6 DEF CountCancellations, PenaltyStarts, AccountFree, saleVars
  <2>2. \A k \in Cancelled : k \notin cancellations => ~(seen[k] > 0)
    BY <2>1, CreditBounds DEF CountIsTrue
  <2>3. CountIsTrue' /\ HolderCounts'
    BY <2>1, <2>2, <1>n DEF CountIsTrue, HolderCounts, CreditTypeOK
  <2>4. OnlyPenaltiesOverdraw' /\ ThirdCancellationBlocks'
    BY <2>1 DEF OnlyPenaltiesOverdraw, ThirdCancellationBlocks
  <2> QED  BY <1>0, <2>3, <2>4
<1>7. ASSUME NEW o \in Cancelled, CommitPenalty(o) PROVE CreditInv'
  <2>1. /\ cancellations' = cancellations \cup {o} /\ fined' = fined /\ seen' = seen
        /\ balance' = balance - PenaltyCredits /\ holder' = NoHolder
        /\ seen[o] > 0 /\ o \notin cancellations
        /\ masterBlocked' = (masterBlocked \/ BlocksMaster(o))
    BY <1>7 DEF CommitPenalty, saleVars
  <2>2. holder = o /\ seen[o] = Cardinality(cancellations) + 1
    BY <2>1 DEF CountIsTrue
  <2>3. Cardinality(cancellations') = Cardinality(cancellations) + 1
    BY <2>1, PenaltyNumbers
  <2>4. \A k \in Cancelled : k \notin cancellations' => ~(seen[k] > 0)
    BY <2>1, <2>2 DEF CountIsTrue
  <2>5. CountIsTrue' /\ HolderCounts'
    BY <2>1, <2>4, CreditBounds DEF CountIsTrue, HolderCounts
  <2>6. ThirdCancellationBlocks'
    BY <2>1, <2>2, <2>3 DEF ThirdCancellationBlocks, BlocksMaster
  <2>7. OnlyPenaltiesOverdraw'
    <3> DEFINE n == Cardinality(cancellations) + Cardinality(fined)
    <3>1. n \in Nat /\ Cardinality(cancellations)' + Cardinality(fined)' = n + 1
      BY <2>1, <1>n, <2>3
    <3> HIDE DEF n
    <3>2. balance + PenaltyCredits * n >= 0
      BY DEF OnlyPenaltiesOverdraw, n
    <3>3. (balance - PenaltyCredits) + PenaltyCredits * (n + 1) >= 0
      BY <1>n, <3>1, <3>2, OnePenaltyMore
    <3> QED  BY <2>1, <3>1, <3>3 DEF OnlyPenaltiesOverdraw
  <2> QED  BY <1>0, <2>5, <2>6, <2>7
<1>8. ASSUME NEW o \in Cancelled, PenaltyRollsBack(o) PROVE CreditInv'
  <2>1. /\ cancellations' = cancellations /\ fined' = fined /\ balance' = balance
        /\ masterBlocked' = masterBlocked /\ seen' = [seen EXCEPT ![o] = 0]
        /\ holder' = NoHolder /\ seen[o] > 0 /\ o \notin cancellations
    BY <1>8 DEF PenaltyRollsBack, saleVars
  <2>2. \A k \in Cancelled : k \notin cancellations /\ k # o => ~(seen[k] > 0)
    BY <2>1 DEF CountIsTrue
  <2>3. CountIsTrue' /\ HolderCounts'
    BY <2>1, <2>2, CreditBounds DEF CountIsTrue, HolderCounts, CreditTypeOK
  <2>4. OnlyPenaltiesOverdraw' /\ ThirdCancellationBlocks'
    BY <2>1 DEF OnlyPenaltiesOverdraw, ThirdCancellationBlocks
  <2> QED  BY <1>0, <2>3, <2>4
<1> QED
  BY <1>2, <1>3, <1>4, <1>5, <1>6, <1>7, <1>8 DEF CreditNext

-----------------------------------------------------------------------------
(* The balance and the ledger *)

(* Rows are written one at a time, so that there are finitely many.        *)
LedgerRows == IsFiniteSet(Sold) /\ IsFiniteSet(Spent)

(* One pack, one penalty more.                                             *)
LEMMA OneMoreTimes ==
    ASSUME NEW a \in Nat, NEW n \in Nat
    PROVE  a * (n + 1) = a * n + a /\ a * n \in Nat
  OBVIOUS

(* What a step writes to the ledger: nothing, or one row.                  *)
LEMMA LedgerWrites ==
    ASSUME CreditTypeOK, [CreditNext]_creditVars
    PROVE  \/ UNCHANGED <<balance, fined, cancellations>> /\ Sold' = Sold /\ Spent' = Spent
           \/ /\ UNCHANGED <<fined, cancellations>> /\ Spent' = Spent /\ balance' = balance + PackCredits
              /\ \E p \in Purchases \ Sold : Sold' = Sold \cup {p}
           \/ /\ UNCHANGED <<fined, cancellations>> /\ Sold' = Sold /\ balance' = balance - 1
              /\ \E b \in CreditBids \ Spent : Spent' = Spent \cup {b}
           \/ /\ UNCHANGED <<fined, cancellations>> /\ Sold' = Sold /\ balance' = balance + 1
              /\ \E b \in Spent : Spent' = Spent \ {b}
           \/ /\ UNCHANGED cancellations /\ Sold' = Sold /\ Spent' = Spent
              /\ balance' = balance - PenaltyCredits
              /\ \E d \in LostDisputes \ fined : fined' = fined \cup {d}
           \/ /\ UNCHANGED fined /\ Sold' = Sold /\ Spent' = Spent
              /\ balance' = balance - PenaltyCredits
              /\ \E o \in Cancelled \ cancellations : cancellations' = cancellations \cup {o}
<1> USE DEF CreditTypeOK
<1>1. UNCHANGED purchase => Sold' = Sold
  BY DEF Sold
<1>2. UNCHANGED spend => Spent' = Spent
  BY DEF Spent
<1>3. CASE UNCHANGED creditVars
  BY <1>1, <1>2, <1>3 DEF creditVars
<1>4. ASSUME NEW p \in Purchases, BuyPackage(p) \/ Charge(p) \/ PurchaseDies(p)
      PROVE  UNCHANGED <<balance, fined, cancellations>> /\ Sold' = Sold /\ Spent' = Spent
  BY <1>2, <1>4 DEF BuyPackage, Charge, PurchaseDies, Sold, penaltyVars
<1>5. ASSUME NEW p \in Purchases, SettlePurchase(p)
      PROVE  /\ UNCHANGED <<fined, cancellations>> /\ Spent' = Spent
             /\ \/ UNCHANGED balance /\ Sold' = Sold
                \/ balance' = balance + PackCredits /\ p \notin Sold /\ Sold' = Sold \cup {p}
  BY <1>2, <1>5 DEF SettlePurchase, Sold, penaltyVars
<1>6. ASSUME NEW b \in CreditBids, Spend(b)
      PROVE  /\ UNCHANGED <<fined, cancellations>> /\ Sold' = Sold /\ balance' = balance - 1
             /\ b \notin Spent /\ Spent' = Spent \cup {b}
  BY <1>1, <1>6 DEF Spend, Spent, penaltyVars, saleVars
<1>7. ASSUME NEW b \in CreditBids, Refund(b)
      PROVE  /\ UNCHANGED <<fined, cancellations>> /\ Sold' = Sold /\ balance' = balance + 1
             /\ b \in Spent /\ Spent' = Spent \ {b}
  BY <1>1, <1>7 DEF Refund, Spent, penaltyVars, saleVars
<1>8. ASSUME NEW d \in LostDisputes, Fine(d)
      PROVE  /\ UNCHANGED cancellations /\ Sold' = Sold /\ Spent' = Spent
             /\ balance' = balance - PenaltyCredits /\ d \notin fined /\ fined' = fined \cup {d}
  BY <1>1, <1>2, <1>8 DEF Fine, saleVars
<1>9. ASSUME NEW o \in Cancelled, CommitPenalty(o)
      PROVE  /\ UNCHANGED fined /\ Sold' = Sold /\ Spent' = Spent
             /\ balance' = balance - PenaltyCredits
             /\ o \notin cancellations /\ cancellations' = cancellations \cup {o}
  BY <1>1, <1>2, <1>9 DEF CommitPenalty, saleVars
<1>10. ASSUME NEW o \in Cancelled, CountCancellations(o) \/ PenaltyRollsBack(o)
       PROVE  UNCHANGED <<balance, fined, cancellations>> /\ Sold' = Sold /\ Spent' = Spent
  BY <1>1, <1>2, <1>10 DEF CountCancellations, PenaltyRollsBack, saleVars
<1> QED
  BY <1>3, <1>4, <1>5, <1>6, <1>7, <1>8, <1>9, <1>10 DEF CreditNext

LEMMA LedgerInit == CreditInit => LedgerRows /\ BalanceIsLedger
<1> SUFFICES ASSUME CreditInit PROVE LedgerRows /\ BalanceIsLedger
  OBVIOUS
<1>1. Sold = {} /\ Spent = {} /\ cancellations = {} /\ fined = {} /\ balance = 0
  BY DEF CreditInit, Sold, Spent
<1> QED
  BY <1>1, FS_EmptySet, CreditBounds DEF LedgerRows, BalanceIsLedger

LEMMA LedgerStep ==
    CreditTypeOK /\ LedgerRows /\ BalanceIsLedger /\ [CreditNext]_creditVars
        => LedgerRows' /\ BalanceIsLedger'
<1> SUFFICES ASSUME CreditTypeOK, LedgerRows, BalanceIsLedger, [CreditNext]_creditVars
             PROVE  LedgerRows' /\ BalanceIsLedger'
  OBVIOUS
<1> DEFINE a == Cardinality(Sold)
           b == Cardinality(Spent)
           n == Cardinality(cancellations) + Cardinality(fined)
<1>1. /\ IsFiniteSet(Sold) /\ IsFiniteSet(Spent) /\ a \in Nat /\ b \in Nat /\ n \in Nat
      /\ PackCredits \in Nat /\ PenaltyCredits \in Nat /\ balance \in Int
      /\ balance = PackCredits * a - b - PenaltyCredits * n
  BY FS_CardinalityType, PenaltyNumbers, CreditBounds DEF LedgerRows, BalanceIsLedger, CreditTypeOK
<1>2. SUFFICES /\ IsFiniteSet(Sold') /\ IsFiniteSet(Spent')
               /\ balance' = PackCredits * a' - b' - PenaltyCredits * n'
  BY DEF LedgerRows, BalanceIsLedger
<1>3. /\ \A p \in Purchases \ Sold : IsFiniteSet(Sold \cup {p}) /\ Cardinality(Sold \cup {p}) = a + 1
      /\ \A c \in CreditBids \ Spent : IsFiniteSet(Spent \cup {c}) /\ Cardinality(Spent \cup {c}) = b + 1
      /\ \A c \in Spent : IsFiniteSet(Spent \ {c}) /\ Cardinality(Spent \ {c}) = b - 1
  BY <1>1, FS_AddElement, FS_RemoveElement
<1>4. /\ PackCredits * (a + 1) = PackCredits * a + PackCredits /\ PackCredits * a \in Nat
      /\ PenaltyCredits * (n + 1) = PenaltyCredits * n + PenaltyCredits /\ PenaltyCredits * n \in Nat
  BY <1>1, OneMoreTimes
<1>5. CASE UNCHANGED <<balance, fined, cancellations>> /\ Sold' = Sold /\ Spent' = Spent
  BY <1>1, <1>5
<1>6. CASE /\ UNCHANGED <<fined, cancellations>> /\ Spent' = Spent /\ balance' = balance + PackCredits
           /\ \E p \in Purchases \ Sold : Sold' = Sold \cup {p}
  <2>1. IsFiniteSet(Sold') /\ a' = a + 1 /\ b' = b /\ n' = n
    BY <1>3, <1>6
  <2> HIDE DEF a, b, n
  <2> QED  BY <1>1, <1>4, <1>6, <2>1
<1>7. CASE /\ UNCHANGED <<fined, cancellations>> /\ Sold' = Sold
           /\ \/ balance' = balance - 1 /\ \E c \in CreditBids \ Spent : Spent' = Spent \cup {c}
              \/ balance' = balance + 1 /\ \E c \in Spent : Spent' = Spent \ {c}
  <2>1. a' = a /\ n' = n /\ IsFiniteSet(Sold')
    BY <1>1, <1>7
  <2>2. CASE balance' = balance - 1 /\ \E c \in CreditBids \ Spent : Spent' = Spent \cup {c}
    <3>1. IsFiniteSet(Spent') /\ b' = b + 1
      BY <1>3, <2>2
    <3> HIDE DEF a, b, n
    <3> QED  BY <1>1, <1>4, <2>1, <2>2, <3>1
  <2>3. CASE balance' = balance + 1 /\ \E c \in Spent : Spent' = Spent \ {c}
    <3>1. IsFiniteSet(Spent') /\ b' = b - 1
      BY <1>3, <2>3
    <3> HIDE DEF a, b, n
    <3> QED  BY <1>1, <1>4, <2>1, <2>3, <3>1
  <2> QED  BY <1>7, <2>2, <2>3
<1>8. CASE /\ Sold' = Sold /\ Spent' = Spent /\ balance' = balance - PenaltyCredits
           /\ \/ /\ UNCHANGED cancellations
                 /\ \E d \in LostDisputes \ fined : fined' = fined \cup {d}
              \/ /\ UNCHANGED fined
                 /\ \E o \in Cancelled \ cancellations : cancellations' = cancellations \cup {o}
  <2>1. a' = a /\ b' = b /\ n' = n + 1
    BY <1>8, PenaltyNumbers
  <2> HIDE DEF a, b, n
  <2> QED  BY <1>1, <1>4, <1>8, <2>1
<1> QED
  BY <1>5, <1>6, <1>7, <1>8, LedgerWrites

(* The account stays sound: it is overdrawn by penalties alone, as many    *)
(* cancellations as block a master have blocked him, and the balance is    *)
(* what the ledger says, however the transactions of LeadCreditsService    *)
(* and MasterPenaltyService interleave.                                    *)
THEOREM AccountStaysSound == CreditSpec => []AccountIsSound
<1>1. CreditInv /\ BalanceIsLedger => AccountIsSound
  BY DEF CreditInv, AccountIsSound
<1>2. CreditInv => CreditTypeOK
  BY DEF CreditInv
<1> QED
  BY <1>1, <1>2, CreditInvInit, CreditInvStep, LedgerInit, LedgerStep, PTL DEF CreditSpec

(* Every variable of LeadCredits keeps its type.                           *)
THEOREM CreditTypeCorrect == CreditSpec => []CreditTypeOK
  BY CreditTypeInit, CreditTypeStep, PTL DEF CreditSpec

(* Every variable of PlannedOrders keeps its type.                         *)
THEOREM PlannedTypeCorrect == PlannedSpec => []PlannedTypeOK
<1>1. PlannedInv => PlannedTypeOK
  BY DEF PlannedInv
<1> QED
  BY <1>1, PlannedInvInit, PlannedInvStep, PTL DEF PlannedSpec
=============================================================================
