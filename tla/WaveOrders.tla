----------------------------- MODULE WaveOrders -----------------------------
(***************************************************************************)
(* One urgent order of the PAID_MOCK mode (lifecycleVersion 1, dispatchMode *)
(* WAVE): OrdersService and MatchingService over its rows in Order,        *)
(* OrderOffer, PaymentTransaction, Accrual and Dispute, and the job queue. *)
(*                                                                         *)
(* Handlers read first and write later: what guards a write is the         *)
(* condition of its own statement (gate), not what was read. Each handler  *)
(* in progress is a record that names its next statement and keeps what it *)
(* has read; between any two statements other handlers run, or it dies.    *)
(* Which masters are online, near and free is the environment's choice.    *)
(***************************************************************************)
EXTENDS Integers

CONSTANTS
    Masters,
    NoMaster,     \* masterId IS NULL
    NoJob,        \* a handler that serves a request
    Handlers,     \* bound: how many handlers run at once
    Requested,    \* bound: what is asked for, and whether handlers crash
    MaxWave,      \* MAX_WAVE
    MaxAttempt,   \* bound on searchAttempt
    MaxHolds      \* bound on the holds of the order

ASSUME SentinelsAssumption == NoMaster \notin Masters
ASSUME BoundsAssumption ==
    MaxWave \in Nat \ {0} /\ MaxAttempt \in Nat \ {0} /\ MaxHolds \in Nat \ {0}

VARIABLES
    order,      \* the row of Order
    offer,      \* offer[a][m]: the OrderOffer row of master m in attempt a
    money,      \* the rows of PaymentTransaction, and whether there is an Accrual
    dispute,    \* the status of the order's latest Dispute, NONE where there is no row
    jobs,       \* jobs that are queued, or taken and not completed
    call        \* the handlers in progress

vars == <<order, offer, money, dispute, jobs, call>>

-----------------------------------------------------------------------------
Served == {"ACCEPTED", "MASTER_ON_WAY", "INSPECTION", "AWAITING_PRICE_CONFIRM", "IN_PROGRESS"}
Over == {"CLOSED", "CANCELLED_BY_CLIENT"}
Status == {"NONE", "CREATED", "SEARCHING", "NO_MASTERS", "DONE"} \cup Served \cup Over

Attempts == 1..MaxAttempt
Row == [status : Status, master : Masters \cup {NoMaster}, wave : 0..MaxWave, attempt : Attempts]
Offer == [wave : 0..MaxWave, outcome : {"NONE", "PENDING", "ACCEPTED", "LOST", "EXPIRED"}]
Money == [holds : 0..MaxHolds, captured : BOOLEAN, voided : BOOLEAN, accrued : BOOLEAN]

\* The data of a WAVE job has no attempt: here it only tells the jobs apart.
WaveJob(a) == [name |-> "WAVE", wave |-> 1, attempt |-> a]
WaveTimeoutJob(w, a) == [name |-> "WAVE_TIMEOUT", wave |-> w, attempt |-> a]
PriceTimeoutJob == [name |-> "PRICE_TIMEOUT", wave |-> 0, attempt |-> 0]
AutoCloseJob == [name |-> "AUTO_CLOSE", wave |-> 0, attempt |-> 0]
Job == {PriceTimeoutJob, AutoCloseJob} \cup {WaveJob(a) : a \in Attempts}
         \cup {WaveTimeoutJob(w, a) : w \in 1..MaxWave, a \in Attempts}

\* Requests of the assigned master: what the gate asks for and writes.
Moves == [onWay    |-> [from |-> "ACCEPTED", to |-> "MASTER_ON_WAY"],
          onSite   |-> [from |-> "MASTER_ON_WAY", to |-> "INSPECTION"],
          propose  |-> [from |-> "INSPECTION", to |-> "AWAITING_PRICE_CONFIRM"],
          complete |-> [from |-> "IN_PROGRESS", to |-> "DONE"]]
MasterRequest == {"withdraw"} \cup DOMAIN Moves

ASSUME RequestedAssumption ==
    Requested \subseteq MasterRequest \cup {"retry", "cancel", "assign", "dispute", "crash"}

\* The next statement of a handler.
Statement ==
    {"idle", "createHold", "createGate", "retryHold", "retryGate", "sendWave",
     "readOrder", "findMasters", "recheck", "sendOffers", "sendTimeout",
     "checkTimeout", "collect", "expire", "giveUp", "void", "answer", "capture",
     "cancelHeld", "cancelVoided", "cancelPaid", "cancelAwaiting",
     "sendPriceTimeout", "sendAutoClose", "close"} \cup MasterRequest

Call == [at : Statement, who : SUBSET Masters, wave : 0..MaxWave,
         attempt : 0..MaxAttempt, job : Job \cup {NoJob}]
Idle == [at |-> "idle", who |-> {}, wave |-> 0, attempt |-> 0, job |-> NoJob]

TypeOK ==
    /\ order \in Row
    /\ offer \in [Attempts -> [Masters -> Offer]]
    /\ money \in Money
    /\ dispute \in {"NONE", "OPEN", "RESOLVED"}
    /\ jobs \subseteq Job
    /\ call \in [Handlers -> Call]

Init ==
    /\ order = [status |-> "NONE", master |-> NoMaster, wave |-> 0, attempt |-> 1]
    /\ offer = [a \in Attempts |-> [m \in Masters |-> [wave |-> 0, outcome |-> "NONE"]]]
    /\ money = [holds |-> 0, captured |-> FALSE, voided |-> FALSE, accrued |-> FALSE]
    /\ dispute = "NONE"
    /\ jobs = {}
    /\ call = [h \in Handlers |-> Idle]

-----------------------------------------------------------------------------
(* How handlers go on and end *)

At(h, statement) == call[h].at = statement
Begin(h, c) == At(h, "idle") /\ call' = [call EXCEPT ![h] = c]
Request(statement, who) == [Idle EXCEPT !.at = statement, !.who = who]
GoTo(h, statement) == call' = [call EXCEPT ![h].at = statement]

\* The handler returns: its job, if it has one, is completed.
End(h) == call' = [call EXCEPT ![h] = Idle] /\ jobs' = jobs \ {call[h].job}
\* It throws or dies: its job will be delivered again.
Throw(h) == call' = [call EXCEPT ![h] = Idle] /\ UNCHANGED jobs
\* It sends a job and returns.
SendAndEnd(h, job) ==
    call' = [call EXCEPT ![h] = Idle] /\ jobs' = (jobs \ {call[h].job}) \cup {job}

\* Nobody is inside the transaction of accept, which has locked the order row.
Unlocked == \A h \in Handlers : ~At(h, "answer")
BugNoGate(from) == order.status # "NONE"
\* updateMany where status in from.
Gate(from) == order.status \in from
BugSameAttempt == [order EXCEPT !.status = "SEARCHING", !.wave = 0]
\* A search starts again.
NewAttempt == [order EXCEPT !.status = "SEARCHING", !.wave = 0, !.attempt = @ + 1]
BugMasterKept == NewAttempt
\* It starts again without the master who steps back.
Withdrawn == [NewAttempt EXCEPT !.master = NoMaster]

\* The offers of attempt a to masters in who get an outcome.
Settle(a, who, outcome) ==
    [offer EXCEPT ![a] = [m \in Masters |->
        IF m \in who THEN [@[m] EXCEPT !.outcome = outcome] ELSE @[m]]]
ExpireAll == [a \in Attempts |-> [m \in Masters |->
    IF offer[a][m].outcome = "PENDING" THEN [offer[a][m] EXCEPT !.outcome = "EXPIRED"]
    ELSE offer[a][m]]]
PendingNow(m) == offer[order.attempt][m].outcome = "PENDING"
Rest == {m \in Masters : PendingNow(m)}

-----------------------------------------------------------------------------
(* Creation and retry: hold, gate, job *)

Create(h) ==
    /\ order.status = "NONE"
    /\ Begin(h, [Request("createHold", {}) EXCEPT !.attempt = 1])
    /\ order' = [order EXCEPT !.status = "CREATED"]
    /\ UNCHANGED <<offer, money, dispute, jobs>>

AskRetry(h) ==
    /\ "retry" \in Requested
    /\ order.status # "NONE"
    /\ money.holds < MaxHolds
    /\ Begin(h, Request("retryHold", {}))
    /\ UNCHANGED <<order, offer, money, dispute, jobs>>

Hold(h) ==
    /\ At(h, "createHold") \/ At(h, "retryHold")
    /\ money.holds < MaxHolds
    /\ money' = [money EXCEPT !.holds = @ + 1]
    /\ GoTo(h, IF At(h, "createHold") THEN "createGate" ELSE "retryGate")
    /\ UNCHANGED <<order, offer, dispute, jobs>>

PublishGate(h) ==
    /\ At(h, "createGate")
    /\ IF Gate({"CREATED"})
       THEN /\ order' = [order EXCEPT !.status = "SEARCHING"]
            /\ GoTo(h, "sendWave") /\ UNCHANGED jobs
       ELSE Throw(h) /\ UNCHANGED order
    /\ UNCHANGED <<offer, money, dispute>>

RetryGate(h) ==
    /\ At(h, "retryGate")
    /\ IF Gate({"NO_MASTERS"})
       THEN /\ order.attempt < MaxAttempt
            /\ order' = NewAttempt
            /\ call' = [call EXCEPT ![h].at = "sendWave", ![h].attempt = order.attempt + 1]
            /\ UNCHANGED jobs
       ELSE Throw(h) /\ UNCHANGED order
    /\ UNCHANGED <<offer, money, dispute>>

SendWave(h) ==
    /\ At(h, "sendWave")
    /\ SendAndEnd(h, WaveJob(call[h].attempt))
    /\ UNCHANGED <<order, offer, money, dispute>>

-----------------------------------------------------------------------------
(* handleWave and handleWaveTimeout *)

TakeJob(h) ==
    \E j \in jobs :
        /\ j.name \in {"WAVE", "WAVE_TIMEOUT"}
        /\ Begin(h, [Idle EXCEPT !.job = j, !.wave = j.wave, !.attempt = j.attempt,
                        !.at = IF j.name = "WAVE" THEN "readOrder" ELSE "checkTimeout"])
        /\ UNCHANGED <<order, offer, money, dispute, jobs>>

ReadOrder(h) ==
    /\ At(h, "readOrder")
    /\ IF order.status = "SEARCHING"
       THEN /\ call' = [call EXCEPT ![h].at = "findMasters", ![h].attempt = order.attempt]
            /\ UNCHANGED jobs
       ELSE End(h)
    /\ UNCHANGED <<order, offer, money, dispute>>

\* Not offered in this attempt, and nobody who has accepted the order before.
Candidates(attempt) ==
    {m \in Masters : /\ offer[attempt][m].outcome = "NONE"
                     /\ \A a \in Attempts : offer[a][m].outcome # "ACCEPTED"
                     /\ ~(order.master = m /\ order.status \in Served)}

FindMasters(h) ==
    /\ At(h, "findMasters")
    /\ \E found \in SUBSET Candidates(call[h].attempt) :
          call' = [call EXCEPT ![h].who = found,
                               ![h].at = IF found = {} THEN "recheck" ELSE "sendOffers"]
    /\ UNCHANGED <<order, offer, money, dispute, jobs>>

BugOneWaveMore(h) ==
    LET c == call[h]
    IN  call' = [call EXCEPT ![h] =
            IF c.wave <= MaxWave
            THEN [c EXCEPT !.at = "readOrder", !.wave = c.wave + 1, !.who = {}]
            ELSE [c EXCEPT !.at = "giveUp", !.who = {}]]
\* MAX_WAVE waves, then the search is given up.
NextWave(h) ==
    LET c == call[h]
    IN  call' = [call EXCEPT ![h] =
            IF c.wave < MaxWave
            THEN [c EXCEPT !.at = "readOrder", !.wave = c.wave + 1, !.who = {}]
            ELSE [c EXCEPT !.at = "giveUp", !.who = {}]]

\* Nobody found: unless another call has been here, the next wave at once.
Recheck(h) ==
    /\ At(h, "recheck")
    /\ IF order.status = "SEARCHING" /\ order.wave < call[h].wave
       THEN NextWave(h) /\ UNCHANGED jobs
       ELSE End(h)
    /\ UNCHANGED <<order, offer, money, dispute>>

BugWaveNotCompared(w) == order.status = "SEARCHING"
BugStatusNotCompared(w) == order.wave < w
\* The gate of a wave only moves forward.
WaveGate(w) == order.status = "SEARCHING" /\ order.wave < w

SendOffers(h) ==
    LET c == call[h]
    IN  /\ At(h, "sendOffers")
        /\ Unlocked
        /\ IF WaveGate(c.wave)
           THEN /\ order' = [order EXCEPT !.wave = c.wave]
                /\ offer' = [offer EXCEPT ![c.attempt] = [m \in Masters |->
                       IF m \in c.who /\ @[m].outcome = "NONE"
                       THEN [wave |-> c.wave, outcome |-> "PENDING"] ELSE @[m]]]
                /\ call' = [call EXCEPT ![h].at = "sendTimeout", ![h].who = {}]
                /\ UNCHANGED jobs
           ELSE End(h) /\ UNCHANGED <<order, offer>>
        /\ UNCHANGED <<money, dispute>>

SendTimeout(h) ==
    /\ At(h, "sendTimeout")
    /\ SendAndEnd(h, WaveTimeoutJob(call[h].wave, call[h].attempt))
    /\ UNCHANGED <<order, offer, money, dispute>>

CheckTimeout(h) ==
    /\ At(h, "checkTimeout")
    /\ IF /\ order.status = "SEARCHING"
          /\ order.attempt = call[h].attempt /\ order.wave = call[h].wave
       THEN GoTo(h, "collect") /\ UNCHANGED jobs
       ELSE End(h)
    /\ UNCHANGED <<order, offer, money, dispute>>

Collect(h) ==
    /\ At(h, "collect")
    /\ call' = [call EXCEPT ![h].at = "expire", ![h].who =
           {m \in Masters : offer[call[h].attempt][m] = [wave |-> call[h].wave, outcome |-> "PENDING"]}]
    /\ UNCHANGED <<order, offer, money, dispute, jobs>>

\* The offers are written by id, whatever has become of them.
Expire(h) ==
    /\ At(h, "expire")
    /\ offer' = Settle(call[h].attempt, call[h].who, "EXPIRED")
    /\ NextWave(h)
    /\ UNCHANGED <<order, money, dispute, jobs>>

\* markNoMasters
GiveUp(h) ==
    /\ At(h, "giveUp")
    /\ Unlocked
    /\ IF Gate({"SEARCHING"})
       THEN /\ order' = [order EXCEPT !.status = "NO_MASTERS"]
            /\ offer' = ExpireAll
            /\ GoTo(h, "void") /\ UNCHANGED jobs
       ELSE Throw(h) /\ UNCHANGED <<order, offer>>
    /\ UNCHANGED <<money, dispute>>

\* The provider settles a kind of transaction once per order; without a hold it throws.
Void(h) ==
    /\ At(h, "void")
    /\ IF money.holds = 0 THEN Throw(h) /\ UNCHANGED money
       ELSE money' = [money EXCEPT !.voided = TRUE] /\ End(h)
    /\ UNCHANGED <<order, offer, dispute>>

-----------------------------------------------------------------------------
(* Assignment *)

\* accept locks the order and reads; with the row locked its gate cannot fail,
\* and a refused accept changes nothing.
Accept(h, m) ==
    /\ Unlocked
    /\ order.status = "SEARCHING" /\ PendingNow(m)
    /\ Begin(h, Request("answer", {m}))
    /\ UNCHANGED <<order, offer, money, dispute, jobs>>

\* The winner's offer is ACCEPTED, the other PENDING ones of the attempt LOST.
Won(m) ==
    [Settle(order.attempt, Rest, "LOST") EXCEPT ![order.attempt][m].outcome = "ACCEPTED"]

Answer(h) ==
    \E m \in call[h].who :
        /\ At(h, "answer")
        /\ order' = [order EXCEPT !.status = "ACCEPTED", !.master = m]
        /\ offer' = Won(m)
        /\ call' = [call EXCEPT ![h].at = "capture", ![h].who = {}]
        /\ UNCHANGED <<money, dispute, jobs>>

ManualAssign(h, m) ==
    /\ "assign" \in Requested
    /\ Unlocked
    /\ order.status = "SEARCHING"
    /\ order' = [order EXCEPT !.status = "ACCEPTED", !.master = m]
    /\ offer' = Settle(order.attempt, Rest, "LOST")
    /\ Begin(h, Request("capture", {}))
    /\ UNCHANGED <<money, dispute, jobs>>

Capture(h) ==
    /\ At(h, "capture")
    /\ IF money.holds = 0 THEN Throw(h) /\ UNCHANGED money
       ELSE money' = [money EXCEPT !.captured = TRUE] /\ End(h)
    /\ UNCHANGED <<order, offer, dispute>>

-----------------------------------------------------------------------------
(* The assigned master *)

\* guardMaster reads who is assigned; the gate asks about the status only.
AskMaster(h, m) ==
    /\ order.master = m
    /\ \E request \in MasterRequest \cap Requested : Begin(h, Request(request, {m}))
    /\ UNCHANGED <<order, offer, money, dispute, jobs>>

\* cancelByMaster
Withdraw(h) ==
    /\ At(h, "withdraw")
    /\ IF Gate({"ACCEPTED", "MASTER_ON_WAY"})
       THEN /\ order.attempt < MaxAttempt
            /\ order' = Withdrawn
            /\ call' = [call EXCEPT ![h] =
                   [@ EXCEPT !.at = "sendWave", !.who = {}, !.attempt = order.attempt + 1]]
            /\ UNCHANGED jobs
       ELSE Throw(h) /\ UNCHANGED order
    /\ UNCHANGED <<offer, money, dispute>>

AfterMove(h) ==
    LET next == CASE At(h, "propose") -> "sendPriceTimeout"
                  [] At(h, "complete") -> "sendAutoClose"
                  [] OTHER -> "idle"
    IN  call' = [call EXCEPT ![h] = Request(next, {})]

Move(h) ==
    /\ call[h].at \in DOMAIN Moves
    /\ IF Gate({Moves[call[h].at].from})
       THEN order' = [order EXCEPT !.status = Moves[call[h].at].to] /\ AfterMove(h)
       ELSE UNCHANGED order /\ call' = [call EXCEPT ![h] = Idle]
    /\ UNCHANGED <<offer, money, dispute, jobs>>

SendDeadline(h) ==
    /\ \/ At(h, "sendPriceTimeout") /\ SendAndEnd(h, PriceTimeoutJob)
       \/ At(h, "sendAutoClose") /\ SendAndEnd(h, AutoCloseJob)
    /\ UNCHANGED <<order, offer, money, dispute>>

-----------------------------------------------------------------------------
(* Cancellation by the client, by what the request has read *)

Finish(status) == order' = [order EXCEPT !.status = status]
Compensated == [money EXCEPT !.accrued = TRUE]

AskCancel(h) ==
    LET way == CASE order.status \in {"CREATED", "SEARCHING"} -> {"cancelHeld"}
                 [] order.status = "NO_MASTERS" -> {"cancelVoided"}
                 [] order.status \in {"ACCEPTED", "MASTER_ON_WAY"} -> {"cancelPaid"}
                 [] order.status = "AWAITING_PRICE_CONFIRM" -> {"cancelAwaiting"}
                 [] OTHER -> {}
    IN  /\ "cancel" \in Requested
        /\ \E statement \in way : Begin(h, Request(statement, {}))
        /\ UNCHANGED <<order, offer, money, dispute, jobs>>

CancelFree(h) ==
    /\ At(h, "cancelHeld") \/ At(h, "cancelVoided")
    /\ Unlocked
    /\ IF Gate({"CREATED", "SEARCHING", "NO_MASTERS"})
       THEN /\ Finish("CANCELLED_BY_CLIENT")
            /\ offer' = ExpireAll
            /\ GoTo(h, IF At(h, "cancelHeld") THEN "void" ELSE "idle")
       ELSE call' = [call EXCEPT ![h] = Idle] /\ UNCHANGED <<order, offer>>
    /\ UNCHANGED <<money, dispute, jobs>>

BugPaysRegardless(from) ==
    /\ money' = Compensated
    /\ IF Gate(from) THEN Finish("CANCELLED_BY_CLIENT") ELSE UNCHANGED order
\* Gate and accrual in one transaction: a refused gate rolls the accrual back.
PaidCancellation(from) ==
    IF Gate(from) THEN Finish("CANCELLED_BY_CLIENT") /\ money' = Compensated
    ELSE UNCHANGED <<order, money>>

\* cancelPaidFromAwaiting is also what rejectPrice calls.
CancelPaid(h) ==
    /\ \/ At(h, "cancelPaid") /\ PaidCancellation({"ACCEPTED", "MASTER_ON_WAY"})
       \/ At(h, "cancelAwaiting") /\ PaidCancellation({"AWAITING_PRICE_CONFIRM"})
    /\ call' = [call EXCEPT ![h] = Idle]
    /\ UNCHANGED <<offer, dispute, jobs>>

\* The price deadline; AWAITING_PRICE_CONFIRM is entered once, so the read of
\* the job and its gate agree.
PriceTimeout ==
    /\ PriceTimeoutJob \in jobs
    /\ jobs' = jobs \ {PriceTimeoutJob}
    /\ PaidCancellation({"AWAITING_PRICE_CONFIRM"})
    /\ UNCHANGED <<offer, dispute, call>>

ConfirmPrice ==
    /\ Gate({"AWAITING_PRICE_CONFIRM"})
    /\ Finish("IN_PROGRESS")
    /\ UNCHANGED <<offer, money, dispute, jobs, call>>

-----------------------------------------------------------------------------
(* Closing and disputes *)

ConfirmCompletion ==
    /\ Gate({"DONE"})
    /\ Finish("CLOSED")
    /\ money' = Compensated
    /\ UNCHANGED <<offer, dispute, jobs, call>>

\* handleAutoClose asks whether a dispute is open, ...
ReadDispute(h) ==
    /\ AutoCloseJob \in jobs
    /\ At(h, "idle")
    /\ IF order.status = "DONE" /\ dispute # "OPEN"
       THEN Begin(h, [Idle EXCEPT !.at = "close", !.job = AutoCloseJob]) /\ UNCHANGED jobs
       ELSE jobs' = jobs \ {AutoCloseJob} /\ UNCHANGED call
    /\ UNCHANGED <<order, offer, money, dispute>>

\* ... and then closes.
AutoClose(h) ==
    /\ At(h, "close")
    /\ IF Gate({"DONE"})
       THEN Finish("CLOSED") /\ money' = Compensated /\ End(h)
       ELSE Throw(h) /\ UNCHANGED <<order, money>>
    /\ UNCHANGED <<offer, dispute>>

OpenDispute ==
    /\ "dispute" \in Requested
    /\ order.status \in {"IN_PROGRESS", "DONE", "CLOSED"}
    /\ dispute # "OPEN"
    /\ dispute' = "OPEN"
    /\ UNCHANGED <<order, offer, money, jobs, call>>

\* DONE leads only to CLOSED, so the read of the transaction and its update agree.
ResolveDispute ==
    /\ dispute = "OPEN"
    /\ dispute' = "RESOLVED"
    /\ IF order.status = "DONE" THEN Finish("CLOSED") /\ money' = Compensated
       ELSE UNCHANGED <<order, money>>
    /\ UNCHANGED <<offer, jobs, call>>

-----------------------------------------------------------------------------
\* The process dies, or a statement fails.
Die(h) ==
    /\ "crash" \in Requested
    /\ ~At(h, "idle")
    /\ Throw(h)
    /\ UNCHANGED <<order, offer, money, dispute>>

\* What a handler does by itself once it has begun.
Proceed(h) ==
    \/ Hold(h) \/ PublishGate(h) \/ RetryGate(h) \/ SendWave(h)
    \/ ReadOrder(h) \/ FindMasters(h) \/ Recheck(h) \/ SendOffers(h) \/ SendTimeout(h)
    \/ CheckTimeout(h) \/ Collect(h) \/ Expire(h) \/ GiveUp(h) \/ Void(h)
    \/ Answer(h) \/ Capture(h) \/ Withdraw(h) \/ Move(h) \/ SendDeadline(h)
    \/ CancelFree(h) \/ CancelPaid(h) \/ AutoClose(h)

Requests(h) ==
    \/ Create(h) \/ AskRetry(h) \/ AskCancel(h)
    \/ \E m \in Masters : Accept(h, m) \/ ManualAssign(h, m) \/ AskMaster(h, m)

Deliver(h) == TakeJob(h) \/ ReadDispute(h)

Next ==
    \/ \E h \in Handlers : Requests(h) \/ Deliver(h) \/ Proceed(h) \/ Die(h)
    \/ PriceTimeout \/ ConfirmPrice \/ ConfirmCompletion \/ OpenDispute \/ ResolveDispute

Spec == Init /\ [][Next]_vars

(* Handlers that do not die go on, and pg-boss delivers every job until its *)
(* handler returns. Nobody is obliged to ask for anything.                 *)
FairSpec ==
    /\ Spec
    /\ \A h \in Handlers : WF_vars(Proceed(h))
    /\ SF_vars(\E h \in Handlers : Deliver(h))

-----------------------------------------------------------------------------
(* Properties *)

(* "Второй мастер получает 409": of several masters who accept at once one  *)
(* wins, and an attempt never has two ACCEPTED offers.                     *)
OneWinner ==
    \A a \in Attempts, m, n \in Masters :
        offer[a][m].outcome = "ACCEPTED" /\ offer[a][n].outcome = "ACCEPTED" => m = n

(* Once a search is over, by whichever of the handlers that race to end it, *)
(* nothing is left that a master could accept.                             *)
NothingLeftToAccept ==
    order.status # "SEARCHING" => \A m \in Masters : ~PendingNow(m)

(* Redelivered and overtaken wave jobs never take an attempt back to an     *)
(* earlier wave, and never offer the same wave again.                      *)
WavesOnlyAdvance ==
    [][order'.attempt = order.attempt =>
          /\ order'.wave >= order.wave
          /\ \A m \in Masters :
                PendingNow(m)' /\ ~PendingNow(m) => order'.wave > order.wave]_vars

(* Closed and cancelled orders stay so, whatever handlers, jobs and         *)
(* resolutions are still on their way.                                     *)
OverIsOver == [][order.status \in Over => order'.status = order.status]_vars

(* An order that is served has a master and one that is searched for has    *)
(* none, also when cancellations of both sides meet.                       *)
AssignedIffServed ==
    /\ order.status \in Served \cup {"DONE", "CLOSED"} => order.master # NoMaster
    /\ order.status \in {"CREATED", "SEARCHING", "NO_MASTERS"} => order.master = NoMaster

(* The master is compensated only for an order that is over: no job,        *)
(* cancellation or resolution that loses its race pays him.                *)
CompensationEndsOrder == money.accrued => order.status \in Over

(* "SEARCHING -> NO_MASTERS | VOID": the VOID that ends a search releases   *)
(* the client's money, in a repeated search too, which has its own hold.    *)
NoMastersReleasesHold ==
    [][\A h \in Handlers : Void(h) /\ order.status = "NO_MASTERS" => money' # money]_vars

(* "Гард по роли и принадлежности": what a master asks for happens to an    *)
(* order only while it is his.                                             *)
OnlyTheAssigned ==
    [][\A h \in Handlers :
        call[h].at \in MasterRequest /\ call'[h] # call[h] /\ order' # order =>
            order.master \in call[h].who]_vars

(* "Рестарт API в середине волны -> pg-boss доставит wave-timeout": once    *)
(* crashes stop, a wave that was sent does not last for ever.              *)
CrashesStop == <>[][\A h \in Handlers : ~Die(h)]_vars

WaveTimesOut ==
    CrashesStop =>
        \A a \in Attempts, w \in 1..MaxWave :
            LET sent == order.status = "SEARCHING" /\ order.attempt = a /\ order.wave = w
            IN  sent ~> ~sent
-----------------------------------------------------------------------------
(* Refinement: the order seen as a booking.                                 *)

PhaseOf(status) ==
    CASE status = "NONE" -> "idle"
      [] status \in {"CREATED", "SEARCHING", "NO_MASTERS"} -> "open"
      [] status \in {"ACCEPTED", "MASTER_ON_WAY"} -> "booked"
      [] status \in (Served \ {"ACCEPTED", "MASTER_ON_WAY"}) \cup {"DONE"} -> "underway"
      [] status \in Over -> "over"

Server == IF order.status \in Served \cup {"DONE"} THEN order.master ELSE NoMaster

Bookings == INSTANCE Booking WITH
    Orders <- {"order"}, ClientOf <- [o \in {"order"} |-> "client"],
    phase <- [o \in {"order"} |-> PhaseOf(order.status)],
    server <- [o \in {"order"} |-> Server]

(* With stale reads, redelivered jobs, retries, disputes and cancellations   *)
(* of both sides the order goes through a life of Booking: one master from   *)
(* the search to the end, no way back once he is on site, an end for good.   *)
ImplementsBooking == Bookings!Spec
=============================================================================
