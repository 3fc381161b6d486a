---------------------------- MODULE DirectOrders ----------------------------
(***************************************************************************)
(* Urgent orders of the DIRECT_PAYMENT mode (lifecycleVersion 2,           *)
(* dispatchMode SEQUENTIAL): OrdersService, SequentialMatchingService and  *)
(* DirectOrderLifecycleService over the tables Order and OrderOffer.       *)
(*                                                                         *)
(* A transaction starts with SELECT ... FOR UPDATE on its Order row, so    *)
(* one transaction at a time works on an order: tx[o] is that transaction. *)
(* Accept, manual assignment and dispatch also lock the User row of a      *)
(* master and are split at the points where another transaction can run;   *)
(* a transaction that touches only its own order is one action, enabled    *)
(* while the row is free. Dispatch jobs are not kept: the recovery cron    *)
(* calls dispatch for every order in SEARCHING, so a lost, late or         *)
(* duplicated job adds no behaviour to DispatchSelect.                     *)
(***************************************************************************)
EXTENDS Integers

CONSTANTS
    Orders,           \* order slots
    Masters,          \* users with a master profile
    ClientOf,         \* [Orders -> users]: who creates each order
    NoMaster,         \* masterId IS NULL
    Quotes,           \* valid quote payloads: work, materials, callout, comment
    NoQuote,          \* workPrice IS NULL
    Standings,        \* bound: the standings masters go through
    MaxAttempt,       \* bound on searchAttempt
    MaxQuoteVersion   \* bound on quoteVersion

ASSUME NoMasterAssumption == NoMaster \notin Masters
ASSUME NoQuoteAssumption == NoQuote \notin Quotes
ASSUME StandingsAssumption ==
    Standings \subseteq {"ready", "offline", "barred", "planned"}
ASSUME BoundsAssumption == MaxAttempt \in Nat \ {0} /\ MaxQuoteVersion \in Nat

VARIABLES
    order,      \* the rows of table Order
    offer,      \* offer[o][a][m]: the OrderOffer row of master m in attempt a
    tx,         \* the open transaction that holds the row lock of the order
    standing,   \* what dispatch and accept read of a master elsewhere
    preview     \* the cancellation terms the client was last shown

vars == <<order, offer, tx, standing, preview>>

-----------------------------------------------------------------------------
(* Tables *)

ActiveMaster == {"ACCEPTED", "MASTER_ON_WAY", "INSPECTION",
                 "AWAITING_PRICE_CONFIRM", "PRICE_APPROVED", "IN_PROGRESS"}
ActiveClient == {"CREATED", "SEARCHING", "NO_MASTERS", "DONE"} \cup ActiveMaster
AfterStart == {"IN_PROGRESS", "DONE", "CLOSED"}
Cancellable == {"CREATED", "SEARCHING", "NO_MASTERS"} \cup (ActiveMaster \ AfterStart)

\* "NONE" is a slot that has not been created yet.
Status == {"NONE", "CLOSED", "CANCELLED_BY_CLIENT"} \cup ActiveClient

\* Statuses in which the master may send a quote or a corrected one.
BugQuotableAfterStart ==
    {"INSPECTION", "AWAITING_PRICE_CONFIRM", "PRICE_APPROVED", "IN_PROGRESS"}
Quotable == {"INSPECTION", "AWAITING_PRICE_CONFIRM", "PRICE_APPROVED"}

Attempts == 1..MaxAttempt
Versions == 0..MaxQuoteVersion

\* consentedVersion 0 stands for NULL; the timestamps are "is set" flags.
Row == [status : Status,
        masterId : Masters \cup {NoMaster},
        searchAttempt : Attempts,
        departedAt : BOOLEAN,
        onSiteAt : BOOLEAN,
        workStartedAt : BOOLEAN,
        quote : Quotes \cup {NoQuote},
        quoteVersion : Versions,
        consentedVersion : Versions,
        cancellationAmount : {0, 2500}]

NewRow == [status |-> "NONE", masterId |-> NoMaster, searchAttempt |-> 1,
           departedAt |-> FALSE, onSiteAt |-> FALSE, workStartedAt |-> FALSE,
           quote |-> NoQuote, quoteVersion |-> 0, consentedVersion |-> 0,
           cancellationAmount |-> 0]

\* PENDING is split by its deadline: LIVE before expiresAt, LAPSED after it.
Outcome == {"NONE", "LIVE", "LAPSED", "ACCEPTED", "LOST", "EXPIRED"}
Pending == {"LIVE", "LAPSED"}

(* ready: online within 10 km, profile ACTIVE, nobody blocked it; barred:  *)
(* profile not ACTIVE, blockedUntil in the future or isBlocked; planned:   *)
(* a LEGACY planned order of this master is IN_PROGRESS.                   *)
Standing == {"ready", "offline", "barred", "planned"}

Tx == [op : {"none", "accept", "assign", "dispatch"},
       master : Masters \cup {NoMaster},   \* the master it is about
       locked : BOOLEAN]                   \* it holds that master's User row
NoTx == [op |-> "none", master |-> NoMaster, locked |-> FALSE]

Preview == [amount : {0, 2500}, current : BOOLEAN]
Outdated == [amount |-> 0, current |-> FALSE]

TypeOK ==
    /\ order \in [Orders -> Row]
    /\ offer \in [Orders -> [Attempts -> [Masters -> Outcome]]]
    /\ tx \in [Orders -> Tx]
    /\ standing \in [Masters -> Standing]
    /\ preview \in [Orders -> Preview]

Init ==
    /\ order = [o \in Orders |-> NewRow]
    /\ offer = [o \in Orders |-> [a \in Attempts |-> [m \in Masters |-> "NONE"]]]
    /\ tx = [o \in Orders |-> NoTx]
    /\ standing = [m \in Masters |-> "ready"]
    /\ preview = [o \in Orders |-> Outdated]

-----------------------------------------------------------------------------
(* Statements the transactions are made of *)

Free(o) == tx[o].op = "none"
\* No other transaction holds the User row of the master.
BugNoMasterLock(m) == TRUE
MasterFree(m) == \A o \in Orders : ~(tx[o].locked /\ tx[o].master = m)

\* UPDATE "Order": the row gets a new updatedAt, which outdates the preview.
Write(o, row) ==
    /\ order' = [order EXCEPT ![o] = row]
    /\ preview' = [preview EXCEPT ![o] = Outdated]

CurrentOffers(o) == offer[o][order[o].searchAttempt]

\* The order's row holds master m down: six active statuses and a v2 DONE.
Occupies(o, m) ==
    order[o].masterId = m /\ order[o].status \in ActiveMaster \cup {"DONE"}
Busy(m) == \E o \in Orders : Occupies(o, m)

BugAnswersRewritten(o, outcome) ==
    [offer EXCEPT ![o] = [a \in Attempts |-> [m \in Masters |->
        IF @[a][m] = "NONE" THEN "NONE" ELSE outcome]]]

\* An offer statement that gives every PENDING offer of the order an outcome.
SettleOffers(o, outcome) ==
    [offer EXCEPT ![o] = [a \in Attempts |-> [m \in Masters |->
        IF @[a][m] \in Pending THEN outcome ELSE @[a][m]]]]

\* The same, but only for the current attempt.
SettleAttempt(o, outcome) ==
    [offer EXCEPT ![o][order[o].searchAttempt] = [m \in Masters |->
        IF @[m] \in Pending THEN outcome ELSE @[m]]]

BugAskedAgain(o, m) ==
    /\ standing[m] = "ready" /\ m # ClientOf[o] /\ ~Busy(m)
    /\ CurrentOffers(o)[m] = "NONE"
    /\ \A p \in Orders, a \in Attempts : offer[p][a][m] # "LIVE"

\* The predicate of eligibleQuery.
Eligible(o, m) ==
    /\ standing[m] = "ready"
    /\ m # ClientOf[o]
    /\ ~Busy(m)
    /\ CurrentOffers(o)[m] = "NONE"
    /\ \A a \in Attempts : offer[o][a][m] # "ACCEPTED"
    /\ \A p \in Orders, a \in Attempts : offer[p][a][m] # "LIVE"

-----------------------------------------------------------------------------
(* Creation *)

\* The creating transaction: client row locked, one active order per client.
Create(o) ==
    /\ order[o].status = "NONE"
    /\ \A p \in Orders : ClientOf[p] = ClientOf[o] => order[p].status \notin ActiveClient
    /\ Write(o, [order[o] EXCEPT !.status = "CREATED"])
    /\ UNCHANGED <<offer, tx, standing>>

\* The gate after the transaction. A crash in between leaves CREATED.
Publish(o) ==
    /\ order[o].status = "CREATED"
    /\ Free(o)
    /\ Write(o, [order[o] EXCEPT !.status = "SEARCHING"])
    /\ UNCHANGED <<offer, tx, standing>>

\* NO_MASTERS -> SEARCHING: a new attempt.
RetrySearch(o) ==
    /\ order[o].status = "NO_MASTERS"
    /\ Free(o)
    /\ order[o].searchAttempt < MaxAttempt
    /\ Write(o, [order[o] EXCEPT !.status = "SEARCHING", !.searchAttempt = @ + 1])
    /\ UNCHANGED <<offer, tx, standing>>

-----------------------------------------------------------------------------
(* Dispatch *)

\* The unlocked candidate the statement FOR UPDATE OF u SKIP LOCKED returns.
Candidate(o, m) == Eligible(o, m) /\ MasterFree(m)

\* No offer of the attempt is still running; a lapsed one does not count.
BugLapsedStillCounts(o) == \A m \in Masters : CurrentOffers(o)[m] \notin Pending
Unanswered(o) == \A m \in Masters : CurrentOffers(o)[m] # "LIVE"

\* dispatch up to the candidate statement; a live offer is left alone.
DispatchSelect(o) ==
    /\ Free(o)
    /\ order[o].status = "SEARCHING"
    /\ Unanswered(o)
    /\ \/ \E m \in Masters :
            /\ Candidate(o, m)
            /\ tx' = [tx EXCEPT ![o] = [op |-> "dispatch", master |-> m, locked |-> TRUE]]
       \/ /\ \A m \in Masters : ~Candidate(o, m)
          /\ tx' = [tx EXCEPT ![o] = [op |-> "dispatch", master |-> NoMaster, locked |-> FALSE]]
    /\ UNCHANGED <<order, offer, standing, preview>>

\* A lapsed offer expires and the locked candidate gets an offer for 30 seconds.
DispatchOffer(o) ==
    LET m == tx[o].master
        a == order[o].searchAttempt
    IN  /\ tx[o].op = "dispatch" /\ tx[o].locked
        /\ offer' = [SettleAttempt(o, "EXPIRED") EXCEPT ![o][a][m] = "LIVE"]
        /\ tx' = [tx EXCEPT ![o] = NoTx]
        /\ UNCHANGED <<order, standing, preview>>

\* Nobody could be locked: the query runs again without the lock clause, and
\* only an empty answer ends the search.
BugSkippedIsExhausted(o) == TRUE
Exhausted(o) == \A m \in Masters : ~Eligible(o, m)

DispatchExhaust(o) ==
    /\ tx[o].op = "dispatch" /\ ~tx[o].locked
    /\ Exhausted(o)
    /\ offer' = SettleAttempt(o, "EXPIRED")
    /\ Write(o, [order[o] EXCEPT !.status = "NO_MASTERS"])
    /\ tx' = [tx EXCEPT ![o] = NoTx]
    /\ UNCHANGED standing

DispatchDefer(o) ==
    /\ tx[o].op = "dispatch" /\ ~tx[o].locked
    /\ ~Exhausted(o)
    /\ offer' = SettleAttempt(o, "EXPIRED")
    /\ tx' = [tx EXCEPT ![o] = NoTx]
    /\ UNCHANGED <<order, standing, preview>>

\* Thirty seconds pass.
OfferLapses(o, m) ==
    /\ CurrentOffers(o)[m] = "LIVE"
    /\ offer' = [offer EXCEPT ![o][order[o].searchAttempt][m] = "LAPSED"]
    /\ UNCHANGED <<order, tx, standing, preview>>

\* The master passes; the next DispatchSelect looks for another one.
DeclineOffer(o, m) ==
    /\ Free(o)
    /\ order[o].status = "SEARCHING"
    /\ CurrentOffers(o)[m] \in Pending
    /\ offer' = [offer EXCEPT ![o][order[o].searchAttempt][m] = "EXPIRED"]
    /\ UNCHANGED <<order, tx, standing, preview>>

-----------------------------------------------------------------------------
(* Assignment *)

\* accept and manualAssign lock the order first, ...
AcceptBegin(o, m) ==
    /\ Free(o)
    /\ order[o].status = "SEARCHING"
    /\ tx' = [tx EXCEPT ![o] = [op |-> "accept", master |-> m, locked |-> FALSE]]
    /\ UNCHANGED <<order, offer, standing, preview>>

AssignBegin(o, m) ==
    /\ Free(o)
    /\ m # ClientOf[o]
    /\ order[o].status = "SEARCHING"
    /\ tx' = [tx EXCEPT ![o] = [op |-> "assign", master |-> m, locked |-> FALSE]]
    /\ UNCHANGED <<order, offer, standing, preview>>

MayAccept(o, m) ==
    /\ ~Busy(m)
    /\ standing[m] \notin {"barred", "planned"}
    /\ CurrentOffers(o)[m] = "LIVE"

BugNoBusyCheck(m) == standing[m] # "barred"

\* Manual assignment does not ask about planned orders or about offers.
MayAssign(m) == ~Busy(m) /\ standing[m] # "barred"

\* ... then the master, waiting for the row, and read what decides; a failed
\* check throws, which rolls the transaction back.
LockMaster(o) ==
    LET m == tx[o].master
        allowed == IF tx[o].op = "accept" THEN MayAccept(o, m) ELSE MayAssign(m)
    IN  /\ tx[o].op \in {"accept", "assign"} /\ ~tx[o].locked
        /\ MasterFree(m)
        /\ tx' = [tx EXCEPT ![o] = IF allowed THEN [@ EXCEPT !.locked = TRUE] ELSE NoTx]
        /\ UNCHANGED <<order, offer, standing, preview>>

AssignedRow(o) == [order[o] EXCEPT !.status = "ACCEPTED", !.masterId = tx[o].master]

\* The winner's offer is ACCEPTED, every other PENDING one of the attempt LOST.
AcceptCommit(o) ==
    /\ tx[o].op = "accept" /\ tx[o].locked
    /\ Write(o, AssignedRow(o))
    /\ offer' = [SettleAttempt(o, "LOST")
                    EXCEPT ![o][order[o].searchAttempt][tx[o].master] = "ACCEPTED"]
    /\ tx' = [tx EXCEPT ![o] = NoTx]
    /\ UNCHANGED standing

AssignCommit(o) ==
    /\ tx[o].op = "assign" /\ tx[o].locked
    /\ Write(o, AssignedRow(o))
    /\ offer' = SettleAttempt(o, "LOST")
    /\ tx' = [tx EXCEPT ![o] = NoTx]
    /\ UNCHANGED standing

\* The process dies or the database aborts the transaction.
Rollback(o) ==
    /\ ~Free(o)
    /\ tx' = [tx EXCEPT ![o] = NoTx]
    /\ UNCHANGED <<order, offer, standing, preview>>

\* The assigned master steps back before departing: a new search attempt.
CancelByMaster(o) ==
    /\ Free(o)
    /\ order[o].status = "ACCEPTED"
    /\ ~order[o].departedAt
    /\ order[o].searchAttempt < MaxAttempt
    /\ Write(o, [order[o] EXCEPT !.status = "SEARCHING", !.masterId = NoMaster,
                                 !.departedAt = FALSE, !.onSiteAt = FALSE,
                                 !.searchAttempt = @ + 1])
    /\ UNCHANGED <<offer, tx, standing>>

-----------------------------------------------------------------------------
(* Lifecycle: change() locks the row, checks the actor, applies the action. *)
(* Repeated requests that change nothing are stuttering steps.             *)

Change(o, from, row) ==
    /\ Free(o)
    /\ order[o].status \in from
    /\ Write(o, row)
    /\ UNCHANGED <<offer, tx, standing>>

OnWay(o) ==
    /\ ~order[o].departedAt
    /\ Change(o, {"ACCEPTED"}, [order[o] EXCEPT !.status = "MASTER_ON_WAY", !.departedAt = TRUE])

OnSite(o) ==
    /\ ~order[o].onSiteAt
    /\ order[o].departedAt
    /\ Change(o, {"MASTER_ON_WAY"}, [order[o] EXCEPT !.status = "INSPECTION", !.onSiteAt = TRUE])

BugConsentKept(o, quote) ==
    [order[o] EXCEPT !.status = "AWAITING_PRICE_CONFIRM", !.quote = quote,
                     !.quoteVersion = @ + 1]

\* A new payload is a new version that nobody has consented to.
QuotedRow(o, quote) ==
    [order[o] EXCEPT !.status = "AWAITING_PRICE_CONFIRM", !.quote = quote,
                     !.quoteVersion = @ + 1, !.consentedVersion = 0]

\* expected is the version the master's client last saw.
Propose(o, quote, expected) ==
    /\ expected < MaxQuoteVersion
    /\ order[o].quoteVersion = expected
    /\ Change(o, Quotable, QuotedRow(o, quote))

Approve(o, version) ==
    /\ version # 0 /\ order[o].quoteVersion = version
    /\ order[o].quote # NoQuote
    /\ Change(o, {"AWAITING_PRICE_CONFIRM"},
              [order[o] EXCEPT !.status = "PRICE_APPROVED", !.consentedVersion = version])

Start(o, version) ==
    /\ version # 0 /\ order[o].quoteVersion = version
    /\ order[o].consentedVersion = version
    /\ order[o].quote # NoQuote
    /\ Change(o, {"PRICE_APPROVED"},
              [order[o] EXCEPT !.status = "IN_PROGRESS", !.workStartedAt = TRUE])

Complete(o) ==
    /\ order[o].workStartedAt
    /\ order[o].consentedVersion = order[o].quoteVersion
    /\ Change(o, {"IN_PROGRESS"}, [order[o] EXCEPT !.status = "DONE"])

AcceptResult(o) ==
    /\ order[o].quote # NoQuote
    /\ Change(o, {"DONE"}, [order[o] EXCEPT !.status = "CLOSED"])

-----------------------------------------------------------------------------
(* Cancellation by the client *)

BugRoundedAmount(o) == IF order[o].departedAt THEN 3000 ELSE 0
CancellationAmount(o) == IF order[o].departedAt THEN 2500 ELSE 0

\* The client is shown the amount and updatedAt of the row.
CancellationPreview(o) ==
    /\ Free(o)
    /\ order[o].status \in Cancellable
    /\ preview' = [preview EXCEPT ![o] = [amount |-> CancellationAmount(o), current |-> TRUE]]
    /\ UNCHANGED <<order, offer, tx, standing>>

BugTermsNotCompared(o) == TRUE

\* expectedAmount and expectedUpdatedAt of the request match the locked row.
TermsConfirmed(o) == preview[o].current /\ preview[o].amount = CancellationAmount(o)

\* The client confirms what the last preview showed (rejectPrice comes here too).
Cancel(o) ==
    /\ TermsConfirmed(o)
    /\ Free(o)
    /\ order[o].status \in Cancellable
    /\ Write(o, [order[o] EXCEPT !.status = "CANCELLED_BY_CLIENT",
                                 !.cancellationAmount = CancellationAmount(o)])
    /\ offer' = SettleOffers(o, "EXPIRED")
    /\ UNCHANGED <<tx, standing>>

-----------------------------------------------------------------------------
\* Presence, moderation, blocking and planned work go their own way.
ChangeStanding(m, s) ==
    /\ standing[m] # s
    /\ standing' = [standing EXCEPT ![m] = s]
    /\ UNCHANGED <<order, offer, tx, preview>>

\* The next step of the order's open transaction.
TxStep(o) ==
    \/ LockMaster(o) \/ AcceptCommit(o) \/ AssignCommit(o)
    \/ DispatchOffer(o) \/ DispatchExhaust(o) \/ DispatchDefer(o)

OrderStep(o) ==
    \/ Create(o) \/ Publish(o) \/ RetrySearch(o)
    \/ DispatchSelect(o) \/ TxStep(o) \/ Rollback(o)
    \/ CancelByMaster(o) \/ CancellationPreview(o) \/ Cancel(o)
    \/ OnWay(o) \/ OnSite(o) \/ Complete(o) \/ AcceptResult(o)

MasterStep(o, m) ==
    OfferLapses(o, m) \/ DeclineOffer(o, m) \/ AcceptBegin(o, m) \/ AssignBegin(o, m)

QuoteStep(o, v) ==
    Approve(o, v) \/ Start(o, v) \/ \E q \in Quotes : Propose(o, q, v)

Next ==
    \/ \E o \in Orders : OrderStep(o)
    \/ \E o \in Orders, m \in Masters : MasterStep(o, m)
    \/ \E o \in Orders, v \in Versions : QuoteStep(o, v)
    \/ \E m \in Masters, s \in Standings : ChangeStanding(m, s)

Spec == Init /\ [][Next]_vars

-----------------------------------------------------------------------------
(* Fairness. The recovery cron calls dispatch every minute however often an *)
(* accept or an assignment gets in first (strong fairness); an open         *)
(* transaction goes on and deadlines pass (weak fairness). Nobody is        *)
(* obliged to accept, decline, cancel or publish.                           *)
Fairness ==
    \A o \in Orders :
        /\ SF_vars(DispatchSelect(o))
        /\ WF_vars(TxStep(o))
        /\ \A m \in Masters : WF_vars(OfferLapses(o, m))

FairSpec == Spec /\ Fairness

-----------------------------------------------------------------------------
(* Properties *)

(* A master is never held by two orders at once, whichever way they were    *)
(* assigned: "Занятость мастера защищается отдельной блокировкой". Accept   *)
(* and manual assignment of different orders race for the same User row.    *)
OneOrderPerMaster ==
    \A o, p \in Orders, m \in Masters : Occupies(o, m) /\ Occupies(p, m) => o = p

(* Nor do two orders compete for one master's thirty seconds: dispatch of   *)
(* two orders never leaves a master with two live offers.                   *)
OneLiveOfferPerMaster ==
    \A o, p \in Orders, a, b \in Attempts, m \in Masters :
        offer[o][a][m] = "LIVE" /\ offer[p][b][m] = "LIVE" => o = p /\ a = b

(* One master at a time is asked about an order, only while it is searched  *)
(* for, only in its current attempt: nothing stale is left to accept.       *)
OnePendingOfferPerOrder ==
    \A o \in Orders, a, b \in Attempts, m, n \in Masters :
        offer[o][a][m] \in Pending =>
            /\ order[o].status = "SEARCHING"
            /\ a = order[o].searchAttempt
            /\ offer[o][b][n] \in Pending => a = b /\ m = n

(* Of the masters asked in one attempt one accepts, and who has accepted an *)
(* order, though he has stepped back since, is not asked about it again in  *)
(* any later attempt, nor accepts it a second time.                         *)
AcceptedOnce ==
    \A o \in Orders, a, b \in Attempts, m, n \in Masters :
        offer[o][a][m] = "ACCEPTED" =>
            /\ offer[o][b][m] \notin Pending
            /\ offer[o][b][n] = "ACCEPTED" => (a = b <=> m = n)

(* Together: at any time one master is asked, in an attempt one accepts,    *)
(* and in each attempt another one, whatever retries and withdrawals.       *)
OneAnswerAtATime == OnePendingOfferPerOrder /\ AcceptedOnce

(* Work that has started is work on a quote whose current version the       *)
(* client approved, however quotes, approvals and starts were interleaved   *)
(* or repeated.                                                             *)
WorkIsConsented ==
    \A o \in Orders :
        order[o].workStartedAt =>
            /\ order[o].consentedVersion = order[o].quoteVersion
            /\ order[o].quoteVersion > 0
            /\ order[o].quote # NoQuote

(* The price a client consented to cannot move under it: a new payload is a *)
(* new version without consent, and there is none once work has started.    *)
ConsentBindsQuote ==
    [][\A o \in Orders :
        order'[o].quote # order[o].quote =>
            /\ order'[o].quoteVersion = order[o].quoteVersion + 1
            /\ order'[o].consentedVersion = 0
            /\ ~order[o].workStartedAt]_vars

(* SKIP LOCKED is contention, not exhaustion: a search is given up only     *)
(* when no master was eligible at that moment, and no offer is open.        *)
ExhaustionIsReal ==
    [][\A o \in Orders :
        order[o].status = "SEARCHING" /\ order'[o].status = "NO_MASTERS" =>
            \A m \in Masters : ~Eligible(o, m) /\ CurrentOffers(o)[m] # "LIVE"]_vars

(* An answered offer keeps its answer: no late timeout, dispatch or         *)
(* cancellation rewrites ACCEPTED, LOST or EXPIRED.                         *)
AnswersAreFinal ==
    [][\A o \in Orders, a \in Attempts, m \in Masters :
        offer[o][a][m] \in {"ACCEPTED", "LOST", "EXPIRED"} =>
            offer'[o][a][m] = offer[o][a][m]]_vars

(* "Нельзя незаметно согласиться на 2500 вместо показанного 0": the amount  *)
(* an order is cancelled with is the one the client was last shown, even    *)
(* when the master departs between preview and confirmation.                *)
CancelledAsShown ==
    [][\A o \in Orders :
        order'[o].status = "CANCELLED_BY_CLIENT" /\ order[o].status # "CANCELLED_BY_CLIENT" =>
            /\ order'[o].cancellationAmount = preview[o].amount
            /\ order'[o].cancellationAmount = 2500 <=> order[o].departedAt]_vars

(* A search does not hang: once crashes stop and masters stop coming and    *)
(* going, every SEARCHING order is in the end assigned, cancelled or        *)
(* answered NO_MASTERS, even if dispatch of another order keeps locking the *)
(* master it waits for.                                                     *)
Settled == <>[][UNCHANGED standing /\ \A o \in Orders : ~Rollback(o)]_vars

SearchEnds ==
    Settled =>
        \A o \in Orders : order[o].status = "SEARCHING" ~> order[o].status # "SEARCHING"

-----------------------------------------------------------------------------
(* Why they hold: the invariants the steps preserve.                       *)

\* A transaction is open only on a searched order and locks only real masters.
TxSound ==
    \A o \in Orders :
        /\ tx[o].op # "none" => order[o].status = "SEARCHING"
        /\ tx[o].op \in {"accept", "assign"} => tx[o].master \in Masters
        /\ tx[o].locked => tx[o].op # "none" /\ tx[o].master \in Masters

\* A User row has one holder, and what an assignment read under the lock of it
\* is still true when the assignment commits.
LocksExclude ==
    /\ \A o, p \in Orders :
          tx[o].locked /\ tx[p].locked /\ tx[o].master = tx[p].master => o = p
    /\ \A o \in Orders :
          tx[o].locked /\ tx[o].op \in {"accept", "assign"} => ~Busy(tx[o].master)

\* What dispatch found while choosing a master, and accept under his lock, is
\* still so when they write: nobody else writes offers of the order meanwhile,
\* or a live offer to a master whose row is locked.
OffersClaimed ==
    \A o \in Orders :
        /\ tx[o].op = "dispatch" => Unanswered(o)
        /\ tx[o].op = "dispatch" /\ tx[o].locked =>
              /\ CurrentOffers(o)[tx[o].master] = "NONE"
              /\ \A p \in Orders, a \in Attempts : offer[p][a][tx[o].master] # "LIVE"
        /\ tx[o].op = "accept" /\ tx[o].locked => CurrentOffers(o)[tx[o].master] \in Pending

\* An accept is of the current attempt at the latest, and of an earlier one while
\* the order is searched for; whom dispatch has claimed has not accepted before.
Early == {"NONE", "CREATED", "SEARCHING"}
AcceptsPast ==
    \A o \in Orders, a \in Attempts, m \in Masters :
        offer[o][a][m] = "ACCEPTED" =>
            /\ a <= order[o].searchAttempt
            /\ order[o].status \in Early => a # order[o].searchAttempt
            /\ tx[o].op = "dispatch" /\ tx[o].locked => tx[o].master # m

\* Work is marked started only on the way out, and consent covers the current
\* version from the approval on.
Consented(row) ==
    /\ row.workStartedAt => row.status \in AfterStart
    /\ row.status \in AfterStart \cup {"PRICE_APPROVED"} =>
          /\ row.consentedVersion = row.quoteVersion
          /\ row.quoteVersion > 0
          /\ row.quote # NoQuote

ConsentCovers == \A o \in Orders : Consented(order[o])

-----------------------------------------------------------------------------
(* Refinement: the rows seen as bookings.                                  *)

PhaseOf(row) ==
    CASE row.status = "NONE" -> "idle"
      [] row.status \in {"CREATED", "SEARCHING", "NO_MASTERS"} -> "open"
      [] row.status = "ACCEPTED" -> "booked"
      [] row.status \in (ActiveMaster \ {"ACCEPTED"}) \cup {"DONE"} -> "underway"
      [] row.status \in {"CLOSED", "CANCELLED_BY_CLIENT"} -> "over"

ServerOf(row) ==
    IF row.status \in ActiveMaster \cup {"DONE"} THEN row.masterId ELSE NoMaster

Bookings == INSTANCE Booking WITH
    phase <- [o \in Orders |-> PhaseOf(order[o])],
    server <- [o \in Orders |-> ServerOf(order[o])]

(* Everything the rows go through, with dispatch, contention and rollbacks, *)
(* is a behaviour of Booking: exclusive, final, no way back after departure. *)
ImplementsBooking == Bookings!Spec
=============================================================================
