------------------------------- MODULE Wallet -------------------------------
(***************************************************************************)
(* Masters' money in the PAID_MOCK mode: CompensationService credits the   *)
(* callout of a closed order, WalletService reserves a withdrawal, calls   *)
(* the payment provider outside any transaction and writes the answer,     *)
(* and operators reconcile withdrawals whose answer is unknown.            *)
(***************************************************************************)
EXTENDS Integers, FiniteSetsExt

CONSTANTS
    Orders,         \* urgent orders of lifecycleVersion 1, all DONE at first
    Masters,
    MasterOf,       \* [Orders -> Masters]
    CalloutOf,      \* [Orders -> Nat]: calloutPrice - serviceFee
    Withdrawals,    \* the requests that may be made
    RequesterOf,    \* [Withdrawals -> Masters]
    AmountOf,       \* [Withdrawals -> Nat \ {0}]
    Results,        \* what payout() can end with
    Operators,
    NoWithdrawal

ASSUME DataAssumption ==
    /\ MasterOf \in [Orders -> Masters] /\ CalloutOf \in [Orders -> Nat]
    /\ RequesterOf \in [Withdrawals -> Masters] /\ AmountOf \in [Withdrawals -> Nat \ {0}]
ASSUME ResultsAssumption == Results \subseteq {"SUCCEEDED", "FAILED", "THROWN"}
ASSUME NoWithdrawalAssumption == NoWithdrawal \notin Withdrawals

VARIABLES
    closed,       \* orders that are CLOSED
    deciding,     \* orders the transaction of a dispute resolution has read as DONE
    accrued,      \* orders with an Accrual row
    balance,      \* MasterWalletAccount.balance, 0 where there is no row
    phone,        \* masters with a payoutPhone
    status,       \* WithdrawalRequest.status, NONE where there is no row
    call,         \* where the request() handler of a withdrawal is
    left,         \* whether the money has left, which only the bank knows
    desk,         \* the withdrawal an operator has read as ERROR
    audit         \* AuditLog rows of reconciliations

vars == <<closed, deciding, accrued, balance, phone, status, call, left, desk, audit>>
orderVars == <<closed, deciding, accrued>>
requestVars == <<phone, status, call, left>>
operatorVars == <<desk, audit>>

Status == {"NONE", "PENDING", "PAID", "FAILED", "ERROR"}
Resolution == {"PAID", "FAILED"}
Entry == [actor : Operators, target : Withdrawals, outcome : Resolution]

TypeOK ==
    /\ closed \subseteq Orders /\ deciding \subseteq Orders /\ accrued \subseteq Orders
    /\ balance \in [Masters -> Nat]
    /\ phone \subseteq Masters
    /\ status \in [Withdrawals -> Status]
    /\ call \in [Withdrawals -> {"none", "paying"} \cup Results]
    /\ left \in [Withdrawals -> BOOLEAN]
    /\ desk \in [Operators -> Withdrawals \cup {NoWithdrawal}]
    /\ audit \subseteq Entry

Init ==
    /\ closed = {} /\ deciding = {} /\ accrued = {}
    /\ balance = [m \in Masters |-> 0]
    /\ phone = {}
    /\ status = [w \in Withdrawals |-> "NONE"]
    /\ call = [w \in Withdrawals |-> "none"]
    /\ left = [w \in Withdrawals |-> FALSE]
    /\ desk = [p \in Operators |-> NoWithdrawal]
    /\ audit = {}

-----------------------------------------------------------------------------
(* Accrual *)

BugAccrueAgain(o) ==
    /\ accrued' = accrued \cup {o}
    /\ balance' = [balance EXCEPT ![MasterOf[o]] = @ + CalloutOf[o]]

\* accrueCallout: the unique orderId lets only the first row in, and only a new
\* row is credited.
Accrue(o) ==
    /\ accrued' = accrued \cup {o}
    /\ balance' = IF o \in accrued THEN balance
                  ELSE [balance EXCEPT ![MasterOf[o]] = @ + CalloutOf[o]]

\* closeOrder: the client confirms, or autoclose does (for an order without an
\* open dispute, which only narrows when it can happen).
CloseOrder(o) ==
    /\ o \notin closed
    /\ closed' = closed \cup {o}
    /\ Accrue(o)
    /\ UNCHANGED <<deciding, requestVars, operatorVars>>

\* A dispute resolution reads DONE without a lock, and then writes CLOSED where
\* the status is still DONE and accrues whatever it is by now.
DisputeReads(o) ==
    /\ o \notin closed \cup deciding
    /\ deciding' = deciding \cup {o}
    /\ UNCHANGED <<closed, accrued, balance, requestVars, operatorVars>>

DisputeResolves(o) ==
    /\ o \in deciding
    /\ deciding' = deciding \ {o}
    /\ closed' = closed \cup {o}
    /\ Accrue(o)
    /\ UNCHANGED <<requestVars, operatorVars>>

-----------------------------------------------------------------------------
(* Withdrawal *)

SetPayoutAccount(m) ==
    /\ phone' = phone \cup {m}
    /\ UNCHANGED <<orderVars, balance, status, call, left, operatorVars>>

BugNoBalanceCheck(w) == TRUE
\* updateMany ... where balance >= amount: the check is in the statement.
CanSpend(w) == balance[RequesterOf[w]] >= AmountOf[w]

\* request up to the end of its first transaction: the amount is reserved.
Request(w) ==
    /\ status[w] = "NONE"
    /\ RequesterOf[w] \in phone
    /\ CanSpend(w)
    /\ balance' = [balance EXCEPT ![RequesterOf[w]] = @ - AmountOf[w]]
    /\ status' = [status EXCEPT ![w] = "PENDING"]
    /\ call' = [call EXCEPT ![w] = "paying"]
    /\ UNCHANGED <<orderVars, phone, left, operatorVars>>

\* The provider pays, refuses, or answers with an exception, after which the
\* money may have left or not.
Payout(w, result) ==
    /\ call[w] = "paying"
    /\ call' = [call EXCEPT ![w] = result]
    /\ \E gone \in BOOLEAN :
          /\ result = "SUCCEEDED" => gone
          /\ result = "FAILED" => ~gone
          /\ left' = [left EXCEPT ![w] = gone]
    /\ UNCHANGED <<orderVars, balance, phone, status, operatorVars>>

Refunded(w) == [balance EXCEPT ![RequesterOf[w]] = @ + AmountOf[w]]

\* The second transaction: PAID, or FAILED and the amount back.
WriteAnswer(w) ==
    /\ call[w] \in {"SUCCEEDED", "FAILED"}
    /\ IF call[w] = "SUCCEEDED"
       THEN status' = [status EXCEPT ![w] = "PAID"] /\ UNCHANGED balance
       ELSE status' = [status EXCEPT ![w] = "FAILED"] /\ balance' = Refunded(w)
    /\ call' = [call EXCEPT ![w] = "none"]
    /\ UNCHANGED <<orderVars, phone, left, operatorVars>>

BugRefundUnknown(w) ==
    /\ status' = [status EXCEPT ![w] = "FAILED"]
    /\ balance' = Refunded(w)

\* The answer is unknown: the amount stays reserved for an operator to decide.
Suspend(w) ==
    /\ status' = [status EXCEPT ![w] = "ERROR"]
    /\ UNCHANGED balance

WriteError(w) ==
    /\ call[w] = "THROWN"
    /\ Suspend(w)
    /\ call' = [call EXCEPT ![w] = "none"]
    /\ UNCHANGED <<orderVars, phone, left, operatorVars>>

\* The process dies, or the database refuses the write that follows the call.
Die(w) ==
    /\ call[w] # "none"
    /\ call' = [call EXCEPT ![w] = "none"]
    /\ \E gone \in BOOLEAN :
          /\ call[w] # "paying" => gone = left[w]
          /\ left' = [left EXCEPT ![w] = gone]
    /\ UNCHANGED <<orderVars, balance, phone, status, operatorVars>>

-----------------------------------------------------------------------------
(* Reconciliation *)

\* resolveError reads the withdrawal outside the transaction.
OpenError(p, w) ==
    /\ desk[p] = NoWithdrawal
    /\ status[w] = "ERROR"
    /\ desk' = [desk EXCEPT ![p] = w]
    /\ UNCHANGED <<orderVars, balance, requestVars, audit>>

BugStaleResolve(w) == status[w] \in {"ERROR", "PAID", "FAILED"}
\* updateMany ... where status = ERROR: a second operator gets 409.
StillError(w) == status[w] = "ERROR"

Resolve(p, outcome) ==
    LET w == desk[p]
    IN  /\ w # NoWithdrawal
        /\ desk' = [desk EXCEPT ![p] = NoWithdrawal]
        /\ IF StillError(w)
           THEN /\ status' = [status EXCEPT ![w] = outcome]
                /\ balance' = IF outcome = "FAILED" THEN Refunded(w) ELSE balance
                /\ audit' = audit \cup {[actor |-> p, target |-> w, outcome |-> outcome]}
           ELSE UNCHANGED <<status, balance, audit>>
        /\ UNCHANGED <<orderVars, phone, call, left>>

-----------------------------------------------------------------------------
OrderStep(o) == CloseOrder(o) \/ DisputeReads(o) \/ DisputeResolves(o)

\* What the request() handler does by itself once it has begun.
Handler(w) == (\E r \in Results : Payout(w, r)) \/ WriteAnswer(w) \/ WriteError(w)

Next ==
    \/ \E o \in Orders : OrderStep(o)
    \/ \E m \in Masters : SetPayoutAccount(m)
    \/ \E w \in Withdrawals : Request(w) \/ Handler(w) \/ Die(w)
    \/ \E p \in Operators, w \in Withdrawals : OpenError(p, w)
    \/ \E p \in Operators, outcome \in Resolution : Resolve(p, outcome)

Spec == Init /\ [][Next]_vars

(* A handler that is neither killed nor refused by the database goes on, and *)
(* operators who have opened a withdrawal decide about it.                 *)
FairSpec ==
    /\ Spec
    /\ \A w \in Withdrawals : WF_vars(Handler(w))
    /\ \A p \in Operators : WF_vars(\E outcome \in Resolution : Resolve(p, outcome))

-----------------------------------------------------------------------------
(* Properties *)

\* What makes them inductive: a handler works on a PENDING request, and what it
\* was told is what the bank did.
HandlersSound ==
    \A w \in Withdrawals :
        /\ call[w] # "none" => status[w] = "PENDING"
        /\ call[w] = "SUCCEEDED" => left[w]
        /\ call[w] = "FAILED" => ~left[w]

Earned(m) == MapThenSumSet(LAMBDA o : CalloutOf[o], {o \in accrued : MasterOf[o] = m})
Reserved(m) ==
    MapThenSumSet(LAMBDA w : AmountOf[w],
        {w \in Withdrawals : RequesterOf[w] = m /\ status[w] \in {"PENDING", "ERROR", "PAID"}})

\* What the bank has paid out, without what an operator has taken for a failure.
GivenBack(w) == \E e \in audit : e.target = w /\ e.outcome = "FAILED"
PaidByBank(m) ==
    MapThenSumSet(LAMBDA w : AmountOf[w],
        {w \in Withdrawals : RequesterOf[w] = m /\ left[w] /\ ~GivenBack(w)})

(* What a master has earned is on the balance, reserved, or paid out, and  *)
(* the bank never pays him more than he has earned, an operator's mistake  *)
(* apart: no tenge appears or disappears, whatever double closings, crashes *)
(* between the two transactions and rival operators do.                    *)
BooksBalance == \A m \in Masters : balance[m] + Reserved(m) = Earned(m)
BankPaysTheEarned == \A m \in Masters : PaidByBank(m) <= Earned(m)
Conservation == BooksBalance /\ BankPaysTheEarned

(* "Переход разрешён только из ERROR": two operators with the same request *)
(* open leave one audit entry, and the status is what that entry says.     *)
ResolvedOnce ==
    \A e, f \in audit :
        /\ e.target = f.target => e = f
        /\ status[e.target] = e.outcome

(* An answer nobody reconciled is the bank's: never PAID without the money *)
(* having left, never given back ("чтобы не рисковать двойной выплатой")   *)
(* after it has.                                                           *)
UnreviewedAnswersAreTrue ==
    \A w \in Withdrawals :
        status[w] \in Resolution /\ (\A e \in audit : e.target # w) =>
            (status[w] = "PAID" <=> left[w])

(* "Заявка не должна тихо висеть в PENDING": a withdrawal that was asked   *)
(* for gets an answer or becomes visible as ERROR.                         *)
NoSilentPending ==
    \A w \in Withdrawals : status[w] = "PENDING" ~> status[w] # "PENDING"
=============================================================================
