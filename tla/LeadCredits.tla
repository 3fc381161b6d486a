---------------------------- MODULE LeadCredits ----------------------------
(***************************************************************************)
(* The lead credits of one master: LeadCreditsService sells packages, a    *)
(* bid spends a credit, the cancellation of a client returns it, and       *)
(* MasterPenaltyService fines the master for each order he cancels and     *)
(* blocks him at the third. Every transaction that touches the account     *)
(* locks its row until it commits. Thirty days of cancellations and seven  *)
(* days of a block are taken to be in force throughout.                    *)
(***************************************************************************)
EXTENDS Integers, FiniteSets

CONSTANTS
    Purchases,       \* purchases the master may make
    CreditBids,      \* bids he may place
    Cancelled,       \* orders he may cancel, urgent or planned
    LostDisputes,    \* disputes that may be resolved with a penalty
    PackCredits,     \* credits of a package
    PenaltyCredits,  \* PENALTY_CREDITS
    BlockThreshold,  \* CANCELLATION_BLOCK_THRESHOLD
    NoHolder

ASSUME CreditBounds ==
    /\ IsFiniteSet(Cancelled) /\ IsFiniteSet(LostDisputes)
    /\ PackCredits \in Nat /\ PenaltyCredits \in Nat /\ BlockThreshold \in Nat \ {0}
    /\ NoHolder \notin Cancelled

VARIABLES
    balance,        \* LeadCreditAccount.balance, 0 where there is no row
    purchase,       \* LeadCreditPurchase.status; in lower case it is PENDING: the answer
                    \* is there but not written, or nobody will write it any more
    taken,          \* purchases the provider has charged, which only it knows
    spend,          \* per bid: no row, SPEND, REFUND
    fined,          \* disputes resolved with a penalty
    cancellations,  \* MasterCancellation rows
    seen,           \* per order: the cancellations counted by its transaction
    holder,         \* the cancelling transaction that has locked the account
    masterBlocked   \* blockedUntil is in the future

creditVars == <<balance, purchase, taken, spend, fined, cancellations, seen, holder, masterBlocked>>
saleVars == <<purchase, taken>>
penaltyVars == <<fined, cancellations, seen, holder, masterBlocked>>

CreditTypeOK ==
    /\ balance \in Int
    /\ purchase \in [Purchases -> {"NONE", "PENDING", "charged", "declined", "stuck", "SUCCEEDED", "FAILED"}]
    /\ taken \subseteq Purchases
    /\ spend \in [CreditBids -> {"NONE", "SPEND", "REFUND"}]
    /\ fined \subseteq LostDisputes /\ cancellations \subseteq Cancelled
    /\ seen \in [Cancelled -> Nat]
    /\ holder \in Cancelled \cup {NoHolder}
    /\ masterBlocked \in BOOLEAN

CreditInit ==
    /\ balance = 0
    /\ purchase = [p \in Purchases |-> "NONE"]
    /\ taken = {}
    /\ spend = [b \in CreditBids |-> "NONE"]
    /\ fined = {} /\ cancellations = {} /\ seen = [o \in Cancelled |-> 0] /\ holder = NoHolder
    /\ masterBlocked = FALSE

AccountFree == holder = NoHolder

-----------------------------------------------------------------------------
(* purchase: a PENDING row, the provider, and then one transaction *)

BuyPackage(p) ==
    /\ purchase[p] = "NONE"
    /\ purchase' = [purchase EXCEPT ![p] = "PENDING"]
    /\ UNCHANGED <<balance, taken, spend, penaltyVars>>

Charge(p) ==
    /\ purchase[p] = "PENDING"
    /\ \/ taken' = taken \cup {p} /\ purchase' = [purchase EXCEPT ![p] = "charged"]
       \/ UNCHANGED taken /\ purchase' = [purchase EXCEPT ![p] = "declined"]
    /\ UNCHANGED <<balance, spend, penaltyVars>>

SettlePurchase(p) ==
    /\ AccountFree
    /\ \/ /\ purchase[p] = "charged"
          /\ purchase' = [purchase EXCEPT ![p] = "SUCCEEDED"]
          /\ balance' = balance + PackCredits
       \/ /\ purchase[p] = "declined"
          /\ purchase' = [purchase EXCEPT ![p] = "FAILED"]
          /\ UNCHANGED balance
    /\ UNCHANGED <<taken, spend, penaltyVars>>

\* The provider throws, or the process dies, before or after the money is taken.
PurchaseDies(p) ==
    /\ purchase[p] \in {"PENDING", "charged", "declined"}
    /\ purchase' = [purchase EXCEPT ![p] = "stuck"]
    /\ UNCHANGED <<balance, taken, spend, penaltyVars>>

-----------------------------------------------------------------------------
(* Bids and refunds *)

\* updateMany where balance >= 1
HasCredit == balance >= 1

\* placeBid: the credit, the bid and the SPEND row together; the bid is unique.
Spend(b) ==
    /\ AccountFree
    /\ HasCredit /\ spend[b] = "NONE"
    /\ spend' = [spend EXCEPT ![b] = "SPEND"]
    /\ balance' = balance - 1
    /\ UNCHANGED <<saleVars, penaltyVars>>

\* cancelByClient after a selection
Refund(b) ==
    /\ AccountFree
    /\ spend[b] = "SPEND"
    /\ spend' = [spend EXCEPT ![b] = "REFUND"]
    /\ balance' = balance + 1
    /\ UNCHANGED <<saleVars, penaltyVars>>

-----------------------------------------------------------------------------
(* Penalties: of a lost dispute, and of a cancellation by the master *)

\* applyPenalty in the transaction of DisputesService.resolve
Fine(d) ==
    /\ AccountFree
    /\ d \notin fined
    /\ fined' = fined \cup {d}
    /\ balance' = balance - PenaltyCredits
    /\ UNCHANGED <<saleVars, spend, cancellations, seen, holder, masterBlocked>>

BugPenaltyWithoutLock(o) == o \notin cancellations /\ seen[o] = 0
\* applyPenalty comes first: its upsert locks the account.
PenaltyStarts(o) == AccountFree /\ o \notin cancellations

\* The transaction inserts its own row and counts the committed ones with it.
\* Whoever else would count waits for the account.
CountCancellations(o) ==
    /\ PenaltyStarts(o)
    /\ holder' = o
    /\ seen' = [seen EXCEPT ![o] = Cardinality(cancellations) + 1]
    /\ UNCHANGED <<balance, saleVars, spend, fined, cancellations, masterBlocked>>

BlocksMaster(o) == seen[o] >= BlockThreshold

CommitPenalty(o) ==
    /\ seen[o] > 0 /\ o \notin cancellations
    /\ cancellations' = cancellations \cup {o}
    /\ balance' = balance - PenaltyCredits
    /\ masterBlocked' = (masterBlocked \/ BlocksMaster(o))
    /\ holder' = NoHolder
    /\ UNCHANGED <<saleVars, spend, fined, seen>>

PenaltyRollsBack(o) ==
    /\ seen[o] > 0 /\ o \notin cancellations
    /\ seen' = [seen EXCEPT ![o] = 0]
    /\ holder' = NoHolder
    /\ UNCHANGED <<balance, saleVars, spend, fined, cancellations, masterBlocked>>

-----------------------------------------------------------------------------
CreditNext ==
    \/ \E p \in Purchases : BuyPackage(p) \/ Charge(p) \/ SettlePurchase(p) \/ PurchaseDies(p)
    \/ \E b \in CreditBids : Spend(b) \/ Refund(b)
    \/ \E d \in LostDisputes : Fine(d)
    \/ \E o \in Cancelled : CountCancellations(o) \/ CommitPenalty(o) \/ PenaltyRollsBack(o)

CreditSpec == CreditInit /\ [][CreditNext]_creditVars

-----------------------------------------------------------------------------
(* Properties *)

\* A credit is spent only where there is one, so the account is overdrawn by
\* penalties alone, whatever bids, refunds and purchases run beside each other.
OnlyPenaltiesOverdraw ==
    balance + PenaltyCredits * (Cardinality(cancellations) + Cardinality(fined)) >= 0

\* The third cancellation blocks the master, also when he cancels orders at the
\* same moment: the penalty, which comes first, makes the countings take turns.
ThirdCancellationBlocks == Cardinality(cancellations) >= BlockThreshold => masterBlocked

\* LeadCreditTransaction: what its rows of one type add up to, a refunded bid to 0.
Sold == {p \in Purchases : purchase[p] = "SUCCEEDED"}
Spent == {b \in CreditBids : spend[b] = "SPEND"}

\* The balance is the sum of the ledger, whatever purchase died on the way, was
\* declined or is still open, and whichever cancellation was rolled back.
BalanceIsLedger ==
    balance = PackCredits * Cardinality(Sold) - Cardinality(Spent)
                - PenaltyCredits * (Cardinality(cancellations) + Cardinality(fined))

\* All three: what the transactions of the account are serialised for.
AccountIsSound == OnlyPenaltiesOverdraw /\ ThirdCancellationBlocks /\ BalanceIsLedger
=============================================================================
