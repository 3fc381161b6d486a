------------------------- MODULE DirectOrdersProofs -------------------------
(* Theorems about DirectOrders for any orders, masters, quotes and bounds. *)
EXTENDS DirectOrders, TLAPS

-----------------------------------------------------------------------------
(* Type correctness *)

(* A row stays a row when a column gets a value of its domain; handlers     *)
(* write the status and then other columns.                                *)
LEMMA StatusField ==
    ASSUME NEW r \in Row, NEW s \in Status
    PROVE  [r EXCEPT !.status = s] \in Row
BY DEF Row

LEMMA MasterField ==
    ASSUME NEW r \in Row, NEW m \in Masters \cup {NoMaster}
    PROVE  [r EXCEPT !.masterId = m] \in Row
BY DEF Row

LEMMA AttemptField ==
    ASSUME NEW r \in Row, NEW a \in Attempts
    PROVE  [r EXCEPT !.searchAttempt = a] \in Row
BY DEF Row

LEMMA FlagField ==
    ASSUME NEW r \in Row, NEW b \in BOOLEAN
    PROVE  /\ [r EXCEPT !.departedAt = b] \in Row
           /\ [r EXCEPT !.onSiteAt = b] \in Row
           /\ [r EXCEPT !.workStartedAt = b] \in Row
BY DEF Row

LEMMA QuoteField ==
    ASSUME NEW r \in Row, NEW q \in Quotes
    PROVE  [r EXCEPT !.quote = q] \in Row
BY DEF Row

LEMMA VersionField ==
    ASSUME NEW r \in Row, NEW v \in Versions
    PROVE  /\ [r EXCEPT !.quoteVersion = v] \in Row
           /\ [r EXCEPT !.consentedVersion = v] \in Row
BY DEF Row

(* The statuses the handlers write.                                        *)
LEMMA StatusDomain ==
    /\ {"CREATED", "SEARCHING", "NO_MASTERS", "ACCEPTED", "MASTER_ON_WAY"} \subseteq Status
    /\ {"INSPECTION", "AWAITING_PRICE_CONFIRM", "PRICE_APPROVED"} \subseteq Status
    /\ {"IN_PROGRESS", "DONE", "CLOSED", "CANCELLED_BY_CLIENT"} \subseteq Status
BY DEF Status, ActiveClient, ActiveMaster

(* What Write does to the two tables it touches.                           *)
LEMMA WriteType ==
    ASSUME TypeOK, NEW o \in Orders, NEW row \in Row, Write(o, row)
    PROVE  order' \in [Orders -> Row] /\ preview' \in [Orders -> Preview]
BY DEF TypeOK, Write, Preview, Outdated

(* Settling offers keeps the table of offers well formed.                  *)
LEMMA SettleType ==
    ASSUME TypeOK, NEW o \in Orders, NEW outcome \in Outcome
    PROVE  /\ SettleAttempt(o, outcome) \in [Orders -> [Attempts -> [Masters -> Outcome]]]
           /\ SettleOffers(o, outcome) \in [Orders -> [Attempts -> [Masters -> Outcome]]]
<1>1. order[o].searchAttempt \in Attempts
  BY DEF TypeOK, Row
<1>2. SettleAttempt(o, outcome) \in [Orders -> [Attempts -> [Masters -> Outcome]]]
  BY <1>1 DEF TypeOK, SettleAttempt
<1>3. SettleOffers(o, outcome) \in [Orders -> [Attempts -> [Masters -> Outcome]]]
  BY DEF TypeOK, SettleOffers
<1> QED
  BY <1>2, <1>3

(* A transaction that is ended, opened or moved on is well formed.         *)
LEMMA TxType ==
    ASSUME TypeOK, NEW o \in Orders, NEW t \in Tx, tx' = [tx EXCEPT ![o] = t]
    PROVE  tx' \in [Orders -> Tx]
BY DEF TypeOK

(* The row that accept and manual assignment write.                        *)
LEMMA AssignedType ==
    ASSUME TypeOK, NEW o \in Orders
    PROVE  AssignedRow(o) \in Row
<1>0. order[o] \in Row /\ tx[o].master \in Masters \cup {NoMaster}
  BY DEF TypeOK, Tx
<1>1. [order[o] EXCEPT !.status = "ACCEPTED"] \in Row
  BY <1>0, StatusDomain, StatusField
<1>2. [[order[o] EXCEPT !.status = "ACCEPTED"] EXCEPT !.masterId = tx[o].master] \in Row
  BY <1>0, <1>1, MasterField, Zenon
<1> QED
  BY <1>2 DEF AssignedRow

(* One offer of the table gets another outcome.                            *)
LEMMA OfferField ==
    ASSUME NEW f \in [Orders -> [Attempts -> [Masters -> Outcome]]],
           NEW o \in Orders, NEW a \in Attempts, NEW m, NEW x \in Outcome
    PROVE  [f EXCEPT ![o][a][m] = x] \in [Orders -> [Attempts -> [Masters -> Outcome]]]
<1>1. [f[o][a] EXCEPT ![m] = x] \in [Masters -> Outcome]
  OBVIOUS
<1>2. [f[o] EXCEPT ![a][m] = x] \in [Attempts -> [Masters -> Outcome]]
  BY <1>1
<1> QED
  BY <1>2

(* Every action of the order's own handlers keeps the types.               *)
LEMMA OrderStepType ==
    ASSUME TypeOK, NEW o \in Orders, OrderStep(o)
    PROVE  TypeOK'
<1> USE BoundsAssumption
<1> DEFINE row == order[o]
<1>0. /\ row \in Row /\ NoTx \in Tx /\ tx[o] \in Tx
      /\ preview[o] \in Preview
  BY DEF TypeOK, Tx, NoTx
<1>1. CASE Create(o)
  <2>1. [row EXCEPT !.status = "CREATED"] \in Row
    BY <1>0 DEF Row, Status, ActiveClient, ActiveMaster
  <2> QED  BY <1>1, <2>1, WriteType DEF Create, TypeOK
<1>2. CASE Publish(o)
  <2>1. [row EXCEPT !.status = "SEARCHING"] \in Row
    BY <1>0 DEF Row, Status, ActiveClient, ActiveMaster
  <2> QED  BY <1>2, <2>1, WriteType DEF Publish, TypeOK
<1>3. CASE RetrySearch(o)
  <2>1. [row EXCEPT !.status = "SEARCHING"] \in Row
    BY <1>0, StatusDomain, StatusField
  <2>2. row.searchAttempt + 1 \in Attempts
    BY <1>0, <1>3 DEF RetrySearch, Row, Attempts
  <2>3. [[row EXCEPT !.status = "SEARCHING"] EXCEPT !.searchAttempt = row.searchAttempt + 1] \in Row
    BY <2>1, <2>2, AttemptField, Zenon
  <2>4. [row EXCEPT !.status = "SEARCHING", !.searchAttempt = @ + 1] \in Row
    BY <1>0, <2>3
  <2> QED  BY <1>3, <2>4, WriteType DEF RetrySearch, TypeOK
<1>4. CASE DispatchSelect(o)
  <2>1. PICK t \in Tx : tx' = [tx EXCEPT ![o] = t]
    BY <1>4 DEF DispatchSelect, Tx
  <2> QED  BY <1>4, <2>1, TxType DEF DispatchSelect, TypeOK
<1>5. CASE TxStep(o)
  <2>1. CASE LockMaster(o)
    <3>1. [tx[o] EXCEPT !.locked = TRUE] \in Tx
      BY <1>0 DEF Tx
    <3>2. PICK t \in Tx : tx' = [tx EXCEPT ![o] = t]
      BY <1>0, <2>1, <3>1 DEF LockMaster
    <3> QED  BY <2>1, <3>2, TxType DEF LockMaster, TypeOK
  <2>2. CASE AcceptCommit(o)
    <3>1. AssignedRow(o) \in Row
      BY AssignedType
    <3>2. offer' \in [Orders -> [Attempts -> [Masters -> Outcome]]]
      <4>1. SettleAttempt(o, "LOST") \in [Orders -> [Attempts -> [Masters -> Outcome]]]
        BY SettleType DEF Outcome
      <4>2. order[o].searchAttempt \in Attempts /\ "ACCEPTED" \in Outcome
        BY <1>0 DEF Row, Outcome
      <4> QED
        BY <2>2, <4>1, <4>2, OfferField, Zenon DEF AcceptCommit
    <3> QED  BY <1>0, <2>2, <3>1, <3>2, WriteType, TxType DEF AcceptCommit, TypeOK
  <2>3. CASE AssignCommit(o)
    <3>1. AssignedRow(o) \in Row
      BY AssignedType
    <3>2. offer' \in [Orders -> [Attempts -> [Masters -> Outcome]]]
      BY <2>3, SettleType DEF AssignCommit, Outcome
    <3> QED  BY <1>0, <2>3, <3>1, <3>2, WriteType, TxType DEF AssignCommit, TypeOK
  <2>4. CASE DispatchOffer(o)
    <3>1. offer' \in [Orders -> [Attempts -> [Masters -> Outcome]]]
      <4>1. SettleAttempt(o, "EXPIRED") \in [Orders -> [Attempts -> [Masters -> Outcome]]]
        BY SettleType DEF Outcome
      <4>2. order[o].searchAttempt \in Attempts /\ "LIVE" \in Outcome
        BY <1>0 DEF Row, Outcome
      <4> QED
        BY <2>4, <4>1, <4>2, OfferField, Zenon DEF DispatchOffer
    <3> QED  BY <1>0, <2>4, <3>1, TxType DEF DispatchOffer, TypeOK
  <2>5. CASE DispatchExhaust(o)
    <3>1. [row EXCEPT !.status = "NO_MASTERS"] \in Row
      BY <1>0 DEF Row, Status, ActiveClient, ActiveMaster
    <3>2. offer' \in [Orders -> [Attempts -> [Masters -> Outcome]]]
      BY <2>5, SettleType DEF DispatchExhaust, Outcome
    <3> QED  BY <1>0, <2>5, <3>1, <3>2, WriteType, TxType DEF DispatchExhaust, TypeOK
  <2>6. CASE DispatchDefer(o)
    <3>1. offer' \in [Orders -> [Attempts -> [Masters -> Outcome]]]
      BY <2>6, SettleType DEF DispatchDefer, Outcome
    <3> QED  BY <1>0, <2>6, <3>1, TxType DEF DispatchDefer, TypeOK
  <2> QED  BY <1>5, <2>1, <2>2, <2>3, <2>4, <2>5, <2>6 DEF TxStep
<1>6. CASE Rollback(o)
  BY <1>0, <1>6, TxType DEF Rollback, TypeOK
<1>7. CASE CancelByMaster(o)
  <2>1. row.searchAttempt + 1 \in Attempts
    BY <1>0, <1>7 DEF CancelByMaster, Row, Attempts
  <2> DEFINE r1 == [row EXCEPT !.status = "SEARCHING"]
             r2 == [r1 EXCEPT !.masterId = NoMaster]
             r3 == [r2 EXCEPT !.departedAt = FALSE]
             r4 == [r3 EXCEPT !.onSiteAt = FALSE]
             r5 == [r4 EXCEPT !.searchAttempt = row.searchAttempt + 1]
  <2>2. r1 \in Row
    BY <1>0, StatusDomain, StatusField
  <2>3. r2 \in Row
    BY <2>2, MasterField, Zenon
  <2>4. r3 \in Row
    BY <2>3, FlagField, Zenon
  <2>5. r4 \in Row
    BY <2>4, FlagField, Zenon
  <2>6. r5 \in Row
    BY <2>1, <2>5, AttemptField, Zenon
  <2>7. [row EXCEPT !.status = "SEARCHING", !.masterId = NoMaster, !.departedAt = FALSE,
                    !.onSiteAt = FALSE, !.searchAttempt = @ + 1] \in Row
    BY <1>0, <2>6
  <2> QED  BY <1>7, <2>7, WriteType DEF CancelByMaster, TypeOK
<1>8. CASE CancellationPreview(o)
  BY <1>8 DEF CancellationPreview, CancellationAmount, TypeOK, Preview
<1>9. CASE Cancel(o)
  <2>1. [row EXCEPT !.status = "CANCELLED_BY_CLIENT",
                    !.cancellationAmount = CancellationAmount(o)] \in Row
    <3>1. [row EXCEPT !.status = "CANCELLED_BY_CLIENT"] \in Row
      BY <1>0, StatusDomain, StatusField
    <3>2. CancellationAmount(o) \in {0, 2500}
      BY DEF CancellationAmount
    <3>3. \A r \in Row : [r EXCEPT !.cancellationAmount = CancellationAmount(o)] \in Row
      BY <3>2 DEF Row
    <3>4. [[row EXCEPT !.status = "CANCELLED_BY_CLIENT"]
              EXCEPT !.cancellationAmount = CancellationAmount(o)] \in Row
      BY <3>1, <3>3, Zenon
    <3> QED  BY <1>0, <3>4
  <2>2. offer' \in [Orders -> [Attempts -> [Masters -> Outcome]]]
    BY <1>9, SettleType DEF Cancel, Outcome
  <2> QED  BY <1>9, <2>1, <2>2, WriteType DEF Cancel, TypeOK
<1>10. CASE OnWay(o)
  <2>1. [row EXCEPT !.status = "MASTER_ON_WAY", !.departedAt = TRUE] \in Row
    <3>1. [row EXCEPT !.status = "MASTER_ON_WAY"] \in Row
      BY <1>0, StatusDomain, StatusField
    <3>2. [[row EXCEPT !.status = "MASTER_ON_WAY"] EXCEPT !.departedAt = TRUE] \in Row
      BY <3>1, FlagField, Zenon
    <3> QED  BY <1>0, <3>2
  <2> QED  BY <1>10, <2>1, WriteType DEF OnWay, Change, TypeOK
<1>11. CASE OnSite(o)
  <2>1. [row EXCEPT !.status = "INSPECTION", !.onSiteAt = TRUE] \in Row
    <3>1. [row EXCEPT !.status = "INSPECTION"] \in Row
      BY <1>0, StatusDomain, StatusField
    <3>2. [[row EXCEPT !.status = "INSPECTION"] EXCEPT !.onSiteAt = TRUE] \in Row
      BY <3>1, FlagField, Zenon
    <3> QED  BY <1>0, <3>2
  <2> QED  BY <1>11, <2>1, WriteType DEF OnSite, Change, TypeOK
<1>12. CASE Complete(o)
  <2>1. [row EXCEPT !.status = "DONE"] \in Row
    BY <1>0 DEF Row, Status, ActiveClient, ActiveMaster
  <2> QED  BY <1>12, <2>1, WriteType DEF Complete, Change, TypeOK
<1>13. CASE AcceptResult(o)
  <2>1. [row EXCEPT !.status = "CLOSED"] \in Row
    BY <1>0 DEF Row, Status
  <2> QED  BY <1>13, <2>1, WriteType DEF AcceptResult, Change, TypeOK
<1> QED
  BY <1>1, <1>2, <1>3, <1>4, <1>5, <1>6, <1>7, <1>8, <1>9, <1>10, <1>11, <1>12, <1>13
     DEF OrderStep

(* So do the masters' steps, the quote steps and the changes of standing.  *)
LEMMA TypeStep == TypeOK /\ [Next]_vars => TypeOK'
<1> SUFFICES ASSUME TypeOK, [Next]_vars PROVE TypeOK'
  OBVIOUS
<1> USE BoundsAssumption
<1>1. CASE UNCHANGED vars
  BY <1>1 DEF vars, TypeOK
<1>2. ASSUME NEW o \in Orders, OrderStep(o) PROVE TypeOK'
  BY <1>2, OrderStepType
<1>3. ASSUME NEW o \in Orders, NEW m \in Masters, MasterStep(o, m) PROVE TypeOK'
  <2>1. CASE OfferLapses(o, m)
    <3>1. order[o].searchAttempt \in Attempts /\ "LAPSED" \in Outcome
      BY DEF TypeOK, Row, Outcome
    <3>2. offer' \in [Orders -> [Attempts -> [Masters -> Outcome]]]
      BY <2>1, <3>1, OfferField, Zenon DEF OfferLapses, TypeOK
    <3> QED  BY <2>1, <3>2 DEF OfferLapses, TypeOK
  <2>2. CASE DeclineOffer(o, m)
    <3>1. order[o].searchAttempt \in Attempts /\ "EXPIRED" \in Outcome
      BY DEF TypeOK, Row, Outcome
    <3>2. offer' \in [Orders -> [Attempts -> [Masters -> Outcome]]]
      BY <2>2, <3>1, OfferField, Zenon DEF DeclineOffer, TypeOK
    <3> QED  BY <2>2, <3>2 DEF DeclineOffer, TypeOK
  <2>3. CASE AcceptBegin(o, m)
    BY <2>3 DEF AcceptBegin, TypeOK, Tx
  <2>4. CASE AssignBegin(o, m)
    BY <2>4 DEF AssignBegin, TypeOK, Tx
  <2> QED  BY <1>3, <2>1, <2>2, <2>3, <2>4 DEF MasterStep
<1>4. ASSUME NEW o \in Orders, NEW v \in Versions, QuoteStep(o, v) PROVE TypeOK'
  <2>0. order[o] \in Row
    BY DEF TypeOK
  <2>1. CASE Approve(o, v)
    <3>1. [order[o] EXCEPT !.status = "PRICE_APPROVED", !.consentedVersion = v] \in Row
      <4>1. [order[o] EXCEPT !.status = "PRICE_APPROVED"] \in Row
        BY <2>0, StatusDomain, StatusField
      <4>2. [[order[o] EXCEPT !.status = "PRICE_APPROVED"] EXCEPT !.consentedVersion = v] \in Row
        BY <4>1, VersionField, Zenon
      <4> QED  BY <4>2
    <3> QED  BY <2>1, <3>1, WriteType DEF Approve, Change, TypeOK
  <2>2. CASE Start(o, v)
    <3>1. [order[o] EXCEPT !.status = "IN_PROGRESS", !.workStartedAt = TRUE] \in Row
      <4>1. [order[o] EXCEPT !.status = "IN_PROGRESS"] \in Row
        BY <2>0, StatusDomain, StatusField
      <4>2. [[order[o] EXCEPT !.status = "IN_PROGRESS"] EXCEPT !.workStartedAt = TRUE] \in Row
        BY <4>1, FlagField, Zenon
      <4> QED  BY <4>2
    <3> QED  BY <2>2, <3>1, WriteType DEF Start, Change, TypeOK
  <2>3. ASSUME NEW q \in Quotes, Propose(o, q, v) PROVE TypeOK'
    <3>1. QuotedRow(o, q) \in Row
      <4> DEFINE r1 == [order[o] EXCEPT !.status = "AWAITING_PRICE_CONFIRM"]
                 r2 == [r1 EXCEPT !.quote = q]
                 r3 == [r2 EXCEPT !.quoteVersion = order[o].quoteVersion + 1]
                 r4 == [r3 EXCEPT !.consentedVersion = 0]
      <4>1. order[o].quoteVersion + 1 \in Versions /\ 0 \in Versions
        BY <2>0, <2>3 DEF Propose, Row, Versions
      <4>2. r1 \in Row
        BY <2>0, StatusDomain, StatusField
      <4>3. r2 \in Row
        BY <4>2, QuoteField, Zenon
      <4>4. r3 \in Row
        BY <4>1, <4>3, VersionField, Zenon
      <4>5. r4 \in Row
        BY <4>1, <4>4, VersionField, Zenon
      <4> QED  BY <4>5 DEF QuotedRow
    <3> QED  BY <2>3, <3>1, WriteType DEF Propose, Change, TypeOK
  <2> QED  BY <1>4, <2>1, <2>2, <2>3 DEF QuoteStep
<1>5. ASSUME NEW m \in Masters, NEW s \in Standings, ChangeStanding(m, s) PROVE TypeOK'
  BY <1>5, StandingsAssumption DEF ChangeStanding, TypeOK, Standing
<1> QED
  BY <1>1, <1>2, <1>3, <1>4, <1>5 DEF Next

LEMMA TypeInit == Init => TypeOK
  BY BoundsAssumption DEF Init, TypeOK, NewRow, Row, Status, Attempts, Versions, Outcome, Tx, NoTx,
     Standing, Preview, Outdated

(* The rows, offers, transactions and previews are always well formed.     *)
THEOREM TypeCorrect == Spec => []TypeOK
  BY TypeInit, TypeStep, PTL DEF Spec

-----------------------------------------------------------------------------
(* Transactions *)

(* Opening, moving on and ending a transaction: TxSound survives a step that *)
(* touches one order if it holds of that order afterwards.                 *)
LEMMA TxSoundAt ==
    ASSUME TypeOK, TxSound, NEW o \in Orders,
           \A p \in Orders \ {o} : tx'[p] = tx[p] /\ order'[p].status = order[p].status,
           tx'[o].op # "none" => order'[o].status = "SEARCHING",
           tx'[o].op \in {"accept", "assign"} => tx'[o].master \in Masters,
           tx'[o].locked => tx'[o].op # "none" /\ tx'[o].master \in Masters
    PROVE  TxSound'
BY DEF TxSound

(* A row written while no transaction is open on its order, and the row an *)
(* ended transaction leaves behind.                                        *)
LEMMA TxSoundWrite ==
    ASSUME TypeOK, TxSound, NEW o \in Orders, NEW row, Write(o, row),
           \/ Free(o) /\ tx' = tx
           \/ tx' = [tx EXCEPT ![o] = NoTx]
    PROVE  TxSound'
<1>1. tx'[o].op = "none" /\ ~tx'[o].locked
  BY DEF TypeOK, TxSound, Free, NoTx
<1>2. \A p \in Orders \ {o} : tx'[p] = tx[p] /\ order'[p].status = order[p].status
  BY DEF TypeOK, Write
<1> QED
  BY <1>1, <1>2, TxSoundAt

(* The rows stay and the transaction of one order becomes t.               *)
LEMMA TxSoundMove ==
    ASSUME TypeOK, TxSound, NEW o \in Orders, NEW t, tx' = [tx EXCEPT ![o] = t], order' = order,
           t.op # "none" => order[o].status = "SEARCHING",
           t.op \in {"accept", "assign"} => t.master \in Masters,
           t.locked => t.op # "none" /\ t.master \in Masters
    PROVE  TxSound'
<1>1. \A p \in Orders \ {o} : tx'[p] = tx[p] /\ order'[p].status = order[p].status
  BY DEF TypeOK
<1>2. tx'[o] = t /\ order'[o] = order[o]
  BY DEF TypeOK
<1> QED
  BY <1>1, <1>2, TxSoundAt

LEMMA TxSoundStep == TypeOK /\ TxSound /\ [Next]_vars => TxSound'
<1> SUFFICES ASSUME TypeOK, TxSound, [Next]_vars PROVE TxSound'
  OBVIOUS
<1>1. CASE UNCHANGED vars
  BY <1>1 DEF vars, TxSound
<1>2. ASSUME NEW o \in Orders, OrderStep(o) PROVE TxSound'
  <2>1. CASE Create(o)
    <3>1. Free(o)
      BY <2>1 DEF Create, TxSound, Free
    <3> QED  BY <2>1, <3>1, TxSoundWrite DEF Create
  <2>2. CASE Publish(o) \/ RetrySearch(o) \/ CancelByMaster(o) \/ Cancel(o)
    BY <2>2, TxSoundWrite DEF Publish, RetrySearch, CancelByMaster, Cancel
  <2>3. CASE OnWay(o) \/ OnSite(o) \/ Complete(o) \/ AcceptResult(o)
    BY <2>3, TxSoundWrite DEF OnWay, OnSite, Complete, AcceptResult, Change
  <2>4. CASE CancellationPreview(o)
    BY <2>4 DEF CancellationPreview, TxSound
  <2>5. CASE DispatchSelect(o)
    <3>1. CASE \E m \in Masters :
                  tx' = [tx EXCEPT ![o] = [op |-> "dispatch", master |-> m, locked |-> TRUE]]
      <4>1. PICK m \in Masters :
                    tx' = [tx EXCEPT ![o] = [op |-> "dispatch", master |-> m, locked |-> TRUE]]
        BY <3>1
      <4> QED  BY <2>5, <4>1, TxSoundMove DEF DispatchSelect
    <3>2. CASE tx' = [tx EXCEPT ![o] = [op |-> "dispatch", master |-> NoMaster, locked |-> FALSE]]
      BY <2>5, <3>2, TxSoundMove DEF DispatchSelect
    <3> QED  BY <2>5, <3>1, <3>2 DEF DispatchSelect
  <2>6. CASE LockMaster(o)
    <3>1. CASE tx' = [tx EXCEPT ![o] = [tx[o] EXCEPT !.locked = TRUE]]
      <4> DEFINE t == [tx[o] EXCEPT !.locked = TRUE]
      <4>1. t.op = tx[o].op /\ t.master = tx[o].master
        BY DEF TypeOK, Tx
      <4>2. tx[o].master \in Masters /\ order[o].status = "SEARCHING" /\ tx[o].op # "none"
        BY <2>6 DEF LockMaster, TxSound
      <4> HIDE DEF t
      <4> QED  BY <2>6, <3>1, <4>1, <4>2, TxSoundMove DEF LockMaster, t
    <3>2. CASE tx' = [tx EXCEPT ![o] = NoTx]
      BY <2>6, <3>2, TxSoundMove DEF LockMaster, NoTx
    <3> QED  BY <2>6, <3>1, <3>2 DEF LockMaster
  <2>7. CASE AcceptCommit(o) \/ AssignCommit(o) \/ DispatchExhaust(o)
    BY <2>7, TxSoundWrite DEF AcceptCommit, AssignCommit, DispatchExhaust
  <2>8. CASE DispatchOffer(o) \/ DispatchDefer(o) \/ Rollback(o)
    BY <2>8, TxSoundMove DEF DispatchOffer, DispatchDefer, Rollback, NoTx
  <2> QED
    BY <1>2, <2>1, <2>2, <2>3, <2>4, <2>5, <2>6, <2>7, <2>8 DEF OrderStep, TxStep
<1>3. ASSUME NEW o \in Orders, NEW m \in Masters, MasterStep(o, m) PROVE TxSound'
  <2>1. CASE OfferLapses(o, m) \/ DeclineOffer(o, m)
    BY <2>1 DEF OfferLapses, DeclineOffer, TxSound
  <2>2. CASE AcceptBegin(o, m) \/ AssignBegin(o, m)
    BY <2>2, TxSoundMove DEF AcceptBegin, AssignBegin
  <2> QED
    BY <1>3, <2>1, <2>2 DEF MasterStep
<1>4. ASSUME NEW o \in Orders, NEW v \in Versions, QuoteStep(o, v) PROVE TxSound'
  BY <1>4, TxSoundWrite DEF QuoteStep, Approve, Start, Propose, Change
<1>5. ASSUME NEW m \in Masters, NEW s \in Standings, ChangeStanding(m, s) PROVE TxSound'
  BY <1>5 DEF ChangeStanding, TxSound
<1> QED
  BY <1>1, <1>2, <1>3, <1>4, <1>5 DEF Next

-----------------------------------------------------------------------------
(* Consent *)

(* A write to one order keeps the invariant if the new row satisfies it.   *)
LEMMA ConsentWrite ==
    ASSUME TypeOK, ConsentCovers, NEW o \in Orders, NEW row, Write(o, row), Consented(row)
    PROVE  ConsentCovers'
BY DEF TypeOK, ConsentCovers, Write

LEMMA ConsentStep == TypeOK /\ TxSound /\ ConsentCovers /\ [Next]_vars => ConsentCovers'
<1> SUFFICES ASSUME TypeOK, TxSound, ConsentCovers, [Next]_vars PROVE ConsentCovers'
  OBVIOUS
<1>0. \A o \in Orders : order[o] \in Row /\ Consented(order[o])
  BY DEF TypeOK, ConsentCovers
<1>1. CASE UNCHANGED vars
  BY <1>1 DEF vars, ConsentCovers
<1>2. ASSUME NEW o \in Orders, OrderStep(o) PROVE ConsentCovers'
  <2> DEFINE row == order[o]
  <2>1. CASE Create(o)
    <3>1. row.status = "NONE"
      BY <2>1 DEF Create
    <3>2. Consented([row EXCEPT !.status = "CREATED"])
      BY <1>0, <3>1 DEF Consented, Row, AfterStart
    <3> QED  BY <2>1, <3>2, ConsentWrite DEF Create
  <2>2. CASE Publish(o)
    <3>1. Consented([row EXCEPT !.status = "SEARCHING"])
      BY <1>0, <2>2 DEF Publish, Consented, Row, AfterStart
    <3> QED  BY <2>2, <3>1, ConsentWrite DEF Publish
  <2>3. CASE RetrySearch(o)
    <3>1. Consented([row EXCEPT !.status = "SEARCHING", !.searchAttempt = @ + 1])
      BY <1>0, <2>3 DEF RetrySearch, Consented, Row, AfterStart
    <3> QED  BY <2>3, <3>1, ConsentWrite DEF RetrySearch
  <2>4. CASE DispatchSelect(o) \/ LockMaster(o) \/ DispatchOffer(o) \/ DispatchDefer(o)
             \/ Rollback(o) \/ CancellationPreview(o)
    BY <2>4 DEF DispatchSelect, LockMaster, DispatchOffer, DispatchDefer, Rollback,
                CancellationPreview, ConsentCovers
  <2>5. CASE AcceptCommit(o) \/ AssignCommit(o)
    <3>1. row.status = "SEARCHING"
      BY <2>5 DEF AcceptCommit, AssignCommit, TxSound
    <3>2. Consented(AssignedRow(o))
      BY <1>0, <3>1 DEF AssignedRow, Consented, Row, AfterStart
    <3> QED  BY <2>5, <3>2, ConsentWrite DEF AcceptCommit, AssignCommit
  <2>6. CASE DispatchExhaust(o)
    <3>1. row.status = "SEARCHING"
      BY <2>6 DEF DispatchExhaust, TxSound
    <3>2. Consented([row EXCEPT !.status = "NO_MASTERS"])
      BY <1>0, <3>1 DEF Consented, Row, AfterStart
    <3> QED  BY <2>6, <3>2, ConsentWrite DEF DispatchExhaust
  <2>7. CASE CancelByMaster(o)
    <3>1. Consented([row EXCEPT !.status = "SEARCHING", !.masterId = NoMaster,
                                !.departedAt = FALSE, !.onSiteAt = FALSE, !.searchAttempt = @ + 1])
      BY <1>0, <2>7 DEF CancelByMaster, Consented, Row, AfterStart
    <3> QED  BY <2>7, <3>1, ConsentWrite DEF CancelByMaster
  <2>8. CASE Cancel(o)
    <3>1. row.status \notin AfterStart
      BY <2>8 DEF Cancel, Cancellable, AfterStart
    <3>2. Consented([row EXCEPT !.status = "CANCELLED_BY_CLIENT",
                                !.cancellationAmount = CancellationAmount(o)])
      BY <1>0, <3>1 DEF Consented, Row, AfterStart
    <3> QED  BY <2>8, <3>2, ConsentWrite DEF Cancel
  <2>9. CASE OnWay(o)
    <3>1. Consented([row EXCEPT !.status = "MASTER_ON_WAY", !.departedAt = TRUE])
      BY <1>0, <2>9 DEF OnWay, Change, Consented, Row, AfterStart
    <3> QED  BY <2>9, <3>1, ConsentWrite DEF OnWay, Change
  <2>10. CASE OnSite(o)
    <3>1. Consented([row EXCEPT !.status = "INSPECTION", !.onSiteAt = TRUE])
      BY <1>0, <2>10 DEF OnSite, Change, Consented, Row, AfterStart
    <3> QED  BY <2>10, <3>1, ConsentWrite DEF OnSite, Change
  <2>11. CASE Complete(o)
    <3>1. Consented([row EXCEPT !.status = "DONE"])
      BY <1>0, <2>11 DEF Complete, Change, Consented, Row, AfterStart
    <3> QED  BY <2>11, <3>1, ConsentWrite DEF Complete, Change
  <2>12. CASE AcceptResult(o)
    <3>1. Consented([row EXCEPT !.status = "CLOSED"])
      BY <1>0, <2>12 DEF AcceptResult, Change, Consented, Row, AfterStart
    <3> QED  BY <2>12, <3>1, ConsentWrite DEF AcceptResult, Change
  <2> QED
    BY <1>2, <2>1, <2>2, <2>3, <2>4, <2>5, <2>6, <2>7, <2>8, <2>9, <2>10, <2>11, <2>12
       DEF OrderStep, TxStep
<1>3. ASSUME NEW o \in Orders, NEW m \in Masters, MasterStep(o, m) PROVE ConsentCovers'
  BY <1>3 DEF MasterStep, OfferLapses, DeclineOffer, AcceptBegin, AssignBegin, ConsentCovers
<1>4. ASSUME NEW o \in Orders, NEW v \in Versions, QuoteStep(o, v) PROVE ConsentCovers'
  <2>0. v # 0 => v > 0
    BY BoundsAssumption DEF Versions
  <2>1. CASE Approve(o, v)
    <3>1. Consented([order[o] EXCEPT !.status = "PRICE_APPROVED", !.consentedVersion = v])
      BY <1>0, <2>0, <2>1 DEF Approve, Change, Consented, Row, AfterStart
    <3> QED  BY <2>1, <3>1, ConsentWrite DEF Approve, Change
  <2>2. CASE Start(o, v)
    <3>1. Consented([order[o] EXCEPT !.status = "IN_PROGRESS", !.workStartedAt = TRUE])
      BY <1>0, <2>0, <2>2 DEF Start, Change, Consented, Row, AfterStart
    <3> QED  BY <2>2, <3>1, ConsentWrite DEF Start, Change
  <2>3. ASSUME NEW q \in Quotes, Propose(o, q, v) PROVE ConsentCovers'
    <3>1. ~order[o].workStartedAt
      BY <1>0, <2>3 DEF Propose, Change, Quotable, Consented, AfterStart
    <3>2. /\ QuotedRow(o, q).status = "AWAITING_PRICE_CONFIRM"
          /\ QuotedRow(o, q).workStartedAt = order[o].workStartedAt
      BY <1>0 DEF QuotedRow, Row
    <3>3. Consented(QuotedRow(o, q))
      BY <3>1, <3>2 DEF Consented, AfterStart
    <3> QED  BY <2>3, <3>3, ConsentWrite DEF Propose, Change
  <2> QED  BY <1>4, <2>1, <2>2, <2>3 DEF QuoteStep
<1>5. ASSUME NEW m \in Masters, NEW s \in Standings, ChangeStanding(m, s) PROVE ConsentCovers'
  BY <1>5 DEF ChangeStanding, ConsentCovers
<1> QED
  BY <1>1, <1>2, <1>3, <1>4, <1>5 DEF Next

LEMMA ConsentInit == Init => TypeOK /\ TxSound /\ ConsentCovers
<1> SUFFICES ASSUME Init PROVE TypeOK /\ TxSound /\ ConsentCovers
  OBVIOUS
<1>1. \A o \in Orders : order[o] = NewRow /\ tx[o] = NoTx
  BY DEF Init
<1>2. TxSound
  <2>1. NoTx.op = "none" /\ NoTx.locked = FALSE
    BY DEF NoTx
  <2> QED  BY <1>1, <2>1 DEF TxSound
<1>3. Consented(NewRow)
  BY DEF Consented, NewRow, AfterStart
<1> QED
  BY <1>1, <1>2, <1>3, TypeInit DEF ConsentCovers

(* Work that has started is work on a quote whose current version the      *)
(* client approved, for any quotes and any number of versions: start() and *)
(* complete() can rely on the stored consent.                              *)
THEOREM ConsentSafe == Spec => []WorkIsConsented
<1>1. ConsentCovers => WorkIsConsented
  BY DEF ConsentCovers, Consented, WorkIsConsented
<1> QED
  BY <1>1, ConsentInit, TypeStep, TxSoundStep, ConsentStep, PTL DEF Spec

(* The price a client consented to does not move: every change of a quote  *)
(* is a new version without consent, and none happens after the start.     *)
THEOREM ConsentBinds == Spec => ConsentBindsQuote
<1> DEFINE Bound(o) == order'[o].quote # order[o].quote =>
                           /\ order'[o].quoteVersion = order[o].quoteVersion + 1
                           /\ order'[o].consentedVersion = 0
                           /\ ~order[o].workStartedAt
<1>1. ASSUME TypeOK, ConsentCovers, Next PROVE \A o \in Orders : Bound(o)
  <2>0. order \in [Orders -> Row]
    BY <1>1 DEF TypeOK
  <2>1. ASSUME NEW o \in Orders, NEW row, Write(o, row), row.quote = order[o].quote
        PROVE  \A p \in Orders : order'[p].quote = order[p].quote
    BY <2>0, <2>1 DEF Write
  <2>2. ASSUME NEW o \in Orders, OrderStep(o)
        PROVE  \A p \in Orders : order'[p].quote = order[p].quote
    <3>1. CASE Create(o)
      BY <2>0, <2>1, <3>1 DEF Create, Row
    <3>2. CASE Publish(o)
      BY <2>0, <2>1, <3>2 DEF Publish, Row
    <3>3. CASE RetrySearch(o)
      <4> DEFINE row == [order[o] EXCEPT !.status = "SEARCHING", !.searchAttempt = @ + 1]
      <4>1. row.quote = order[o].quote
        BY <2>0 DEF Row
      <4> QED  BY <2>1, <3>3, <4>1 DEF RetrySearch
    <3>4. CASE CancelByMaster(o)
      <4> DEFINE row == [order[o] EXCEPT !.status = "SEARCHING", !.masterId = NoMaster, !.departedAt = FALSE,
                             !.onSiteAt = FALSE, !.searchAttempt = @ + 1]
      <4>1. row.quote = order[o].quote
        BY <2>0 DEF Row
      <4> QED  BY <2>1, <3>4, <4>1 DEF CancelByMaster
    <3>5. CASE Cancel(o)
      <4> DEFINE row == [order[o] EXCEPT !.status = "CANCELLED_BY_CLIENT",
                             !.cancellationAmount = CancellationAmount(o)]
      <4>1. row.quote = order[o].quote
        BY <2>0 DEF Row
      <4> QED  BY <2>1, <3>5, <4>1 DEF Cancel
    <3>6. CASE OnWay(o)
      <4> DEFINE row == [order[o] EXCEPT !.status = "MASTER_ON_WAY", !.departedAt = TRUE]
      <4>1. row.quote = order[o].quote
        BY <2>0 DEF Row
      <4> QED  BY <2>1, <3>6, <4>1 DEF OnWay, Change
    <3>7. CASE OnSite(o)
      <4> DEFINE row == [order[o] EXCEPT !.status = "INSPECTION", !.onSiteAt = TRUE]
      <4>1. row.quote = order[o].quote
        BY <2>0 DEF Row
      <4> QED  BY <2>1, <3>7, <4>1 DEF OnSite, Change
    <3>8. CASE Complete(o)
      BY <2>0, <2>1, <3>8 DEF Complete, Change, Row
    <3>9. CASE AcceptResult(o)
      BY <2>0, <2>1, <3>9 DEF AcceptResult, Change, Row
    <3>10. CASE AcceptCommit(o) \/ AssignCommit(o)
      <4>1. AssignedRow(o).quote = order[o].quote
        BY <2>0 DEF AssignedRow, Row
      <4> QED  BY <2>1, <3>10, <4>1 DEF AcceptCommit, AssignCommit
    <3>11. CASE DispatchExhaust(o)
      BY <2>0, <2>1, <3>11 DEF DispatchExhaust, Row
    <3>12. CASE DispatchSelect(o) \/ LockMaster(o) \/ DispatchOffer(o) \/ DispatchDefer(o)
               \/ Rollback(o) \/ CancellationPreview(o)
      BY <3>12 DEF DispatchSelect, LockMaster, DispatchOffer, DispatchDefer, Rollback,
                   CancellationPreview
    <3> QED
      BY <2>2, <3>1, <3>2, <3>3, <3>4, <3>5, <3>6, <3>7, <3>8, <3>9, <3>10, <3>11, <3>12
         DEF OrderStep, TxStep
  <2>3. ASSUME NEW o \in Orders, NEW m \in Masters, MasterStep(o, m)
        PROVE  order' = order
    BY <2>3 DEF MasterStep, OfferLapses, DeclineOffer, AcceptBegin, AssignBegin
  <2>4. ASSUME NEW o \in Orders, NEW v \in Versions, QuoteStep(o, v)
        PROVE  \A p \in Orders : Bound(p)
    <3>1. CASE Approve(o, v)
      <4> DEFINE row == [order[o] EXCEPT !.status = "PRICE_APPROVED", !.consentedVersion = v]
      <4>1. row.quote = order[o].quote
        BY <2>0 DEF Row
      <4>2. \A p \in Orders : order'[p].quote = order[p].quote
        BY <2>1, <3>1, <4>1 DEF Approve, Change
      <4> QED  BY <4>2
    <3>2. CASE Start(o, v)
      <4> DEFINE row == [order[o] EXCEPT !.status = "IN_PROGRESS", !.workStartedAt = TRUE]
      <4>1. row.quote = order[o].quote
        BY <2>0 DEF Row
      <4>2. \A p \in Orders : order'[p].quote = order[p].quote
        BY <2>1, <3>2, <4>1 DEF Start, Change
      <4> QED  BY <4>2
    <3>3. ASSUME NEW q \in Quotes, Propose(o, q, v) PROVE \A p \in Orders : Bound(p)
      <4>1. /\ QuotedRow(o, q).quoteVersion = order[o].quoteVersion + 1
            /\ QuotedRow(o, q).consentedVersion = 0
        BY <2>0 DEF QuotedRow, Row
      <4>2. ~order[o].workStartedAt
        BY <1>1, <3>3 DEF Propose, Change, Quotable, ConsentCovers, Consented, AfterStart
      <4>3. order'[o] = QuotedRow(o, q) /\ \A p \in Orders \ {o} : order'[p] = order[p]
        BY <2>0, <3>3 DEF Propose, Change, Write
      <4>4. Bound(o)
        BY <4>1, <4>2, <4>3
      <4>5. \A p \in Orders \ {o} : Bound(p)
        BY <4>3
      <4> QED  BY <4>4, <4>5
    <3> QED  BY <2>4, <3>1, <3>2, <3>3 DEF QuoteStep
  <2>5. ASSUME NEW m \in Masters, NEW s \in Standings, ChangeStanding(m, s)
        PROVE  order' = order
    BY <2>5 DEF ChangeStanding
  <2>6. ASSUME \A p \in Orders : order'[p].quote = order[p].quote PROVE \A p \in Orders : Bound(p)
    BY <2>6
  <2>7. ASSUME order' = order PROVE \A p \in Orders : Bound(p)
    BY <2>7
  <2> HIDE DEF Bound
  <2> QED  BY <1>1, <2>2, <2>3, <2>4, <2>5, <2>6, <2>7 DEF Next
<1>2. TypeOK /\ ConsentCovers /\ [Next]_vars => [\A o \in Orders : Bound(o)]_vars
  BY <1>1
<1> QED
  BY <1>2, ConsentInit, TypeStep, TxSoundStep, ConsentStep, PTL DEF Spec, ConsentBindsQuote

-----------------------------------------------------------------------------
(* Exclusion *)

(* A step that takes no new lock and gives no order a new master keeps the *)
(* locks and the masters exclusive.                                        *)
LEMMA NothingTaken ==
    ASSUME TxSound, LocksExclude, OneOrderPerMaster,
           \A o \in Orders : tx'[o].locked => tx'[o] = tx[o],
           \A o \in Orders, m \in Masters : Occupies(o, m)' => Occupies(o, m)
    PROVE  LocksExclude' /\ OneOrderPerMaster'
<1>1. OneOrderPerMaster'
  BY DEF OneOrderPerMaster
<1>2. ASSUME NEW o \in Orders, NEW p \in Orders,
             tx'[o].locked, tx'[p].locked, tx'[o].master = tx'[p].master
      PROVE  o = p
  BY <1>2 DEF LocksExclude
<1>3. ASSUME NEW o \in Orders, tx'[o].locked, tx'[o].op \in {"accept", "assign"}
      PROVE  ~Busy(tx[o].master)' /\ tx'[o].master = tx[o].master
  BY <1>3 DEF LocksExclude, TxSound, Busy
<1> QED
  BY <1>1, <1>2, <1>3 DEF LocksExclude, Busy

(* A written row gives its order no new master if it is off duty or names  *)
(* the master of a row that was on duty before.                            *)
LEMMA WriteTakesNobody ==
    ASSUME TypeOK, NEW o \in Orders, NEW row, Write(o, row),
           row.status \in ActiveMaster \cup {"DONE"} =>
               /\ row.masterId = order[o].masterId
               /\ order[o].status \in ActiveMaster \cup {"DONE"}
    PROVE  \A p \in Orders, m \in Masters : Occupies(p, m)' => Occupies(p, m)
BY DEF TypeOK, Write, Occupies

(* Ending or leaving transactions takes no lock.                           *)
LEMMA EndTakesNothing ==
    ASSUME TypeOK, NEW o \in Orders, tx' = tx \/ tx' = [tx EXCEPT ![o] = NoTx]
    PROVE  \A p \in Orders : tx'[p].locked => tx'[p] = tx[p]
BY DEF TypeOK, NoTx

(* The transaction that gets a User row finds it free, and an assignment   *)
(* also finds its master unoccupied.                                       *)
LEMMA LockTaken ==
    ASSUME TypeOK, TxSound, LocksExclude, OneOrderPerMaster, order' = order,
           NEW o \in Orders, NEW t, tx' = [tx EXCEPT ![o] = t], ~tx[o].locked,
           MasterFree(t.master),
           t.op \in {"accept", "assign"} => ~Busy(t.master)
    PROVE  LocksExclude' /\ OneOrderPerMaster'
<1>1. tx'[o] = t /\ \A p \in Orders \ {o} : tx'[p] = tx[p]
  BY DEF TypeOK
<1>2. OneOrderPerMaster'
  BY DEF OneOrderPerMaster, Occupies
<1>3. ASSUME NEW p \in Orders, NEW q \in Orders,
             tx'[p].locked, tx'[q].locked, tx'[p].master = tx'[q].master
      PROVE  p = q
  BY <1>1, <1>3 DEF LocksExclude, MasterFree
<1>4. \A m : Busy(m)' <=> Busy(m)
  BY DEF Busy, Occupies
<1>5. ASSUME NEW p \in Orders, tx'[p].locked, tx'[p].op \in {"accept", "assign"}
      PROVE  ~Busy(tx'[p].master)
  BY <1>1, <1>5 DEF LocksExclude
<1> QED
  BY <1>2, <1>3, <1>4, <1>5 DEF LocksExclude

(* A committing assignment: the lock it held shows that no other order has *)
(* its master, and no other open assignment is about this master.          *)
LEMMA CommitExcludes ==
    ASSUME TypeOK, TxSound, LocksExclude, OneOrderPerMaster, NEW o \in Orders,
           tx[o].op \in {"accept", "assign"}, tx[o].locked,
           Write(o, AssignedRow(o)), tx' = [tx EXCEPT ![o] = NoTx]
    PROVE  LocksExclude' /\ OneOrderPerMaster'
<1> DEFINE m == tx[o].master
<1>1. m \in Masters /\ ~Busy(m)
  BY DEF TxSound, LocksExclude
<1>2. /\ order'[o] = AssignedRow(o) /\ AssignedRow(o).masterId = m
      /\ \A p \in Orders \ {o} : order'[p] = order[p]
  BY DEF TypeOK, Write, AssignedRow, Row
<1>3. ~tx'[o].locked /\ \A p \in Orders \ {o} : tx'[p] = tx[p]
  BY DEF TypeOK, NoTx
<1>4. ASSUME NEW p \in Orders, NEW n \in Masters, Occupies(p, n)'
      PROVE  IF p = o THEN n = m ELSE Occupies(p, n)
  BY <1>2, <1>4 DEF Occupies
<1>5. ASSUME NEW p \in Orders, NEW q \in Orders, NEW n \in Masters,
             Occupies(p, n)', Occupies(q, n)'
      PROVE  p = q
  BY <1>1, <1>4, <1>5 DEF OneOrderPerMaster, Busy
<1>6. ASSUME NEW p \in Orders, NEW q \in Orders,
             tx'[p].locked, tx'[q].locked, tx'[p].master = tx'[q].master
      PROVE  p = q
  BY <1>3, <1>6 DEF LocksExclude
<1>7. ASSUME NEW p \in Orders, tx'[p].locked, tx'[p].op \in {"accept", "assign"},
             NEW q \in Orders, Occupies(q, tx[p].master)'
      PROVE  FALSE
  <2>1. p # o /\ tx'[p] = tx[p] /\ tx[p].master \in Masters /\ ~Busy(tx[p].master)
    BY <1>3, <1>7 DEF TxSound, LocksExclude
  <2>2. tx[p].master # m
    BY <1>7, <2>1 DEF LocksExclude
  <2> QED  BY <1>4, <1>7, <2>1, <2>2 DEF Busy
<1>8. \A p \in Orders : tx'[p].locked => tx'[p].master = tx[p].master
  BY <1>3
<1> QED
  BY <1>5, <1>6, <1>7, <1>8 DEF LocksExclude, OneOrderPerMaster, Busy

(* A step that writes no row and takes no lock.                            *)
LEMMA RowsKept ==
    ASSUME TypeOK, TxSound, LocksExclude, OneOrderPerMaster, NEW o \in Orders,
           order' = order, tx' = tx \/ tx' = [tx EXCEPT ![o] = NoTx]
    PROVE  LocksExclude' /\ OneOrderPerMaster'
<1>1. \A p \in Orders, m \in Masters : Occupies(p, m)' => Occupies(p, m)
  BY DEF Occupies
<1> QED
  BY <1>1, EndTakesNothing, NothingTaken

(* A write that puts no master on the order, under the same condition.     *)
LEMMA RowWritten ==
    ASSUME TypeOK, TxSound, LocksExclude, OneOrderPerMaster, NEW o \in Orders, NEW row,
           Write(o, row), tx' = tx \/ tx' = [tx EXCEPT ![o] = NoTx],
           row.status \in ActiveMaster \cup {"DONE"} =>
               /\ row.masterId = order[o].masterId
               /\ order[o].status \in ActiveMaster \cup {"DONE"}
    PROVE  LocksExclude' /\ OneOrderPerMaster'
BY WriteTakesNobody, EndTakesNothing, NothingTaken

LEMMA ExclusionStep ==
    TypeOK /\ TxSound /\ LocksExclude /\ OneOrderPerMaster /\ [Next]_vars
        => LocksExclude' /\ OneOrderPerMaster'
<1> SUFFICES ASSUME TypeOK, TxSound, LocksExclude, OneOrderPerMaster, [Next]_vars
             PROVE  LocksExclude' /\ OneOrderPerMaster'
  OBVIOUS
<1> DEFINE Goal == LocksExclude' /\ OneOrderPerMaster'
           OnDuty == ActiveMaster \cup {"DONE"}
<1>0. \A o \in Orders : order[o] \in Row
  BY DEF TypeOK
<1>1. CASE UNCHANGED vars
  BY <1>1 DEF vars, LocksExclude, OneOrderPerMaster, Busy, Occupies
<1>2. ASSUME NEW o \in Orders, OrderStep(o) PROVE Goal
  <2>1. CASE Create(o)
    <3>1. [order[o] EXCEPT !.status = "CREATED"].status = "CREATED"
      BY <1>0 DEF Row
    <3> QED  BY <2>1, <3>1, RowWritten DEF Create, ActiveMaster
  <2>2. CASE Publish(o)
    <3>1. [order[o] EXCEPT !.status = "SEARCHING"].status = "SEARCHING"
      BY <1>0 DEF Row
    <3> QED  BY <2>2, <3>1, RowWritten DEF Publish, ActiveMaster
  <2>3. CASE RetrySearch(o)
    <3> DEFINE row == [order[o] EXCEPT !.status = "SEARCHING", !.searchAttempt = @ + 1]
    <3>1. row.status = "SEARCHING"
      BY <1>0 DEF Row
    <3> QED  BY <2>3, <3>1, RowWritten DEF RetrySearch, ActiveMaster
  <2>4. CASE DispatchSelect(o)
    <3>0. ~tx[o].locked
      BY <2>4 DEF DispatchSelect, Free, TxSound
    <3>1. ASSUME NEW m \in Masters, MasterFree(m),
                 tx' = [tx EXCEPT ![o] = [op |-> "dispatch", master |-> m, locked |-> TRUE]]
          PROVE  Goal
      <4> DEFINE t == [op |-> "dispatch", master |-> m, locked |-> TRUE]
      <4>1. t.master = m /\ t.op = "dispatch"
        OBVIOUS
      <4> HIDE DEF t
      <4> QED  BY <2>4, <3>0, <3>1, <4>1, LockTaken DEF DispatchSelect, t
    <3>2. CASE tx' = [tx EXCEPT ![o] = [op |-> "dispatch", master |-> NoMaster, locked |-> FALSE]]
      <4>1. order' = order /\ \A p \in Orders : tx'[p].locked => tx'[p] = tx[p]
        BY <2>4, <3>2 DEF DispatchSelect, TypeOK
      <4>2. \A p \in Orders, m \in Masters : Occupies(p, m)' => Occupies(p, m)
        BY <4>1 DEF Occupies
      <4> QED  BY <4>1, <4>2, NothingTaken
    <3> QED  BY <2>4, <3>1, <3>2 DEF DispatchSelect, Candidate
  <2>5. CASE LockMaster(o)
    <3>1. CASE tx' = [tx EXCEPT ![o] = NoTx]
      BY <2>5, <3>1, RowsKept DEF LockMaster
    <3>2. CASE /\ ~Busy(tx[o].master)
               /\ tx' = [tx EXCEPT ![o] = [tx[o] EXCEPT !.locked = TRUE]]
      <4> DEFINE t == [tx[o] EXCEPT !.locked = TRUE]
      <4>1. t.master = tx[o].master
        BY DEF TypeOK, Tx
      <4> HIDE DEF t
      <4> QED  BY <2>5, <3>2, <4>1, LockTaken DEF LockMaster, t
    <3> QED  BY <2>5, <3>1, <3>2 DEF LockMaster, MayAccept, MayAssign
  <2>6. CASE AcceptCommit(o) \/ AssignCommit(o)
    BY <2>6, CommitExcludes DEF AcceptCommit, AssignCommit
  <2>7. CASE DispatchExhaust(o)
    <3>1. [order[o] EXCEPT !.status = "NO_MASTERS"].status = "NO_MASTERS"
      BY <1>0 DEF Row
    <3> QED  BY <2>7, <3>1, RowWritten DEF DispatchExhaust, ActiveMaster
  <2>8. CASE DispatchOffer(o) \/ DispatchDefer(o) \/ Rollback(o) \/ CancellationPreview(o)
    BY <2>8, RowsKept DEF DispatchOffer, DispatchDefer, Rollback, CancellationPreview
  <2>9. CASE CancelByMaster(o)
    <3> DEFINE row == [order[o] EXCEPT !.status = "SEARCHING", !.masterId = NoMaster,
                           !.departedAt = FALSE, !.onSiteAt = FALSE, !.searchAttempt = @ + 1]
    <3>1. row.status = "SEARCHING"
      BY <1>0 DEF Row
    <3> QED  BY <2>9, <3>1, RowWritten DEF CancelByMaster, ActiveMaster
  <2>10. CASE Cancel(o)
    <3> DEFINE row == [order[o] EXCEPT !.status = "CANCELLED_BY_CLIENT",
                                       !.cancellationAmount = CancellationAmount(o)]
    <3>1. row.status = "CANCELLED_BY_CLIENT"
      BY <1>0 DEF Row
    <3> QED  BY <2>10, <3>1, RowWritten DEF Cancel, ActiveMaster
  <2>11. CASE OnWay(o)
    <3> DEFINE row == [order[o] EXCEPT !.status = "MASTER_ON_WAY", !.departedAt = TRUE]
    <3>1. row.masterId = order[o].masterId
      BY <1>0 DEF Row
    <3> QED  BY <2>11, <3>1, RowWritten DEF OnWay, Change, ActiveMaster
  <2>12. CASE OnSite(o)
    <3> DEFINE row == [order[o] EXCEPT !.status = "INSPECTION", !.onSiteAt = TRUE]
    <3>1. row.masterId = order[o].masterId
      BY <1>0 DEF Row
    <3> QED  BY <2>12, <3>1, RowWritten DEF OnSite, Change, ActiveMaster
  <2>13. CASE Complete(o)
    <3>1. [order[o] EXCEPT !.status = "DONE"].masterId = order[o].masterId
      BY <1>0 DEF Row
    <3> QED  BY <2>13, <3>1, RowWritten DEF Complete, Change, ActiveMaster
  <2>14. CASE AcceptResult(o)
    <3>1. [order[o] EXCEPT !.status = "CLOSED"].status = "CLOSED"
      BY <1>0 DEF Row
    <3> QED  BY <2>14, <3>1, RowWritten DEF AcceptResult, Change, ActiveMaster
  <2> QED
    BY <1>2, <2>1, <2>2, <2>3, <2>4, <2>5, <2>6, <2>7, <2>8, <2>9, <2>10, <2>11, <2>12, <2>13,
       <2>14 DEF OrderStep, TxStep
<1>3. ASSUME NEW o \in Orders, NEW m \in Masters, MasterStep(o, m) PROVE Goal
  <2>1. CASE OfferLapses(o, m) \/ DeclineOffer(o, m)
    BY <2>1, RowsKept DEF OfferLapses, DeclineOffer
  <2>2. CASE AcceptBegin(o, m) \/ AssignBegin(o, m)
    <3>1. order' = order /\ \A p \in Orders : tx'[p].locked => tx'[p] = tx[p]
      BY <2>2 DEF AcceptBegin, AssignBegin, TypeOK
    <3>2. \A p \in Orders, n \in Masters : Occupies(p, n)' => Occupies(p, n)
      BY <3>1 DEF Occupies
    <3> QED  BY <3>1, <3>2, NothingTaken
  <2> QED  BY <1>3, <2>1, <2>2 DEF MasterStep
<1>4. ASSUME NEW o \in Orders, NEW v \in Versions, QuoteStep(o, v) PROVE Goal
  <2>1. CASE Approve(o, v)
    <3> DEFINE row == [order[o] EXCEPT !.status = "PRICE_APPROVED", !.consentedVersion = v]
    <3>1. row.masterId = order[o].masterId
      BY <1>0 DEF Row
    <3> QED  BY <2>1, <3>1, RowWritten DEF Approve, Change, ActiveMaster
  <2>2. CASE Start(o, v)
    <3> DEFINE row == [order[o] EXCEPT !.status = "IN_PROGRESS", !.workStartedAt = TRUE]
    <3>1. row.masterId = order[o].masterId
      BY <1>0 DEF Row
    <3> QED  BY <2>2, <3>1, RowWritten DEF Start, Change, ActiveMaster
  <2>3. ASSUME NEW q \in Quotes, Propose(o, q, v) PROVE Goal
    <3>1. QuotedRow(o, q).masterId = order[o].masterId
      BY <1>0 DEF QuotedRow, Row
    <3> QED  BY <2>3, <3>1, RowWritten DEF Propose, Change, Quotable, ActiveMaster
  <2> QED  BY <1>4, <2>1, <2>2, <2>3 DEF QuoteStep
<1>5. ASSUME NEW m \in Masters, NEW s \in Standings, ChangeStanding(m, s) PROVE Goal
  BY <1>5 DEF ChangeStanding, LocksExclude, OneOrderPerMaster, Busy, Occupies
<1> QED
  BY <1>1, <1>2, <1>3, <1>4, <1>5 DEF Next

(* However many accepts, manual assignments and dispatches race, no master *)
(* is ever held by two orders: the User row lock and the re-read of the    *)
(* master's orders under it suffice, for any orders and masters.           *)
THEOREM MastersExclusive == Spec => []OneOrderPerMaster
<1>1. Init => LocksExclude /\ OneOrderPerMaster
  <2> SUFFICES ASSUME Init PROVE LocksExclude /\ OneOrderPerMaster
    OBVIOUS
  <2>1. \A o \in Orders : order[o] = NewRow /\ tx[o] = NoTx
    BY DEF Init
  <2>2. NewRow.status = "NONE" /\ NoTx.locked = FALSE
    BY DEF NewRow, NoTx
  <2> QED
    BY <2>1, <2>2 DEF LocksExclude, OneOrderPerMaster, Occupies, ActiveMaster
<1> QED
  BY <1>1, ConsentInit, TypeStep, TxSoundStep, ExclusionStep, PTL DEF Spec

-----------------------------------------------------------------------------
(* Offers *)

OffersSound == OnePendingOfferPerOrder /\ OneLiveOfferPerMaster /\ OffersClaimed

(* A step on one order that leaves it without a transaction, and keeps of   *)
(* its offers none pending, or only while it is searched for as before.     *)
LEMMA OffersClose ==
    ASSUME TxSound, OffersSound, NEW o \in Orders, tx'[o].op = "none",
           \A p \in Orders \ {o} : /\ order'[p] = order[p] /\ offer'[p] = offer[p]
                                   /\ tx'[p] = tx[p],
           \A a \in Attempts, m \in Masters :
               offer'[o][a][m] \in Pending =>
                   /\ offer[o][a][m] = offer'[o][a][m]
                   /\ order'[o].status = order[o].status
                   /\ order'[o].searchAttempt = order[o].searchAttempt
    PROVE  OffersSound'
<1>1. \A p \in Orders, a \in Attempts, m \in Masters :
          offer'[p][a][m] \in Pending =>
              /\ offer[p][a][m] = offer'[p][a][m]
              /\ order'[p].status = order[p].status
              /\ order'[p].searchAttempt = order[p].searchAttempt
  OBVIOUS
<1>2. OnePendingOfferPerOrder'
  BY <1>1 DEF OffersSound, OnePendingOfferPerOrder
<1>3. OneLiveOfferPerMaster'
  BY <1>1 DEF OffersSound, OneLiveOfferPerMaster, Pending
<1>4. ASSUME NEW p \in Orders, tx'[p].op = "dispatch"
      PROVE  /\ Unanswered(p)'
             /\ tx'[p].locked => CurrentOffers(p)'[tx'[p].master] = "NONE"
  BY <1>4 DEF OffersSound, OffersClaimed, Unanswered, CurrentOffers
<1>5. ASSUME NEW p \in Orders, tx'[p].op = "dispatch", tx'[p].locked,
             NEW q \in Orders, NEW a \in Attempts
      PROVE  offer'[q][a][tx'[p].master] # "LIVE"
  <2>1. /\ tx'[p] = tx[p] /\ tx[p].master \in Masters
        /\ offer[q][a][tx[p].master] # "LIVE"
    BY <1>5 DEF OffersSound, OffersClaimed, TxSound
  <2> QED  BY <1>1, <1>5, <2>1 DEF Pending
<1>6. ASSUME NEW p \in Orders, tx'[p].op = "accept", tx'[p].locked
      PROVE  CurrentOffers(p)'[tx'[p].master] \in Pending
  BY <1>6 DEF OffersSound, OffersClaimed, CurrentOffers
<1> QED
  BY <1>2, <1>3, <1>4, <1>5, <1>6 DEF OffersSound, OffersClaimed

(* Settling leaves the order without a pending offer, since pending ones    *)
(* are of the current attempt, and every answer and other order alone.      *)
SettledWith(f, o, x) ==
    /\ f \in [Orders -> [Attempts -> [Masters -> Outcome]]]
    /\ \A p \in Orders \ {o} : f[p] = offer[p]
    /\ \A a \in Attempts, m \in Masters :
          IF offer[o][a][m] \in Pending THEN f[o][a][m] = x ELSE f[o][a][m] = offer[o][a][m]

LEMMA Settles ==
    ASSUME TypeOK, OffersSound, NEW o \in Orders, NEW x \in Outcome \ Pending
    PROVE  SettledWith(SettleAttempt(o, x), o, x) /\ SettledWith(SettleOffers(o, x), o, x)
<1>0. order[o].searchAttempt \in Attempts
  BY DEF TypeOK, Row
<1>1. \A a \in Attempts, m \in Masters :
          offer[o][a][m] \in Pending => a = order[o].searchAttempt
  BY DEF OffersSound, OnePendingOfferPerOrder
<1>2. /\ \A p \in Orders \ {o} : SettleAttempt(o, x)[p] = offer[p]
      /\ \A a \in Attempts, m \in Masters :
            IF offer[o][a][m] \in Pending THEN SettleAttempt(o, x)[o][a][m] = x
                                          ELSE SettleAttempt(o, x)[o][a][m] = offer[o][a][m]
  BY <1>0, <1>1 DEF TypeOK, SettleAttempt
<1>3. /\ \A p \in Orders \ {o} : SettleOffers(o, x)[p] = offer[p]
      /\ \A a \in Attempts, m \in Masters :
            IF offer[o][a][m] \in Pending THEN SettleOffers(o, x)[o][a][m] = x
                                          ELSE SettleOffers(o, x)[o][a][m] = offer[o][a][m]
  BY DEF TypeOK, SettleOffers
<1>4. /\ SettleAttempt(o, x) \in [Orders -> [Attempts -> [Masters -> Outcome]]]
      /\ SettleOffers(o, x) \in [Orders -> [Attempts -> [Masters -> Outcome]]]
  BY x \in Outcome, SettleType
<1> HIDE DEF SettleAttempt, SettleOffers
<1> QED
  BY <1>2, <1>3, <1>4 DEF SettledWith

(* A row is written that was not searched for: it has nothing pending.      *)
LEMMA OffersAside ==
    ASSUME TypeOK, TxSound, OffersSound, NEW o \in Orders, NEW row, Write(o, row),
           order[o].status # "SEARCHING", UNCHANGED <<offer, tx>>
    PROVE  OffersSound'
<1>1. \A a \in Attempts, m \in Masters : offer[o][a][m] \notin Pending
  BY DEF OffersSound, OnePendingOfferPerOrder
<1>2. tx[o].op = "none" /\ \A p \in Orders \ {o} : order'[p] = order[p]
  BY DEF TxSound, Write, TypeOK, Tx
<1> QED
  BY <1>1, <1>2, OffersClose

(* The offers of an order are settled and its transaction ends.             *)
LEMMA OffersSettle ==
    ASSUME TypeOK, TxSound, OffersSound, NEW o \in Orders, NEW x \in Outcome \ Pending,
           offer' \in {SettleAttempt(o, x), SettleOffers(o, x)},
           \A p \in Orders \ {o} : order'[p] = order[p] /\ tx'[p] = tx[p],
           tx'[o].op = "none"
    PROVE  OffersSound'
<1>1. SettledWith(offer', o, x)
  BY Settles
<1>2. /\ \A p \in Orders \ {o} : offer'[p] = offer[p]
      /\ \A a \in Attempts, m \in Masters : offer'[o][a][m] \notin Pending
  BY <1>1 DEF SettledWith
<1> QED
  BY <1>2, OffersClose

(* A transaction opens or moves on; what it claims was read just now.       *)
LEMMA OffersRead ==
    ASSUME TypeOK, OffersSound, NEW o \in Orders, NEW t, tx' = [tx EXCEPT ![o] = t],
           UNCHANGED <<order, offer>>,
           t.op = "dispatch" => Unanswered(o),
           t.op = "dispatch" /\ t.locked =>
               /\ CurrentOffers(o)[t.master] = "NONE"
               /\ \A p \in Orders, a \in Attempts : offer[p][a][t.master] # "LIVE",
           t.op = "accept" /\ t.locked => CurrentOffers(o)[t.master] \in Pending
    PROVE  OffersSound'
<1>1. tx'[o] = t /\ \A p \in Orders \ {o} : tx'[p] = tx[p]
  BY DEF TypeOK
<1>2. OnePendingOfferPerOrder' /\ OneLiveOfferPerMaster'
  BY DEF OffersSound, OnePendingOfferPerOrder, OneLiveOfferPerMaster
<1>3. \A p \in Orders : /\ Unanswered(p)' <=> Unanswered(p)
                        /\ CurrentOffers(p)' = CurrentOffers(p)
  BY DEF Unanswered, CurrentOffers
<1>4. OffersClaimed'
  BY <1>1, <1>3 DEF OffersSound, OffersClaimed
<1> QED
  BY <1>2, <1>4 DEF OffersSound

(* The claimed master gets his offer: he has no live one, the order has no  *)
(* other, and no other dispatch has claimed him.                            *)
LEMMA OfferMade ==
    ASSUME TypeOK, TxSound, LocksExclude, OffersSound, NEW o \in Orders, DispatchOffer(o)
    PROVE  OffersSound'
<1> DEFINE m == tx[o].master
           a == order[o].searchAttempt
           f == SettleAttempt(o, "EXPIRED")
<1>0. /\ m \in Masters /\ a \in Attempts /\ order[o].status = "SEARCHING"
      /\ tx[o].op = "dispatch" /\ tx[o].locked /\ order' = order
      /\ tx'[o] = NoTx /\ \A p \in Orders \ {o} : tx'[p] = tx[p]
  BY DEF TypeOK, Row, TxSound, DispatchOffer
<1>1. /\ f \in [Orders -> [Attempts -> [Masters -> Outcome]]]
      /\ \A p \in Orders \ {o} : f[p] = offer[p]
      /\ \A b \in Attempts, n \in Masters :
            IF offer[o][b][n] \in Pending THEN f[o][b][n] = "EXPIRED"
                                          ELSE f[o][b][n] = offer[o][b][n]
  BY Settles, "EXPIRED" \in Outcome \ Pending DEF Outcome, Pending, SettledWith
<1>2. offer' = [f EXCEPT ![o][a][m] = "LIVE"]
  BY DEF DispatchOffer
<1>3. /\ \A p \in Orders \ {o} : offer'[p] = offer[p]
      /\ offer'[o][a][m] = "LIVE"
      /\ \A b \in Attempts, n \in Masters :
            offer'[o][b][n] \in Pending => b = a /\ n = m
  <2> HIDE DEF f, a, m
  <2>1. \A b \in Attempts, n \in Masters : f[o][b][n] \notin Pending
    BY <1>1 DEF Pending
  <2> QED  BY <1>0, <1>1, <1>2, <2>1
<1>4. \A p \in Orders, b \in Attempts : offer[p][b][m] # "LIVE"
  BY <1>0 DEF OffersSound, OffersClaimed
<1>5. OnePendingOfferPerOrder'
  BY <1>0, <1>3 DEF OffersSound, OnePendingOfferPerOrder
<1>6. OneLiveOfferPerMaster'
  BY <1>0, <1>3, <1>4 DEF OffersSound, OneLiveOfferPerMaster, Pending
<1>7. OffersClaimed'
  <2>1. NoTx.op = "none"
    BY DEF NoTx
  <2>2. ASSUME NEW p \in Orders \ {o}, tx[p].locked
        PROVE  tx[p].master # m /\ tx[p].master \in Masters
    BY <1>0, <2>2 DEF LocksExclude, TxSound
  <2>3. \A p \in Orders \ {o} : CurrentOffers(p)' = CurrentOffers(p) /\ (Unanswered(p)' <=> Unanswered(p))
    BY <1>0, <1>3 DEF CurrentOffers, Unanswered
  <2>4. ASSUME NEW p \in Orders \ {o}, tx[p].op = "dispatch", tx[p].locked,
               NEW q \in Orders, NEW b \in Attempts
        PROVE  offer'[q][b][tx[p].master] # "LIVE"
    BY <1>3, <2>2, <2>4 DEF OffersSound, OffersClaimed, Pending
  <2> QED  BY <1>0, <2>1, <2>3, <2>4 DEF OffersSound, OffersClaimed
<1> QED
  BY <1>5, <1>6, <1>7 DEF OffersSound

LEMMA OffersStep ==
    TypeOK /\ TxSound /\ LocksExclude /\ OffersSound /\ [Next]_vars => OffersSound'
<1> SUFFICES ASSUME TypeOK, TxSound, LocksExclude, OffersSound, [Next]_vars PROVE OffersSound'
  OBVIOUS
<1>0. /\ \A o \in Orders : order[o] \in Row
      /\ {"EXPIRED", "LOST"} \subseteq Outcome \ Pending
      /\ NoTx.op = "none"
  BY DEF TypeOK, Outcome, Pending, NoTx
<1>1. CASE UNCHANGED vars
  BY <1>1 DEF vars, OffersSound, OnePendingOfferPerOrder, OneLiveOfferPerMaster, OffersClaimed,
              CurrentOffers, Unanswered
<1>2. ASSUME NEW o \in Orders, OrderStep(o) PROVE OffersSound'
  <2>1. CASE Create(o) \/ RetrySearch(o) \/ CancelByMaster(o) \/ Publish(o)
    BY <2>1, OffersAside DEF Create, RetrySearch, CancelByMaster, Publish
  <2>2. CASE OnWay(o) \/ OnSite(o) \/ Complete(o) \/ AcceptResult(o)
    BY <2>2, OffersAside DEF OnWay, OnSite, Complete, AcceptResult, Change
  <2>3. CASE DispatchSelect(o)
    <3>1. ASSUME NEW m \in Masters, Candidate(o, m),
                 tx' = [tx EXCEPT ![o] = [op |-> "dispatch", master |-> m, locked |-> TRUE]]
          PROVE  OffersSound'
      <4> DEFINE t == [op |-> "dispatch", master |-> m, locked |-> TRUE]
      <4>1. t.op = "dispatch" /\ t.master = m
        OBVIOUS
      <4>2. /\ CurrentOffers(o)[m] = "NONE"
            /\ \A p \in Orders, a \in Attempts : offer[p][a][m] # "LIVE"
        BY <3>1 DEF Candidate, Eligible
      <4> HIDE DEF t
      <4> QED  BY <2>3, <3>1, <4>1, <4>2, OffersRead DEF DispatchSelect, t
    <3>2. CASE tx' = [tx EXCEPT ![o] = [op |-> "dispatch", master |-> NoMaster, locked |-> FALSE]]
      <4> DEFINE t == [op |-> "dispatch", master |-> NoMaster, locked |-> FALSE]
      <4>1. t.op = "dispatch" /\ ~t.locked
        OBVIOUS
      <4> HIDE DEF t
      <4> QED  BY <2>3, <3>2, <4>1, OffersRead DEF DispatchSelect, t
    <3> QED  BY <2>3, <3>1, <3>2 DEF DispatchSelect
  <2>4. CASE LockMaster(o)
    <3>1. CASE tx' = [tx EXCEPT ![o] = NoTx]
      BY <1>0, <2>4, <3>1, OffersRead DEF LockMaster
    <3>2. CASE tx' = [tx EXCEPT ![o] = [tx[o] EXCEPT !.locked = TRUE]]
                  /\ (tx[o].op = "accept" => MayAccept(o, tx[o].master))
      <4> DEFINE t == [tx[o] EXCEPT !.locked = TRUE]
      <4>1. t.op = tx[o].op /\ t.master = tx[o].master
        BY DEF TypeOK, Tx
      <4>2. tx[o].op \in {"accept", "assign"} /\ UNCHANGED <<order, offer>>
        BY <2>4 DEF LockMaster
      <4>3. tx[o].op = "accept" => CurrentOffers(o)[tx[o].master] \in Pending
        BY <3>2 DEF MayAccept, Pending
      <4> HIDE DEF t
      <4> QED  BY <3>2, <4>1, <4>2, <4>3, OffersRead DEF t
    <3> QED  BY <2>4, <3>1, <3>2 DEF LockMaster
  <2>5. CASE AcceptCommit(o)
    <3>1. /\ \A p \in Orders \ {o} : order'[p] = order[p] /\ tx'[p] = tx[p]
          /\ tx'[o].op = "none"
      BY <1>0, <2>5 DEF AcceptCommit, Write, TypeOK
    <3>2. /\ \A p \in Orders \ {o} : offer'[p] = offer[p]
          /\ \A a \in Attempts, m \in Masters : offer'[o][a][m] \notin Pending
      <4> DEFINE f == SettleAttempt(o, "LOST")
      <4>1. /\ f \in [Orders -> [Attempts -> [Masters -> Outcome]]]
            /\ \A p \in Orders \ {o} : f[p] = offer[p]
            /\ \A a \in Attempts, m \in Masters :
                  IF offer[o][a][m] \in Pending THEN f[o][a][m] = "LOST"
                                                ELSE f[o][a][m] = offer[o][a][m]
        BY <1>0, Settles DEF SettledWith
      <4>2. \A a \in Attempts, m \in Masters : f[o][a][m] \notin Pending
        BY <1>0, <4>1
      <4>3. offer' = [f EXCEPT ![o][order[o].searchAttempt][tx[o].master] = "ACCEPTED"]
        BY <2>5 DEF AcceptCommit
      <4> HIDE DEF f
      <4> QED  BY <4>1, <4>2, <4>3 DEF Pending
    <3> QED  BY <3>1, <3>2, OffersClose
  <2>6. CASE AssignCommit(o) \/ DispatchExhaust(o) \/ DispatchDefer(o)
    <3>1. /\ \A p \in Orders \ {o} : order'[p] = order[p] /\ tx'[p] = tx[p]
          /\ tx'[o].op = "none"
      BY <1>0, <2>6 DEF AssignCommit, DispatchExhaust, DispatchDefer, Write, TypeOK
    <3>2. \E x \in {"EXPIRED", "LOST"} : offer' = SettleAttempt(o, x)
      BY <2>6 DEF AssignCommit, DispatchExhaust, DispatchDefer
    <3> QED  BY <1>0, <3>1, <3>2, OffersSettle
  <2>7. CASE DispatchOffer(o)
    BY <2>7, OfferMade
  <2>8. CASE Cancel(o)
    <3>1. /\ \A p \in Orders \ {o} : order'[p] = order[p] /\ tx'[p] = tx[p]
          /\ tx'[o].op = "none" /\ offer' = SettleOffers(o, "EXPIRED")
      BY <2>8 DEF Cancel, Free, Write, TypeOK
    <3> QED  BY <1>0, <3>1, OffersSettle
  <2>9. CASE Rollback(o)
    BY <1>0, <2>9, OffersRead DEF Rollback
  <2>10. CASE CancellationPreview(o)
    BY <2>10 DEF CancellationPreview, OffersSound, OnePendingOfferPerOrder, OneLiveOfferPerMaster,
                 OffersClaimed, CurrentOffers, Unanswered
  <2> QED
    BY <1>2, <2>1, <2>2, <2>3, <2>4, <2>5, <2>6, <2>7, <2>8, <2>9, <2>10
       DEF OrderStep, TxStep
<1>3. ASSUME NEW o \in Orders, NEW m \in Masters, MasterStep(o, m) PROVE OffersSound'
  <2>1. CASE OfferLapses(o, m)
    <3>1. /\ UNCHANGED <<order, tx>> /\ order[o].searchAttempt \in Attempts
          /\ offer[o][order[o].searchAttempt][m] = "LIVE"
          /\ offer' = [offer EXCEPT ![o][order[o].searchAttempt][m] = "LAPSED"]
      BY <1>0, <2>1 DEF OfferLapses, CurrentOffers, Row
    <3>2. \A p \in Orders, a \in Attempts, n \in Masters :
             \/ offer'[p][a][n] = offer[p][a][n]
             \/ offer[p][a][n] = "LIVE" /\ offer'[p][a][n] = "LAPSED"
      BY <3>1 DEF TypeOK
    <3>3. OnePendingOfferPerOrder'
      BY <3>1, <3>2 DEF OffersSound, OnePendingOfferPerOrder, Pending
    <3>4. OneLiveOfferPerMaster'
      BY <3>2 DEF OffersSound, OneLiveOfferPerMaster
    <3>5. OffersClaimed'
      <4>1. \A p \in Orders : order[p].searchAttempt \in Attempts
        BY <1>0 DEF Row
      <4>2. \A p \in Orders : Unanswered(p) => Unanswered(p)'
        BY <3>1, <3>2, <4>1 DEF Unanswered, CurrentOffers
      <4>3. \A p \in Orders, n \in Masters :
               /\ CurrentOffers(p)[n] = "NONE" => CurrentOffers(p)'[n] = "NONE"
               /\ CurrentOffers(p)[n] \in Pending => CurrentOffers(p)'[n] \in Pending
        BY <3>1, <3>2, <4>1 DEF CurrentOffers, Pending
      <4>4. \A p \in Orders : tx[p].locked => tx[p].master \in Masters
        BY DEF TxSound
      <4> QED  BY <3>1, <3>2, <4>2, <4>3, <4>4 DEF OffersSound, OffersClaimed
    <3> QED  BY <3>3, <3>4, <3>5 DEF OffersSound
  <2>2. CASE DeclineOffer(o, m)
    <3>1. /\ UNCHANGED <<order, tx>> /\ order[o].searchAttempt \in Attempts /\ tx[o].op = "none"
          /\ offer' = [offer EXCEPT ![o][order[o].searchAttempt][m] = "EXPIRED"]
      BY <1>0, <2>2 DEF DeclineOffer, Row, Free
    <3>2. /\ \A p \in Orders \ {o} : offer'[p] = offer[p]
          /\ \A a \in Attempts, n \in Masters :
                offer'[o][a][n] = offer[o][a][n] \/ offer'[o][a][n] = "EXPIRED"
      BY <3>1 DEF TypeOK
    <3> QED  BY <1>0, <3>1, <3>2, OffersClose
  <2>3. CASE AcceptBegin(o, m) \/ AssignBegin(o, m)
    <3>1. PICK t \in [op : {"accept", "assign"}, master : Masters, locked : {FALSE}] :
             tx' = [tx EXCEPT ![o] = t]
      BY <2>3 DEF AcceptBegin, AssignBegin
    <3>2. t.op # "dispatch" /\ ~t.locked
      OBVIOUS
    <3> QED  BY <2>3, <3>1, <3>2, OffersRead DEF AcceptBegin, AssignBegin
  <2> QED  BY <1>3, <2>1, <2>2, <2>3 DEF MasterStep
<1>4. ASSUME NEW o \in Orders, NEW v \in Versions, QuoteStep(o, v) PROVE OffersSound'
  BY <1>4, OffersAside DEF QuoteStep, Approve, Start, Propose, Change, Quotable
<1>5. ASSUME NEW m \in Masters, NEW s \in Standings, ChangeStanding(m, s) PROVE OffersSound'
  BY <1>5 DEF ChangeStanding, OffersSound, OnePendingOfferPerOrder, OneLiveOfferPerMaster,
              OffersClaimed, CurrentOffers, Unanswered
<1> QED
  BY <1>1, <1>2, <1>3, <1>4, <1>5 DEF Next

LEMMA OffersInit == Init => LocksExclude /\ OneOrderPerMaster /\ OffersSound
<1> SUFFICES ASSUME Init PROVE LocksExclude /\ OneOrderPerMaster /\ OffersSound
  OBVIOUS
<1>1. /\ \A o \in Orders : order[o] = NewRow /\ tx[o] = NoTx
      /\ \A o \in Orders, a \in Attempts, m \in Masters : offer[o][a][m] = "NONE"
  BY DEF Init
<1>2. NewRow.status = "NONE" /\ NoTx.locked = FALSE /\ NoTx.op = "none"
  BY DEF NewRow, NoTx
<1>3. LocksExclude /\ OneOrderPerMaster
  BY <1>1, <1>2 DEF LocksExclude, OneOrderPerMaster, Occupies, ActiveMaster
<1>4. OnePendingOfferPerOrder /\ OneLiveOfferPerMaster /\ OffersClaimed
  BY <1>1, <1>2 DEF OnePendingOfferPerOrder, OneLiveOfferPerMaster, OffersClaimed, Pending
<1> QED
  BY <1>3, <1>4 DEF OffersSound

(* However dispatches of any number of orders interleave, with crashes and  *)
(* late answers, a master is asked by one order at a time: SKIP LOCKED on   *)
(* the User row and the NOT EXISTS of eligibleQuery suffice.                *)
THEOREM AskedByOne == Spec => []OneLiveOfferPerMaster
<1>1. OffersSound => OneLiveOfferPerMaster
  BY DEF OffersSound
<1> QED
  BY <1>1, OffersInit, ConsentInit, TypeStep, TxSoundStep, ExclusionStep, OffersStep, PTL DEF Spec

(* An order asks one master at a time, in its current attempt, and only     *)
(* while it is searched for: nothing stale can be accepted.                 *)
THEOREM AsksOne == Spec => []OnePendingOfferPerOrder
<1>1. OffersSound => OnePendingOfferPerOrder
  BY DEF OffersSound
<1> QED
  BY <1>1, OffersInit, ConsentInit, TypeStep, TxSoundStep, ExclusionStep, OffersStep, PTL DEF Spec

-----------------------------------------------------------------------------
(* How a row moves *)

(* The statuses a step may give an order, and the handlers that give them;  *)
(* a lifecycle step after the assignment keeps the master.                  *)
Moves(o) ==
    /\ \A p \in Orders \ {o} : order'[p] = order[p]
    /\ \/ Create(o) /\ order'[o].status = "CREATED"
       \/ (Publish(o) \/ RetrySearch(o) \/ CancelByMaster(o)) /\ order'[o].status = "SEARCHING"
       \/ DispatchExhaust(o) /\ order'[o].status = "NO_MASTERS"
       \/ /\ AcceptCommit(o) \/ AssignCommit(o)
          /\ order'[o].status = "ACCEPTED" /\ order'[o].masterId = tx[o].master
       \/ /\ Cancel(o) /\ order'[o].status = "CANCELLED_BY_CLIENT"
          /\ order'[o].cancellationAmount = CancellationAmount(o)
       \/ AcceptResult(o) /\ order'[o].status = "CLOSED"
       \/ /\ order[o].status \in ActiveMaster
          /\ order'[o].status \in (ActiveMaster \ {"ACCEPTED"}) \cup {"DONE"}
          /\ order'[o].masterId = order[o].masterId

LEMMA RowsMove ==
    ASSUME TypeOK, Next
    PROVE  order' = order \/ \E o \in Orders : Moves(o)
<1>0. \A o \in Orders : order[o] \in Row
  BY DEF TypeOK
<1>1. ASSUME NEW o \in Orders, NEW row, Write(o, row)
      PROVE  order'[o] = row /\ \A p \in Orders \ {o} : order'[p] = order[p]
  BY <1>1 DEF Write, TypeOK
<1>2. ASSUME NEW o \in Orders, OrderStep(o) PROVE order' = order \/ Moves(o)
  <2>1. CASE Create(o)
    <3>1. [order[o] EXCEPT !.status = "CREATED"].status = "CREATED"
      BY <1>0 DEF Row
    <3> QED  BY <1>1, <2>1, <3>1 DEF Create, Moves
  <2>2. CASE Publish(o)
    <3>1. [order[o] EXCEPT !.status = "SEARCHING"].status = "SEARCHING"
      BY <1>0 DEF Row
    <3> QED  BY <1>1, <2>2, <3>1 DEF Publish, Moves
  <2>3. CASE RetrySearch(o)
    <3> DEFINE row == [order[o] EXCEPT !.status = "SEARCHING", !.searchAttempt = @ + 1]
    <3>1. row.status = "SEARCHING"
      BY <1>0 DEF Row
    <3> QED  BY <1>1, <2>3, <3>1 DEF RetrySearch, Moves
  <2>4. CASE CancelByMaster(o)
    <3> DEFINE row == [order[o] EXCEPT !.status = "SEARCHING", !.masterId = NoMaster,
                           !.departedAt = FALSE, !.onSiteAt = FALSE, !.searchAttempt = @ + 1]
    <3>1. row.status = "SEARCHING"
      BY <1>0 DEF Row
    <3> QED  BY <1>1, <2>4, <3>1 DEF CancelByMaster, Moves
  <2>5. CASE Cancel(o)
    <3> DEFINE row == [order[o] EXCEPT !.status = "CANCELLED_BY_CLIENT",
                                       !.cancellationAmount = CancellationAmount(o)]
    <3>1. row.status = "CANCELLED_BY_CLIENT" /\ row.cancellationAmount = CancellationAmount(o)
      BY <1>0 DEF Row
    <3> QED  BY <1>1, <2>5, <3>1 DEF Cancel, Moves
  <2>6. CASE OnWay(o)
    <3> DEFINE row == [order[o] EXCEPT !.status = "MASTER_ON_WAY", !.departedAt = TRUE]
    <3>1. row.status = "MASTER_ON_WAY" /\ row.masterId = order[o].masterId
      BY <1>0 DEF Row
    <3> QED  BY <1>1, <2>6, <3>1 DEF OnWay, Change, Moves, ActiveMaster
  <2>7. CASE OnSite(o)
    <3> DEFINE row == [order[o] EXCEPT !.status = "INSPECTION", !.onSiteAt = TRUE]
    <3>1. row.status = "INSPECTION" /\ row.masterId = order[o].masterId
      BY <1>0 DEF Row
    <3> QED  BY <1>1, <2>7, <3>1 DEF OnSite, Change, Moves, ActiveMaster
  <2>8. CASE Complete(o)
    <3> DEFINE row == [order[o] EXCEPT !.status = "DONE"]
    <3>1. row.status = "DONE" /\ row.masterId = order[o].masterId
      BY <1>0 DEF Row
    <3> QED  BY <1>1, <2>8, <3>1 DEF Complete, Change, Moves, ActiveMaster
  <2>9. CASE AcceptResult(o)
    <3>1. [order[o] EXCEPT !.status = "CLOSED"].status = "CLOSED"
      BY <1>0 DEF Row
    <3> QED  BY <1>1, <2>9, <3>1 DEF AcceptResult, Change, Moves
  <2>10. CASE AcceptCommit(o) \/ AssignCommit(o)
    <3>1. AssignedRow(o).status = "ACCEPTED" /\ AssignedRow(o).masterId = tx[o].master
      BY <1>0 DEF AssignedRow, Row
    <3> QED  BY <1>1, <2>10, <3>1 DEF AcceptCommit, AssignCommit, Moves
  <2>11. CASE DispatchExhaust(o)
    <3>1. [order[o] EXCEPT !.status = "NO_MASTERS"].status = "NO_MASTERS"
      BY <1>0 DEF Row
    <3> QED  BY <1>1, <2>11, <3>1 DEF DispatchExhaust, Moves
  <2>12. CASE DispatchSelect(o) \/ LockMaster(o) \/ DispatchOffer(o) \/ DispatchDefer(o)
                \/ Rollback(o) \/ CancellationPreview(o)
    BY <2>12 DEF DispatchSelect, LockMaster, DispatchOffer, DispatchDefer, Rollback,
                 CancellationPreview
  <2> QED
    BY <1>2, <2>1, <2>2, <2>3, <2>4, <2>5, <2>6, <2>7, <2>8, <2>9, <2>10, <2>11, <2>12
       DEF OrderStep, TxStep
<1>3. ASSUME NEW o \in Orders, NEW m \in Masters, MasterStep(o, m) PROVE order' = order
  BY <1>3 DEF MasterStep, OfferLapses, DeclineOffer, AcceptBegin, AssignBegin
<1>4. ASSUME NEW o \in Orders, NEW v \in Versions, QuoteStep(o, v) PROVE Moves(o)
  <2>1. CASE Approve(o, v)
    <3> DEFINE row == [order[o] EXCEPT !.status = "PRICE_APPROVED", !.consentedVersion = v]
    <3>1. row.status = "PRICE_APPROVED" /\ row.masterId = order[o].masterId
      BY <1>0 DEF Row
    <3> QED  BY <1>1, <2>1, <3>1 DEF Approve, Change, Moves, ActiveMaster
  <2>2. CASE Start(o, v)
    <3> DEFINE row == [order[o] EXCEPT !.status = "IN_PROGRESS", !.workStartedAt = TRUE]
    <3>1. row.status = "IN_PROGRESS" /\ row.masterId = order[o].masterId
      BY <1>0 DEF Row
    <3> QED  BY <1>1, <2>2, <3>1 DEF Start, Change, Moves, ActiveMaster
  <2>3. ASSUME NEW q \in Quotes, Propose(o, q, v) PROVE Moves(o)
    <3>1. /\ QuotedRow(o, q).status = "AWAITING_PRICE_CONFIRM"
          /\ QuotedRow(o, q).masterId = order[o].masterId
      BY <1>0 DEF QuotedRow, Row
    <3> QED  BY <1>1, <2>3, <3>1 DEF Propose, Change, Quotable, Moves, ActiveMaster
  <2> QED  BY <1>4, <2>1, <2>2, <2>3 DEF QuoteStep
<1>5. ASSUME NEW m \in Masters, NEW s \in Standings, ChangeStanding(m, s) PROVE order' = order
  BY <1>5 DEF ChangeStanding
<1> QED
  BY <1>2, <1>3, <1>4, <1>5 DEF Next

(* A search is given up only when no master was eligible and no offer was   *)
(* running at that moment: dispatch took the lock of the order before it    *)
(* looked for candidates, and looks again without the lock of the masters.  *)
THEOREM GivenUpForGood == Spec => ExhaustionIsReal
<1> DEFINE Real(o) == order[o].status = "SEARCHING" /\ order'[o].status = "NO_MASTERS" =>
                          \A m \in Masters : ~Eligible(o, m) /\ CurrentOffers(o)[m] # "LIVE"
<1>1. ASSUME TypeOK, OffersSound, Next, NEW o \in Orders PROVE Real(o)
  <2>1. SUFFICES ASSUME order[o].status = "SEARCHING", order'[o].status = "NO_MASTERS"
                 PROVE  \A m \in Masters : ~Eligible(o, m) /\ CurrentOffers(o)[m] # "LIVE"
    OBVIOUS
  <2>2. Moves(o)
    BY <1>1, <2>1, RowsMove DEF Moves
  <2>3. DispatchExhaust(o)
    BY <2>1, <2>2 DEF Moves, ActiveMaster
  <2> QED
    BY <1>1, <2>3 DEF DispatchExhaust, Exhausted, OffersSound, OffersClaimed, Unanswered
<1>2. TypeOK /\ OffersSound /\ [Next]_vars => [\A o \in Orders : Real(o)]_vars
  BY <1>1
<1> QED
  BY <1>2, OffersInit, ConsentInit, TypeStep, TxSoundStep, ExclusionStep, OffersStep, PTL
     DEF Spec, ExhaustionIsReal

(* An order is cancelled with the amount its client was last shown, and     *)
(* that is 2500 exactly when the master has departed: the preview matches   *)
(* the row until the row is written.                                        *)
THEOREM ShownIsCharged == Spec => CancelledAsShown
<1> DEFINE Shown(o) ==
        order'[o].status = "CANCELLED_BY_CLIENT" /\ order[o].status # "CANCELLED_BY_CLIENT" =>
            /\ order'[o].cancellationAmount = preview[o].amount
            /\ order'[o].cancellationAmount = 2500 <=> order[o].departedAt
<1>1. ASSUME TypeOK, Next, NEW o \in Orders PROVE Shown(o)
  <2>1. SUFFICES ASSUME order'[o].status = "CANCELLED_BY_CLIENT", order[o].status # "CANCELLED_BY_CLIENT"
                 PROVE  /\ order'[o].cancellationAmount = preview[o].amount
                        /\ order'[o].cancellationAmount = 2500 <=> order[o].departedAt
    OBVIOUS
  <2>2. Moves(o)
    BY <1>1, <2>1, RowsMove DEF Moves
  <2>3. Cancel(o) /\ order'[o].cancellationAmount = CancellationAmount(o)
    BY <2>1, <2>2 DEF Moves, ActiveMaster
  <2>4. order[o].departedAt \in BOOLEAN
    BY <1>1 DEF TypeOK, Row
  <2> QED  BY <2>3, <2>4 DEF Cancel, TermsConfirmed, CancellationAmount
<1>2. TypeOK /\ [Next]_vars => [\A o \in Orders : Shown(o)]_vars
  BY <1>1
<1> QED
  BY <1>2, TypeInit, TypeStep, PTL DEF Spec, CancelledAsShown

(* An answer to an offer is never rewritten: an accept writes the offer it  *)
(* found pending, a dispatch the master it found without one, and           *)
(* everything else only what is pending.                                    *)
THEOREM AnswersStay == Spec => AnswersAreFinal
<1> DEFINE Answered == {"ACCEPTED", "LOST", "EXPIRED"}
           Final == \A o \in Orders, a \in Attempts, m \in Masters :
                       offer[o][a][m] \in Answered => offer'[o][a][m] = offer[o][a][m]
<1>1. ASSUME TypeOK, TxSound, OffersSound, Next PROVE Final
  <2>0. /\ {"EXPIRED", "LOST"} \subseteq Outcome \ Pending /\ Answered \cap Pending = {}
        /\ offer \in [Orders -> [Attempts -> [Masters -> Outcome]]]
        /\ \A o \in Orders : order[o].searchAttempt \in Attempts
    BY <1>1 DEF TypeOK, Row, Outcome, Pending
  <2>1. CASE offer' = offer
    BY <2>1
  <2>2. ASSUME NEW o \in Orders, NEW x \in {"EXPIRED", "LOST"},
               offer' \in {SettleAttempt(o, x), SettleOffers(o, x)}
        PROVE  Final
    <3>1. SettledWith(offer', o, x)
      BY <1>1, <2>0, <2>2, Settles
    <3>2. ASSUME NEW p \in Orders, NEW a \in Attempts, NEW m \in Masters, offer[p][a][m] \in Answered
          PROVE  offer'[p][a][m] = offer[p][a][m]
      <4>1. offer[p][a][m] \notin Pending
        BY <2>0, <3>2
      <4> HIDE DEF Answered
      <4> QED  BY <3>1, <3>2, <4>1 DEF SettledWith
    <3> QED  BY <3>2
  <2>3. ASSUME NEW o \in Orders, NEW m, NEW y, NEW x \in {"EXPIRED", "LOST"},
               CurrentOffers(o)[m] \notin Answered,
               offer' = [SettleAttempt(o, x) EXCEPT ![o][order[o].searchAttempt][m] = y]
        PROVE  Final
    <3> DEFINE f == SettleAttempt(o, x)
    <3>1. /\ f \in [Orders -> [Attempts -> [Masters -> Outcome]]]
          /\ \A p \in Orders \ {o} : f[p] = offer[p]
          /\ \A a \in Attempts, n \in Masters :
                IF offer[o][a][n] \in Pending THEN f[o][a][n] = x
                                              ELSE f[o][a][n] = offer[o][a][n]
      BY <1>1, <2>0, Settles DEF SettledWith
    <3> HIDE DEF f
    <3>2. offer' = [f EXCEPT ![o][order[o].searchAttempt][m] = y]
      BY <2>3 DEF f
    <3> HIDE DEF Answered
    <3>3. ASSUME NEW p \in Orders, NEW a \in Attempts, NEW n \in Masters, offer[p][a][n] \in Answered
          PROVE  offer'[p][a][n] = offer[p][a][n]
      <4>1. f[p][a][n] = offer[p][a][n]
        BY <2>0, <3>1, <3>3
      <4>2. ~(p = o /\ a = order[o].searchAttempt /\ n = m)
        BY <2>3, <3>3 DEF CurrentOffers
      <4> QED  BY <2>0, <3>1, <3>2, <4>1, <4>2
    <3> QED  BY <3>3
  <2>4. ASSUME NEW o \in Orders, NEW m \in Masters, NEW y, CurrentOffers(o)[m] \in Pending,
               offer' = [offer EXCEPT ![o][order[o].searchAttempt][m] = y]
        PROVE  Final
    BY <2>0, <2>4 DEF CurrentOffers
  <2> HIDE DEF Final
  <2>5. ASSUME NEW o \in Orders, OrderStep(o) PROVE Final
    <3>1. CASE AcceptCommit(o)
      <4>1. CurrentOffers(o)[tx[o].master] \in Pending
        BY <1>1, <3>1 DEF AcceptCommit, OffersSound, OffersClaimed
      <4> QED  BY <2>0, <2>3, <3>1, <4>1 DEF AcceptCommit
    <3>2. CASE DispatchOffer(o)
      <4>1. CurrentOffers(o)[tx[o].master] = "NONE"
        BY <1>1, <3>2 DEF DispatchOffer, OffersSound, OffersClaimed
      <4>2. CurrentOffers(o)[tx[o].master] \notin Answered
        BY <4>1
      <4>3. offer' = [SettleAttempt(o, "EXPIRED")
                         EXCEPT ![o][order[o].searchAttempt][tx[o].master] = "LIVE"]
        BY <3>2 DEF DispatchOffer
      <4> HIDE DEF Answered
      <4> QED  BY <2>3, <4>2, <4>3
    <3>3. CASE AssignCommit(o) \/ DispatchExhaust(o) \/ DispatchDefer(o) \/ Cancel(o)
      BY <2>2, <3>3 DEF AssignCommit, DispatchExhaust, DispatchDefer, Cancel
    <3>4. CASE Create(o) \/ Publish(o) \/ RetrySearch(o) \/ CancelByMaster(o) \/ OnWay(o) \/ OnSite(o)
                 \/ Complete(o) \/ AcceptResult(o)
      BY <2>1, <3>4 DEF Create, Publish, RetrySearch, CancelByMaster, OnWay, OnSite, Complete,
                        AcceptResult, Change
    <3>5. CASE DispatchSelect(o) \/ LockMaster(o) \/ Rollback(o) \/ CancellationPreview(o)
      BY <2>1, <3>5 DEF DispatchSelect, LockMaster, Rollback, CancellationPreview
    <3> QED  BY <2>5, <3>1, <3>2, <3>3, <3>4, <3>5 DEF OrderStep, TxStep
  <2>6. ASSUME NEW o \in Orders, NEW m \in Masters, MasterStep(o, m) PROVE Final
    <3>1. CASE OfferLapses(o, m) \/ DeclineOffer(o, m)
      BY <2>4, <3>1 DEF OfferLapses, DeclineOffer, Pending
    <3>2. CASE AcceptBegin(o, m) \/ AssignBegin(o, m)
      BY <2>1, <3>2 DEF AcceptBegin, AssignBegin
    <3> QED  BY <2>6, <3>1, <3>2 DEF MasterStep
  <2>7. ASSUME NEW o \in Orders, NEW v \in Versions, QuoteStep(o, v) PROVE Final
    BY <2>1, <2>7 DEF QuoteStep, Approve, Start, Propose, Change
  <2>8. ASSUME NEW m \in Masters, NEW s \in Standings, ChangeStanding(m, s) PROVE Final
    BY <2>1, <2>8 DEF ChangeStanding
  <2> QED  BY <1>1, <2>5, <2>6, <2>7, <2>8 DEF Next
<1>2. TypeOK /\ TxSound /\ OffersSound /\ [Next]_vars => [Final]_vars
  BY <1>1
<1> QED
  BY <1>2, OffersInit, ConsentInit, TypeStep, TxSoundStep, ExclusionStep, OffersStep, PTL
     DEF Spec, AnswersAreFinal

-----------------------------------------------------------------------------
(* Who has accepted *)

AcceptsSound == AcceptedOnce /\ AcceptsPast

(* A row written becomes early only in a new attempt, or stays so.          *)
Ages(o) ==
    /\ order'[o].searchAttempt >= order[o].searchAttempt
    /\ order'[o].status \in Early =>
          order[o].status \in Early \/ order'[o].searchAttempt > order[o].searchAttempt

LEMMA RowsAge == ASSUME TypeOK, Next PROVE \A o \in Orders : Ages(o)
<1>0. /\ order \in [Orders -> Row]
      /\ \A o \in Orders : order[o] \in Row /\ order[o].searchAttempt \in Nat
  BY BoundsAssumption DEF TypeOK, Row, Attempts
<1>1. ASSUME NEW o \in Orders, order'[o] = order[o] PROVE Ages(o)
  BY <1>0, <1>1 DEF Ages
<1>2. ASSUME NEW o \in Orders, NEW row, Write(o, row),
             row.searchAttempt >= order[o].searchAttempt,
             row.status \in Early =>
                 order[o].status \in Early \/ row.searchAttempt > order[o].searchAttempt
      PROVE  \A p \in Orders : Ages(p)
  <2>1. order'[o] = row /\ \A p \in Orders \ {o} : order'[p] = order[p]
    BY <1>0, <1>2 DEF Write
  <2> QED  BY <1>1, <1>2, <2>1 DEF Ages
<1>3. ASSUME NEW o \in Orders, NEW row, Write(o, row), row.searchAttempt = order[o].searchAttempt,
             row.status \notin Early \/ order[o].status \in Early
      PROVE  \A p \in Orders : Ages(p)
  BY <1>0, <1>2, <1>3
<1>4. ASSUME NEW o \in Orders, OrderStep(o) PROVE \A p \in Orders : Ages(p)
  <2>1. CASE Create(o)
    <3>1. LET row == [order[o] EXCEPT !.status = "CREATED"]
          IN  row.searchAttempt = order[o].searchAttempt
      BY <1>0 DEF Row
    <3> QED  BY <1>3, <2>1, <3>1 DEF Create, Early
  <2>2. CASE Publish(o)
    <3>1. LET row == [order[o] EXCEPT !.status = "SEARCHING"]
          IN  row.searchAttempt = order[o].searchAttempt
      BY <1>0 DEF Row
    <3> QED  BY <1>3, <2>2, <3>1 DEF Publish, Early
  <2>3. CASE RetrySearch(o)
    <3> DEFINE row == [order[o] EXCEPT !.status = "SEARCHING", !.searchAttempt = @ + 1]
    <3>1. row.searchAttempt = order[o].searchAttempt + 1
      BY <1>0 DEF Row
    <3>2. Write(o, row)
      BY <2>3 DEF RetrySearch
    <3> HIDE DEF row
    <3> QED  BY <1>0, <1>2, <3>1, <3>2
  <2>4. CASE CancelByMaster(o)
    <3> DEFINE row == [order[o] EXCEPT !.status = "SEARCHING", !.masterId = NoMaster,
                                       !.departedAt = FALSE, !.onSiteAt = FALSE,
                                       !.searchAttempt = @ + 1]
    <3>1. row.searchAttempt = order[o].searchAttempt + 1
      BY <1>0 DEF Row
    <3>2. Write(o, row)
      BY <2>4 DEF CancelByMaster
    <3> HIDE DEF row
    <3> QED  BY <1>0, <1>2, <3>1, <3>2
  <2>5. CASE DispatchExhaust(o)
    <3> DEFINE row == [order[o] EXCEPT !.status = "NO_MASTERS"]
    <3>1. row.searchAttempt = order[o].searchAttempt /\ row.status = "NO_MASTERS"
      BY <1>0 DEF Row
    <3>2. Write(o, row)
      BY <2>5 DEF DispatchExhaust
    <3> HIDE DEF row
    <3> QED  BY <1>3, <3>1, <3>2 DEF Early
  <2>6. CASE AcceptCommit(o) \/ AssignCommit(o)
    <3> DEFINE row == AssignedRow(o)
    <3>1. row.searchAttempt = order[o].searchAttempt /\ row.status = "ACCEPTED"
      BY <1>0 DEF Row, AssignedRow
    <3>2. Write(o, row)
      BY <2>6 DEF AcceptCommit, AssignCommit
    <3> HIDE DEF row
    <3> QED  BY <1>3, <3>1, <3>2 DEF Early
  <2>7. CASE Cancel(o)
    <3> DEFINE row == [order[o] EXCEPT !.status = "CANCELLED_BY_CLIENT",
                                       !.cancellationAmount = CancellationAmount(o)]
    <3>1. row.searchAttempt = order[o].searchAttempt /\ row.status = "CANCELLED_BY_CLIENT"
      BY <1>0 DEF Row
    <3>2. Write(o, row)
      BY <2>7 DEF Cancel
    <3> HIDE DEF row
    <3> QED  BY <1>3, <3>1, <3>2 DEF Early
  <2>8. CASE OnWay(o) \/ OnSite(o) \/ Complete(o) \/ AcceptResult(o)
    <3>1. PICK row : /\ Write(o, row) /\ row.searchAttempt = order[o].searchAttempt
                     /\ row.status \in {"MASTER_ON_WAY", "INSPECTION", "DONE", "CLOSED"}
      <4>1. CASE OnWay(o)
        <5> DEFINE row == [order[o] EXCEPT !.status = "MASTER_ON_WAY", !.departedAt = TRUE]
        <5>1. row.searchAttempt = order[o].searchAttempt /\ row.status = "MASTER_ON_WAY"
          BY <1>0 DEF Row
        <5>2. Write(o, row)
          BY <4>1 DEF OnWay, Change
        <5> HIDE DEF row
        <5> QED  BY <5>1, <5>2
      <4>2. CASE OnSite(o)
        <5> DEFINE row == [order[o] EXCEPT !.status = "INSPECTION", !.onSiteAt = TRUE]
        <5>1. row.searchAttempt = order[o].searchAttempt /\ row.status = "INSPECTION"
          BY <1>0 DEF Row
        <5>2. Write(o, row)
          BY <4>2 DEF OnSite, Change
        <5> HIDE DEF row
        <5> QED  BY <5>1, <5>2
      <4>3. ASSUME NEW x \in {"DONE", "CLOSED"}, Write(o, [order[o] EXCEPT !.status = x])
            PROVE  \E row : /\ Write(o, row) /\ row.searchAttempt = order[o].searchAttempt
                            /\ row.status \in {"MASTER_ON_WAY", "INSPECTION", "DONE", "CLOSED"}
        <5> DEFINE row == [order[o] EXCEPT !.status = x]
        <5>1. row.searchAttempt = order[o].searchAttempt /\ row.status = x
          BY <1>0 DEF Row
        <5>2. Write(o, row)
          BY <4>3
        <5> HIDE DEF row
        <5> QED  BY <5>1, <5>2
      <4> QED  BY <2>8, <4>1, <4>2, <4>3 DEF Complete, AcceptResult, Change
    <3> QED  BY <1>3, <3>1 DEF Early
  <2>9. CASE UNCHANGED order
    BY <1>1, <2>9
  <2> QED
    BY <1>4, <2>1, <2>2, <2>3, <2>4, <2>5, <2>6, <2>7, <2>8, <2>9
       DEF OrderStep, TxStep, DispatchSelect, LockMaster, DispatchOffer, DispatchDefer, Rollback,
           CancellationPreview
<1>5. ASSUME NEW o \in Orders, NEW m \in Masters, MasterStep(o, m) PROVE \A p \in Orders : Ages(p)
  BY <1>1, <1>5 DEF MasterStep, OfferLapses, DeclineOffer, AcceptBegin, AssignBegin
<1>6. ASSUME NEW o \in Orders, NEW v \in Versions, QuoteStep(o, v) PROVE \A p \in Orders : Ages(p)
  <2>1. PICK row : /\ Write(o, row) /\ row.searchAttempt = order[o].searchAttempt
                   /\ row.status \in {"AWAITING_PRICE_CONFIRM", "PRICE_APPROVED", "IN_PROGRESS"}
    <3>1. ASSUME NEW q \in Quotes
          PROVE  QuotedRow(o, q).searchAttempt = order[o].searchAttempt
                 /\ QuotedRow(o, q).status = "AWAITING_PRICE_CONFIRM"
      BY <1>0 DEF QuotedRow, Row
    <3>2. /\ LET row == [order[o] EXCEPT !.status = "PRICE_APPROVED", !.consentedVersion = v]
             IN  row.searchAttempt = order[o].searchAttempt /\ row.status = "PRICE_APPROVED"
          /\ LET row == [order[o] EXCEPT !.status = "IN_PROGRESS", !.workStartedAt = TRUE]
             IN  row.searchAttempt = order[o].searchAttempt /\ row.status = "IN_PROGRESS"
      BY <1>0 DEF Row
    <3> QED  BY <1>6, <3>1, <3>2 DEF QuoteStep, Approve, Start, Propose, Change
  <2> QED  BY <1>3, <2>1 DEF Early
<1>7. ASSUME NEW m \in Masters, NEW s \in Standings, ChangeStanding(m, s) PROVE \A p \in Orders : Ages(p)
  BY <1>1, <1>7 DEF ChangeStanding
<1> QED
  BY <1>4, <1>5, <1>6, <1>7, Zenon DEF Next

(* What a step does to offers: it opens none and accepts none, or dispatch  *)
(* asks whom it has claimed, or the one who was asked accepts.              *)
OpensNone ==
    \A o \in Orders, a \in Attempts, m \in Masters :
        /\ offer'[o][a][m] = "ACCEPTED" => offer[o][a][m] = "ACCEPTED"
        /\ offer'[o][a][m] \in Pending => offer[o][a][m] \in Pending
Writes(o, m, y) ==
    /\ \A p \in Orders \ {o} : offer'[p] = offer[p]
    /\ \A a \in Attempts, n \in Masters :
          IF a = order[o].searchAttempt /\ n = m THEN offer'[o][a][n] = y
          ELSE /\ offer'[o][a][n] = "ACCEPTED" => offer[o][a][n] = "ACCEPTED"
               /\ offer'[o][a][n] \notin Pending

LEMMA OffersWritten ==
    ASSUME TypeOK, TxSound, OffersSound, Next
    PROVE  \/ OpensNone
           \/ \E o \in Orders : DispatchOffer(o) /\ Writes(o, tx[o].master, "LIVE")
           \/ \E o \in Orders : AcceptCommit(o) /\ Writes(o, tx[o].master, "ACCEPTED")
<1>0. /\ {"EXPIRED", "LOST"} \subseteq Outcome \ Pending /\ "ACCEPTED" \notin Pending
      /\ offer \in [Orders -> [Attempts -> [Masters -> Outcome]]]
      /\ \A o \in Orders : order[o].searchAttempt \in Attempts
  BY DEF TypeOK, Row, Outcome, Pending
<1>1. ASSUME offer' = offer PROVE OpensNone
  BY <1>1 DEF OpensNone
<1>2. ASSUME NEW o \in Orders, NEW x \in {"EXPIRED", "LOST"},
             offer' \in {SettleAttempt(o, x), SettleOffers(o, x)}
      PROVE  OpensNone
  <2>1. SettledWith(offer', o, x)
    BY <1>0, <1>2, Settles
  <2>2. x # "ACCEPTED" /\ x \notin Pending
    BY <1>0
  <2>3. ASSUME NEW p \in Orders, NEW a \in Attempts, NEW m \in Masters
        PROVE  /\ offer'[p][a][m] = "ACCEPTED" => offer[p][a][m] = "ACCEPTED"
               /\ offer'[p][a][m] \in Pending => offer[p][a][m] \in Pending
    BY <2>1, <2>2 DEF SettledWith
  <2> QED  BY <2>3 DEF OpensNone
<1>3. ASSUME NEW o \in Orders, NEW m \in Masters, NEW y, NEW x \in {"EXPIRED", "LOST"},
             offer' = [SettleAttempt(o, x) EXCEPT ![o][order[o].searchAttempt][m] = y]
      PROVE  Writes(o, m, y)
  <2> DEFINE f == SettleAttempt(o, x)
  <2>1. /\ f \in [Orders -> [Attempts -> [Masters -> Outcome]]]
        /\ \A p \in Orders \ {o} : f[p] = offer[p]
        /\ \A a \in Attempts, n \in Masters :
              IF offer[o][a][n] \in Pending THEN f[o][a][n] = x
                                            ELSE f[o][a][n] = offer[o][a][n]
    BY <1>0, Settles DEF SettledWith
  <2>2. offer' = [f EXCEPT ![o][order[o].searchAttempt][m] = y]
    BY <1>3
  <2> HIDE DEF f
  <2>3. \A a \in Attempts, n \in Masters :
           f[o][a][n] \notin Pending /\ (f[o][a][n] = "ACCEPTED" => offer[o][a][n] = "ACCEPTED")
    BY <1>0, <2>1
  <2> QED  BY <1>0, <2>1, <2>2, <2>3 DEF Writes
<1>4. ASSUME NEW o \in Orders, NEW m \in Masters, NEW y \in {"LAPSED", "EXPIRED"},
             CurrentOffers(o)[m] \in Pending,
             offer' = [offer EXCEPT ![o][order[o].searchAttempt][m] = y]
      PROVE  OpensNone
  BY <1>0, <1>4 DEF CurrentOffers, OpensNone
<1>5. ASSUME NEW o \in Orders, OrderStep(o)
      PROVE  \/ OpensNone
             \/ DispatchOffer(o) /\ Writes(o, tx[o].master, "LIVE")
             \/ AcceptCommit(o) /\ Writes(o, tx[o].master, "ACCEPTED")
  <2>0. tx[o].locked => tx[o].master \in Masters
    BY DEF TxSound
  <2>1. CASE AcceptCommit(o)
    BY <1>3, <2>0, <2>1 DEF AcceptCommit
  <2>2. CASE DispatchOffer(o)
    <3>1. offer' = [SettleAttempt(o, "EXPIRED")
                       EXCEPT ![o][order[o].searchAttempt][tx[o].master] = "LIVE"]
      BY <2>2 DEF DispatchOffer
    <3>2. tx[o].master \in Masters
      BY <2>0, <2>2 DEF DispatchOffer
    <3> QED  BY <1>3, <2>2, <3>1, <3>2
  <2>3. CASE AssignCommit(o) \/ DispatchExhaust(o) \/ DispatchDefer(o) \/ Cancel(o)
    BY <1>2, <2>3 DEF AssignCommit, DispatchExhaust, DispatchDefer, Cancel
  <2>4. CASE Create(o) \/ Publish(o) \/ RetrySearch(o) \/ CancelByMaster(o) \/ OnWay(o) \/ OnSite(o)
               \/ Complete(o) \/ AcceptResult(o)
    BY <1>1, <2>4 DEF Create, Publish, RetrySearch, CancelByMaster, OnWay, OnSite, Complete,
                      AcceptResult, Change
  <2>5. CASE DispatchSelect(o) \/ LockMaster(o) \/ Rollback(o) \/ CancellationPreview(o)
    BY <1>1, <2>5 DEF DispatchSelect, LockMaster, Rollback, CancellationPreview
  <2> QED  BY <1>5, <2>1, <2>2, <2>3, <2>4, <2>5 DEF OrderStep, TxStep
<1>6. ASSUME NEW o \in Orders, NEW m \in Masters, MasterStep(o, m) PROVE OpensNone
  <2>1. CASE OfferLapses(o, m) \/ DeclineOffer(o, m)
    BY <1>4, <2>1 DEF OfferLapses, DeclineOffer, Pending
  <2>2. CASE AcceptBegin(o, m) \/ AssignBegin(o, m)
    BY <1>1, <2>2 DEF AcceptBegin, AssignBegin
  <2> QED  BY <1>6, <2>1, <2>2 DEF MasterStep
<1>7. ASSUME NEW o \in Orders, NEW v \in Versions, QuoteStep(o, v) PROVE OpensNone
  BY <1>1, <1>7 DEF QuoteStep, Approve, Start, Propose, Change
<1>8. ASSUME NEW m \in Masters, NEW s \in Standings, ChangeStanding(m, s) PROVE OpensNone
  BY <1>1, <1>8 DEF ChangeStanding
<1> QED
  BY <1>5, <1>6, <1>7, <1>8 DEF Next

(* Whom a dispatch claims has not accepted the order.                       *)
LEMMA ClaimsFresh ==
    ASSUME TypeOK, Next, AcceptsPast, NEW o \in Orders, tx'[o].op = "dispatch", tx'[o].locked
    PROVE  /\ \A a \in Attempts : offer[o][a][tx'[o].master] # "ACCEPTED" \/ tx'[o].master \notin Masters
           /\ ~AcceptCommit(o)
<1>0. NoTx.op = "none"
  BY DEF NoTx
<1>1. ~AcceptCommit(o)
  BY <1>0 DEF AcceptCommit, TypeOK
<1>2. CASE tx'[o] = tx[o]
  BY <1>1, <1>2 DEF AcceptsPast
<1>3. CASE tx'[o] # tx[o]
  <2>1. PICK p \in Orders : OrderStep(p) \/ \E m \in Masters : MasterStep(p, m)
    <3>1. ASSUME NEW q \in Orders, NEW v \in Versions, QuoteStep(q, v) PROVE tx' = tx
      BY <3>1 DEF QuoteStep, Approve, Start, Propose, Change
    <3>2. ASSUME NEW m \in Masters, NEW s \in Standings, ChangeStanding(m, s) PROVE tx' = tx
      BY <3>2 DEF ChangeStanding
    <3> QED  BY <1>3, <3>1, <3>2 DEF Next
  <2>2. CASE OrderStep(p)
    <3>1. CASE DispatchSelect(p)
      <4>1. CASE \E m \in Masters :
                    /\ Candidate(p, m)
                    /\ tx' = [tx EXCEPT ![p] = [op |-> "dispatch", master |-> m, locked |-> TRUE]]
        <5>1. PICK m \in Masters :
                    /\ Candidate(p, m)
                    /\ tx' = [tx EXCEPT ![p] = [op |-> "dispatch", master |-> m, locked |-> TRUE]]
          BY <4>1
        <5>2. p = o /\ tx'[o].master = m
          BY <1>3, <5>1 DEF TypeOK
        <5> QED  BY <1>1, <5>1, <5>2 DEF Candidate, Eligible
      <4>2. CASE tx' = [tx EXCEPT ![p] = [op |-> "dispatch", master |-> NoMaster, locked |-> FALSE]]
        BY <1>3, <4>2 DEF TypeOK
      <4> QED  BY <3>1, <4>1, <4>2 DEF DispatchSelect
    <3>2. CASE LockMaster(p)
      <4>1. tx[p].op \in {"accept", "assign"}
            /\ tx' \in {[tx EXCEPT ![p] = [tx[p] EXCEPT !.locked = TRUE]], [tx EXCEPT ![p] = NoTx]}
        BY <3>2 DEF LockMaster
      <4> QED  BY <1>0, <1>3, <4>1 DEF TypeOK, Tx
    <3>3. CASE tx' = [tx EXCEPT ![p] = NoTx] \/ UNCHANGED tx
      BY <1>0, <1>3, <3>3 DEF TypeOK
    <3> QED
      BY <2>2, <3>1, <3>2, <3>3
         DEF OrderStep, TxStep, Create, Publish, RetrySearch, CancelByMaster, OnWay, OnSite, Complete,
             AcceptResult, Change, AcceptCommit, AssignCommit, DispatchOffer, DispatchExhaust,
             DispatchDefer, Rollback, Cancel, CancellationPreview
  <2>3. ASSUME NEW m \in Masters, MasterStep(p, m) PROVE FALSE
    BY <1>3, <2>3 DEF MasterStep, OfferLapses, DeclineOffer, AcceptBegin, AssignBegin, TypeOK
  <2> QED  BY <2>1, <2>2, <2>3
<1> QED
  BY <1>2, <1>3

LEMMA AcceptsStep ==
    TypeOK /\ TxSound /\ OffersSound /\ AcceptsSound /\ [Next]_vars => AcceptsSound'
<1> SUFFICES ASSUME TypeOK, TxSound, OffersSound, AcceptsSound, [Next]_vars PROVE AcceptsSound'
  OBVIOUS
<1>0. /\ "LIVE" \in Pending /\ "ACCEPTED" \notin Pending /\ "LIVE" # "ACCEPTED"
      /\ \A o \in Orders : order[o].searchAttempt \in Attempts
      /\ Attempts \subseteq Nat
  BY BoundsAssumption DEF TypeOK, Row, Pending, Attempts
<1>1. CASE UNCHANGED vars
  BY <1>1 DEF vars, AcceptsSound, AcceptedOnce, AcceptsPast
<1>2. CASE Next
  <2>1. /\ \A o \in Orders : Ages(o)
        /\ TypeOK' /\ \A o \in Orders : order'[o].searchAttempt \in Attempts
    <3>1. TypeOK'
      BY <1>2, TypeStep
    <3> QED  BY <1>2, <3>1, RowsAge DEF TypeOK, Row
  <2>2. ASSUME NEW o \in Orders, NEW a \in Attempts, NEW m \in Masters, offer[o][a][m] = "ACCEPTED",
               ~AcceptCommit(o) \/ m # tx[o].master
        PROVE  /\ a <= order'[o].searchAttempt
               /\ order'[o].status \in Early => a # order'[o].searchAttempt
               /\ tx'[o].op = "dispatch" /\ tx'[o].locked => tx'[o].master # m
    <3>1. /\ a <= order[o].searchAttempt
          /\ order[o].status \in Early => a # order[o].searchAttempt
      BY <2>2 DEF AcceptsSound, AcceptsPast
    <3>2. /\ a <= order'[o].searchAttempt
          /\ order'[o].status \in Early => a # order'[o].searchAttempt
      BY <1>0, <2>1, <3>1 DEF Ages
    <3>3. tx'[o].op = "dispatch" /\ tx'[o].locked => tx'[o].master # m
      BY <1>2, <2>2, ClaimsFresh DEF AcceptsSound
    <3> QED  BY <3>2, <3>3
  <2>3. CASE OpensNone
    <3>1. AcceptedOnce'
      BY <2>3 DEF AcceptsSound, AcceptedOnce, OpensNone
    <3>2. ASSUME NEW o \in Orders, NEW a \in Attempts, NEW m \in Masters, offer'[o][a][m] = "ACCEPTED"
          PROVE  ~AcceptCommit(o) \/ m # tx[o].master
      <4>1. offer[o][a][m] = "ACCEPTED"
        BY <2>3, <3>2 DEF OpensNone
      <4>2. AcceptCommit(o) => CurrentOffers(o)[tx[o].master] \in Pending
        BY DEF AcceptCommit, OffersSound, OffersClaimed
      <4>3. \A b \in Attempts : offer[o][b][m] \notin Pending
        BY <4>1 DEF AcceptsSound, AcceptedOnce
      <4> QED  BY <1>0, <4>2, <4>3 DEF CurrentOffers
    <3>3. AcceptsPast'
      BY <2>2, <2>3, <3>2 DEF AcceptsPast, OpensNone
    <3> QED  BY <3>1, <3>3 DEF AcceptsSound
  <2>4. ASSUME NEW o \in Orders, DispatchOffer(o), Writes(o, tx[o].master, "LIVE")
        PROVE  AcceptsSound'
    <3> DEFINE w == tx[o].master
    <3>1. w \in Masters /\ \A a \in Attempts : offer[o][a][w] # "ACCEPTED"
      BY <2>4 DEF DispatchOffer, TxSound, AcceptsSound, AcceptsPast
    <3>2. \A p \in Orders, a \in Attempts, m \in Masters :
             offer'[p][a][m] = "ACCEPTED" => offer[p][a][m] = "ACCEPTED" /\ ~(p = o /\ m = w)
      <4> SUFFICES ASSUME NEW p \in Orders, NEW a \in Attempts, NEW m \in Masters,
                          offer'[p][a][m] = "ACCEPTED"
                   PROVE  offer[p][a][m] = "ACCEPTED" /\ ~(p = o /\ m = w)
        OBVIOUS
      <4>1. offer[p][a][m] = "ACCEPTED"
        BY <2>4 DEF Writes
      <4> QED  BY <3>1, <4>1
    <3>3. \A p \in Orders, a \in Attempts, m \in Masters :
             offer'[p][a][m] \in Pending => offer[p][a][m] \in Pending \/ (p = o /\ m = w)
      BY <2>4 DEF Writes
    <3>4. \A p \in Orders : ~AcceptCommit(p) \/ p # o
      BY <2>4 DEF DispatchOffer, AcceptCommit
    <3>5. \A p \in Orders \ {o} : ~AcceptCommit(p)
      BY <2>4 DEF DispatchOffer, AcceptCommit, NoTx, TypeOK
    <3> HIDE DEF w
    <3>6. AcceptedOnce'
      BY <3>2, <3>3 DEF AcceptsSound, AcceptedOnce
    <3>7. AcceptsPast'
      BY <2>2, <3>2, <3>4, <3>5 DEF AcceptsPast
    <3> QED  BY <3>6, <3>7 DEF AcceptsSound
  <2>5. ASSUME NEW o \in Orders, AcceptCommit(o), Writes(o, tx[o].master, "ACCEPTED")
        PROVE  AcceptsSound'
    <3> DEFINE w == tx[o].master
               c == order[o].searchAttempt
    <3>1. /\ w \in Masters /\ c \in Attempts /\ order[o].status = "SEARCHING"
          /\ offer[o][c][w] \in Pending
      BY <1>0, <2>5 DEF AcceptCommit, TxSound, OffersSound, OffersClaimed, CurrentOffers
    <3>2. /\ \A a \in Attempts : offer[o][a][w] # "ACCEPTED"
          /\ \A m \in Masters : offer[o][c][m] # "ACCEPTED"
      <4>1. \A m \in Masters : offer[o][c][m] # "ACCEPTED"
        BY <3>1 DEF AcceptsSound, AcceptsPast, Early
      <4> QED  BY <3>1, <4>1 DEF AcceptsSound, AcceptedOnce
    <3>3. /\ order'[o].status = "ACCEPTED" /\ order'[o].searchAttempt = c
          /\ tx'[o].op = "none"
      BY <2>5 DEF AcceptCommit, Write, AssignedRow, TypeOK, Row, NoTx
    <3>4. \A p \in Orders \ {o} : ~AcceptCommit(p)
      BY <2>5 DEF AcceptCommit, NoTx, TypeOK
    <3>5. \A p \in Orders, a \in Attempts, m \in Masters :
             offer'[p][a][m] = "ACCEPTED" =>
                 \/ offer[p][a][m] = "ACCEPTED" /\ ~(p = o /\ m = w) /\ ~(p = o /\ a = c)
                 \/ p = o /\ a = c /\ m = w
      BY <2>5, <3>2 DEF Writes
    <3>6. \A p \in Orders, a \in Attempts, m \in Masters :
             offer'[p][a][m] \in Pending => offer[p][a][m] \in Pending /\ p # o
      BY <1>0, <2>5 DEF Writes
    <3> HIDE DEF w, c
    <3>7. AcceptedOnce'
      BY <3>5, <3>6 DEF AcceptsSound, AcceptedOnce
    <3>8. AcceptsPast'
      <4> SUFFICES ASSUME NEW p \in Orders, NEW a \in Attempts, NEW m \in Masters,
                          offer'[p][a][m] = "ACCEPTED"
                   PROVE  /\ a <= order'[p].searchAttempt
                          /\ order'[p].status \in Early => a # order'[p].searchAttempt
                          /\ tx'[p].op = "dispatch" /\ tx'[p].locked => tx'[p].master # m
        BY DEF AcceptsPast
      <4>1. CASE p = o /\ a = c /\ m = w
        BY <1>0, <3>1, <3>3, <4>1 DEF Early
      <4>2. CASE offer[p][a][m] = "ACCEPTED" /\ ~(p = o /\ m = w)
        BY <2>2, <3>4, <4>2 DEF w
      <4> QED  BY <3>5, <4>1, <4>2
    <3> QED  BY <3>7, <3>8 DEF AcceptsSound
  <2> QED  BY <1>2, <2>3, <2>4, <2>5, OffersWritten
<1> QED
  BY <1>1, <1>2

(* One master at a time is asked about an order; nobody accepts it twice,   *)
(* and who has accepted it and stepped back is not asked about it again     *)
(* (eligibleQuery, acceptOffer, cancelByMaster).                            *)
THEOREM AskedAndAcceptedOnce == Spec => []OneAnswerAtATime
<1>1. Init => AcceptsSound
  <2> SUFFICES ASSUME Init PROVE AcceptsSound
    OBVIOUS
  <2>1. \A o \in Orders, a \in Attempts, m \in Masters : offer[o][a][m] # "ACCEPTED"
    BY DEF Init
  <2> QED  BY <2>1 DEF AcceptsSound, AcceptedOnce, AcceptsPast
<1>2. AcceptsSound => AcceptedOnce
  BY DEF AcceptsSound
<1>3. OnePendingOfferPerOrder /\ AcceptedOnce => OneAnswerAtATime
  BY DEF OneAnswerAtATime
<1> QED
  BY <1>1, <1>2, <1>3, AsksOne, AcceptsStep, OffersInit, ConsentInit, TypeStep, TxSoundStep,
     ExclusionStep, OffersStep, PTL DEF Spec

-----------------------------------------------------------------------------
(* Refinement *)

(* What one written row means for the bookings.                             *)
LEMMA Booked ==
    ASSUME TypeOK, NEW o \in Orders, order' \in [Orders -> Row],
           \A p \in Orders \ {o} : order'[p] = order[p]
    PROVE  /\ [p \in Orders |-> PhaseOf(order'[p])]
                = [[p \in Orders |-> PhaseOf(order[p])] EXCEPT ![o] = PhaseOf(order'[o])]
           /\ [p \in Orders |-> ServerOf(order'[p])]
                = [[p \in Orders |-> ServerOf(order[p])] EXCEPT ![o] = ServerOf(order'[o])]
OBVIOUS

(* Every step of an order is a step of Booking or none.                     *)
LEMMA BookingStep ==
    ASSUME TypeOK, TypeOK', TxSound, LocksExclude, NEW o \in Orders, Moves(o)
    PROVE  Bookings!Next \/ UNCHANGED Bookings!vars
<1> DEFINE phase == [p \in Orders |-> PhaseOf(order[p])]
           server == [p \in Orders |-> ServerOf(order[p])]
           old == order[o]
           new == order'[o]
<1>0. /\ phase' = [phase EXCEPT ![o] = PhaseOf(new)]
      /\ server' = [server EXCEPT ![o] = ServerOf(new)]
      /\ phase[o] = PhaseOf(old) /\ server[o] = ServerOf(old)
      /\ old \in Row /\ new \in Row
  BY Booked DEF Moves, TypeOK
<1> USE DEF ActiveMaster
<1>1. CASE Create(o) /\ new.status = "CREATED"
  <2>1. /\ PhaseOf(old) = "idle" /\ PhaseOf(new) = "open"
        /\ ServerOf(old) = NoMaster /\ ServerOf(new) = NoMaster
    BY <1>1 DEF Create, PhaseOf, ServerOf
  <2>2. ASSUME NEW p \in Orders \ {o}, ClientOf[p] = ClientOf[o]
        PROVE  PhaseOf(order[p]) \notin {"open", "booked", "underway"}
    <3>1. order[p].status \notin ActiveClient /\ order[p].status \in Status
      BY <1>1, <2>2 DEF Create, TypeOK, Row
    <3> QED  BY <3>1 DEF ActiveClient, Status, PhaseOf
  <2>3. Bookings!Open(o)
    BY <1>0, <2>1, <2>2 DEF Bookings!Open, Bookings!Running
  <2> QED  BY <2>3 DEF Bookings!Next
<1>2. CASE (Publish(o) \/ RetrySearch(o)) /\ new.status = "SEARCHING"
  <2>1. /\ PhaseOf(old) = "open" /\ PhaseOf(new) = "open"
        /\ ServerOf(old) = NoMaster /\ ServerOf(new) = NoMaster
    BY <1>2 DEF Publish, RetrySearch, PhaseOf, ServerOf
  <2> QED  BY <1>0, <2>1 DEF Bookings!vars
<1>3. CASE CancelByMaster(o) /\ new.status = "SEARCHING"
  <2>1. /\ PhaseOf(old) = "booked" /\ PhaseOf(new) = "open" /\ ServerOf(new) = NoMaster
    BY <1>3 DEF CancelByMaster, PhaseOf, ServerOf
  <2>2. Bookings!StepBack(o)
    BY <1>0, <2>1 DEF Bookings!StepBack
  <2> QED  BY <2>2 DEF Bookings!Next
<1>4. CASE DispatchExhaust(o) /\ new.status = "NO_MASTERS"
  <2>1. old.status = "SEARCHING"
    BY <1>4 DEF DispatchExhaust, TxSound
  <2>2. /\ PhaseOf(old) = "open" /\ PhaseOf(new) = "open"
        /\ ServerOf(old) = NoMaster /\ ServerOf(new) = NoMaster
    BY <1>4, <2>1 DEF PhaseOf, ServerOf
  <2> QED  BY <1>0, <2>2 DEF Bookings!vars
<1>5. CASE /\ AcceptCommit(o) \/ AssignCommit(o)
           /\ new.status = "ACCEPTED" /\ new.masterId = tx[o].master
  <2>1. /\ old.status = "SEARCHING" /\ tx[o].master \in Masters /\ ~Busy(tx[o].master)
    BY <1>5 DEF AcceptCommit, AssignCommit, TxSound, LocksExclude
  <2>2. /\ PhaseOf(old) = "open" /\ PhaseOf(new) = "booked" /\ ServerOf(new) = tx[o].master
    BY <1>5, <2>1 DEF PhaseOf, ServerOf
  <2>3. \A p \in Orders : ServerOf(order[p]) # tx[o].master
    BY <2>1, NoMasterAssumption DEF ServerOf, Busy, Occupies
  <2>4. Bookings!Book(o, tx[o].master)
    BY <1>0, <2>2, <2>3 DEF Bookings!Book
  <2> QED  BY <2>1, <2>4 DEF Bookings!Next
<1>6. CASE \/ Cancel(o) /\ new.status = "CANCELLED_BY_CLIENT"
           \/ AcceptResult(o) /\ new.status = "CLOSED"
  <2>1. old.status \in Cancellable \cup {"DONE"}
    BY <1>6 DEF Cancel, AcceptResult, Change
  <2>2. /\ PhaseOf(old) \in {"open", "booked", "underway"} /\ PhaseOf(new) = "over"
        /\ ServerOf(new) = NoMaster
    BY <1>6, <2>1 DEF Cancellable, PhaseOf, ServerOf
  <2>3. Bookings!Finish(o)
    BY <1>0, <2>2 DEF Bookings!Finish, Bookings!Running
  <2> QED  BY <2>3 DEF Bookings!Next
<1>7. CASE /\ old.status \in ActiveMaster
           /\ new.status \in (ActiveMaster \ {"ACCEPTED"}) \cup {"DONE"}
           /\ new.masterId = old.masterId
  <2>1. /\ PhaseOf(old) \in {"booked", "underway"} /\ PhaseOf(new) = "underway"
        /\ ServerOf(new) = ServerOf(old)
    BY <1>7 DEF PhaseOf, ServerOf
  <2>2. CASE PhaseOf(old) = "booked"
    <3>1. Bookings!SetOut(o)
      BY <1>0, <2>1, <2>2 DEF Bookings!SetOut
    <3> QED  BY <3>1 DEF Bookings!Next
  <2>3. CASE PhaseOf(old) = "underway"
    BY <1>0, <2>1, <2>3 DEF Bookings!vars
  <2> QED  BY <2>1, <2>2, <2>3
<1> QED
  BY <1>1, <1>2, <1>3, <1>4, <1>5, <1>6, <1>7 DEF Moves

(* The rows of any number of orders, with dispatch, contention, rollbacks   *)
(* and lapsing offers, implement Booking: whoever relies on exclusive,      *)
(* final bookings need not know how a master is found.                      *)
THEOREM RowsImplementBooking == Spec => ImplementsBooking
<1>1. Init => Bookings!Init
  <2> SUFFICES ASSUME Init PROVE Bookings!Init
    OBVIOUS
  <2>1. \A o \in Orders : order[o] = NewRow
    BY DEF Init
  <2>2. PhaseOf(NewRow) = "idle" /\ ServerOf(NewRow) = NoMaster
    BY DEF NewRow, PhaseOf, ServerOf, ActiveMaster
  <2> QED  BY <2>1, <2>2 DEF Bookings!Init
<1>2. TypeOK /\ TypeOK' /\ TxSound /\ LocksExclude /\ [Next]_vars => [Bookings!Next]_(Bookings!vars)
  <2> SUFFICES ASSUME TypeOK, TypeOK', TxSound, LocksExclude, [Next]_vars
               PROVE  [Bookings!Next]_(Bookings!vars)
    OBVIOUS
  <2>1. order' = order => UNCHANGED Bookings!vars
    BY DEF Bookings!vars
  <2>2. UNCHANGED vars => order' = order
    BY DEF vars
  <2> QED  BY <2>1, <2>2, RowsMove, BookingStep
<1> QED
  BY <1>1, <1>2, OffersInit, ConsentInit, TypeStep, TxSoundStep, ExclusionStep, PTL
     DEF Spec, ImplementsBooking, Bookings!Spec
=============================================================================
