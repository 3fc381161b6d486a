----------------------------- MODULE WaveProofs -----------------------------
(***************************************************************************)
(* What WaveOrders keeps for any masters, handlers and bounds.             *)
(***************************************************************************)
EXTENDS WaveOrders, TLAPS

-----------------------------------------------------------------------------
(* Types of the parts that statements write *)

\* Where a handler holds a job of a wave, and where the number of an attempt.
WaveStatement == {"readOrder", "findMasters", "recheck", "sendOffers", "sendTimeout",
                  "checkTimeout", "collect", "expire"}
StartStatement == {"createHold", "createGate", "sendWave"}
PlainStatement == Statement \ (WaveStatement \cup StartStatement)

\* A job of a wave has a wave and an attempt; what Call says alone would let a
\* handler send a job without them.
SoundCall ==
    {c \in Call : /\ c.at \in WaveStatement => c.wave \in 1..MaxWave /\ c.attempt \in Attempts
                  /\ c.at \in StartStatement => c.attempt \in Attempts}

CallType == call \in [Handlers -> SoundCall]
JobsType == jobs \subseteq Job
OfferType == offer \in [Attempts -> [Masters -> Offer]]

(* A handler keeps its shape when it goes to another statement or keeps     *)
(* something else in a local variable.                                      *)
LEMMA CallFields ==
    ASSUME NEW c \in Call
    PROVE  /\ \A s \in Statement : [c EXCEPT !.at = s] \in Call
           /\ \A who \in SUBSET Masters : [c EXCEPT !.who = who] \in Call
           /\ \A w \in 0..MaxWave : [c EXCEPT !.wave = w] \in Call
           /\ \A a \in 0..MaxAttempt : [c EXCEPT !.attempt = a] \in Call
           /\ \A j \in Job : [c EXCEPT !.job = j] \in Call
BY DEF Call

(* A handler with nothing to do, and one that has just begun a request, are *)
(* well formed records.                                                     *)
LEMMA RequestIsCall ==
    /\ Idle \in SoundCall
    /\ \A s \in Statement, who \in SUBSET Masters : Request(s, who) \in Call
    /\ \A s \in PlainStatement, who \in SUBSET Masters : Request(s, who) \in SoundCall
<1>1. "idle" \in Statement BY DEF Statement
<1>2. 0 \in 0..MaxWave /\ 0 \in 0..MaxAttempt BY BoundsAssumption
<1>3. [at |-> "idle", who |-> {}, wave |-> 0, attempt |-> 0, job |-> NoJob] \in Call
  <2>1. {} \in SUBSET Masters /\ NoJob \in Job \cup {NoJob} OBVIOUS
  <2> QED BY <1>1, <1>2, <2>1 DEF Call
<1>4. Idle \in Call BY <1>3 DEF Idle
<1>5. ASSUME NEW s \in Statement, NEW who \in SUBSET Masters
      PROVE  Request(s, who) \in Call /\ Request(s, who).at = s
  <2>1. [Idle EXCEPT !.at = s] \in Call BY <1>4, CallFields
  <2>2. [[Idle EXCEPT !.at = s] EXCEPT !.who = who] \in Call BY <2>1, CallFields
  <2>3. Request(s, who) = [[Idle EXCEPT !.at = s] EXCEPT !.who = who] BY DEF Request
  <2>4. [Idle EXCEPT !.at = s].at = s BY DEF Idle
  <2>5. [[Idle EXCEPT !.at = s] EXCEPT !.who = who].at = s BY <2>1, <2>4 DEF Call
  <2> QED BY <2>2, <2>3, <2>5
<1>6. Idle \in SoundCall BY <1>4 DEF Idle, SoundCall, WaveStatement, StartStatement
<1>7. ASSUME NEW s \in PlainStatement, NEW who \in SUBSET Masters
      PROVE  Request(s, who) \in SoundCall
  BY <1>5 DEF PlainStatement, SoundCall
<1> QED BY <1>5, <1>6, <1>7

(* What the fields of a handler hold.                                       *)
LEMMA FieldTypes ==
    ASSUME NEW c \in Call
    PROVE  /\ c.at \in Statement /\ c.who \in SUBSET Masters /\ c.wave \in 0..MaxWave
           /\ c.attempt \in 0..MaxAttempt /\ c.job \in Job \cup {NoJob}
BY DEF Call

(* Replacing one handler by a sound one.                                    *)
LEMMA CallSet ==
    ASSUME CallType, NEW h \in Handlers, NEW c \in SoundCall, call' = [call EXCEPT ![h] = c]
    PROVE  CallType'
BY DEF CallType

(* A handler may go anywhere from the same group of statements, and from    *)
(* everywhere to a statement that needs no numbers.                         *)
LEMMA Going ==
    ASSUME NEW c \in SoundCall, NEW s \in Statement,
           \/ s \in PlainStatement
           \/ s \in WaveStatement /\ c.at \in WaveStatement
           \/ s \in StartStatement /\ c.at \in StartStatement
    PROVE  [c EXCEPT !.at = s] \in SoundCall
<1>1. c \in Call BY DEF SoundCall
<1>2. [c EXCEPT !.at = s] \in Call BY <1>1, CallFields
<1>3. /\ [c EXCEPT !.at = s].at = s /\ [c EXCEPT !.at = s].wave = c.wave
      /\ [c EXCEPT !.at = s].attempt = c.attempt
  BY <1>1 DEF Call
<1>4. WaveStatement \cap StartStatement = {} BY DEF WaveStatement, StartStatement
<1> QED BY <1>2, <1>3, <1>4 DEF SoundCall, PlainStatement

(* What a handler keeps of masters does not matter to its numbers.          *)
LEMMA KeepWho ==
    ASSUME NEW c \in SoundCall, NEW who \in SUBSET Masters
    PROVE  [c EXCEPT !.who = who] \in SoundCall /\ [c EXCEPT !.who = who].at = c.at
<1>1. c \in Call BY DEF SoundCall
<1>2. [c EXCEPT !.who = who] \in Call BY <1>1, CallFields
<1>3. /\ [c EXCEPT !.who = who].at = c.at /\ [c EXCEPT !.who = who].wave = c.wave
      /\ [c EXCEPT !.who = who].attempt = c.attempt
  BY <1>1 DEF Call
<1> QED BY <1>2, <1>3 DEF SoundCall

(* ... and the same as a step.                                              *)
LEMMA GoToType ==
    ASSUME CallType, NEW h \in Handlers, NEW s \in Statement, GoTo(h, s),
           \/ s \in PlainStatement
           \/ s \in WaveStatement /\ call[h].at \in WaveStatement
           \/ s \in StartStatement /\ call[h].at \in StartStatement
    PROVE  CallType'
<1>1. call[h] \in SoundCall BY DEF CallType
<1>2. [call[h] EXCEPT !.at = s] \in SoundCall BY <1>1, Going
<1>3. call' = [call EXCEPT ![h] = [call[h] EXCEPT !.at = s]] BY DEF GoTo
<1> QED BY <1>2, <1>3, CallSet

(* Both ways in which a handler stops, and the send of a job before it,     *)
(* leave handlers and jobs well formed.                                     *)
LEMMA StopTypes ==
    ASSUME CallType, JobsType, NEW h \in Handlers,
           End(h) \/ Throw(h) \/ \E j \in Job : SendAndEnd(h, j)
    PROVE  CallType' /\ JobsType'
<1>1. call' = [call EXCEPT ![h] = Idle] BY DEF End, Throw, SendAndEnd
<1>2. CallType' BY <1>1, CallSet, RequestIsCall
<1>3. JobsType' BY DEF JobsType, End, Throw, SendAndEnd
<1> QED BY <1>2, <1>3

(* A row keeps its shape under each of its updates.                         *)
LEMMA RowFields ==
    ASSUME NEW r \in Row
    PROVE  /\ \A s \in Status : [r EXCEPT !.status = s] \in Row
           /\ \A m \in Masters \cup {NoMaster} : [r EXCEPT !.master = m] \in Row
           /\ \A w \in 0..MaxWave : [r EXCEPT !.wave = w] \in Row
           /\ \A a \in Attempts : [r EXCEPT !.attempt = a] \in Row
BY DEF Row

(* What the columns of a row hold.                                          *)
LEMMA ColumnTypes ==
    ASSUME NEW r \in Row
    PROVE  /\ r.status \in Status /\ r.master \in Masters \cup {NoMaster}
           /\ r.wave \in 0..MaxWave /\ r.attempt \in Attempts
BY DEF Row

(* A new attempt, with or without a change of the master, is a row.         *)
LEMMA NewAttemptType ==
    ASSUME order \in Row, order.attempt < MaxAttempt
    PROVE  NewAttempt \in Row /\ Withdrawn \in Row /\ order.attempt + 1 \in Attempts
<1>1. order.attempt + 1 \in Attempts BY ColumnTypes, BoundsAssumption DEF Attempts
<1>2. 0 \in 0..MaxWave BY BoundsAssumption
<1> DEFINE r1 == [order EXCEPT !.status = "SEARCHING"]
           r2 == [r1 EXCEPT !.wave = 0]
           r3 == [r2 EXCEPT !.attempt = order.attempt + 1]
<1>3. r1 \in Row BY RowFields DEF Status
<1>4. r2 \in Row BY <1>2, <1>3, RowFields
<1>5. r3 \in Row BY <1>1, <1>4, RowFields
<1>6. NewAttempt = r3 BY DEF NewAttempt, Row
<1>7. [r3 EXCEPT !.master = NoMaster] \in Row BY <1>5, RowFields
<1> QED BY <1>1, <1>5, <1>6, <1>7 DEF Withdrawn

(* Offers keep their type when some of them are answered or expire.         *)
LEMMA OutcomeTypes ==
    ASSUME OfferType
    PROVE  /\ ExpireAll \in [Attempts -> [Masters -> Offer]]
           /\ \A a \in Attempts, who \in SUBSET Masters, x \in {"LOST", "EXPIRED"} :
                 Settle(a, who, x) \in [Attempts -> [Masters -> Offer]]
<1>1. \A o \in Offer, x \in {"ACCEPTED", "LOST", "EXPIRED"} : [o EXCEPT !.outcome = x] \in Offer
  BY DEF Offer
<1>2. ExpireAll \in [Attempts -> [Masters -> Offer]] BY <1>1 DEF ExpireAll, OfferType
<1>3. ASSUME NEW a \in Attempts, NEW who \in SUBSET Masters, NEW x \in {"LOST", "EXPIRED"}
      PROVE  Settle(a, who, x) \in [Attempts -> [Masters -> Offer]]
  <2>1. [m \in Masters |-> IF m \in who THEN [offer[a][m] EXCEPT !.outcome = x] ELSE offer[a][m]]
            \in [Masters -> Offer]
    BY <1>1 DEF OfferType
  <2> QED BY <2>1 DEF Settle, OfferType
<1> QED BY <1>2, <1>3

(* The provider's rows and the accrual stay rows.                           *)
LEMMA MoneyFields ==
    ASSUME money \in Money
    PROVE  /\ money.holds < MaxHolds => [money EXCEPT !.holds = @ + 1] \in Money
           /\ [money EXCEPT !.captured = TRUE] \in Money
           /\ [money EXCEPT !.voided = TRUE] \in Money
           /\ Compensated \in Money
<1>1. money.holds < MaxHolds => money.holds + 1 \in 0..MaxHolds BY BoundsAssumption DEF Money
<1> QED BY <1>1 DEF Money, Compensated

-----------------------------------------------------------------------------
(* Every step keeps the types *)

\* The types that every step keeps.
TypeInv == TypeOK /\ CallType

(* What the conjuncts of the type invariant are called here.                *)
LEMMA Parts ==
    /\ TypeInv => /\ CallType /\ JobsType /\ OfferType
                 /\ order \in Row /\ money \in Money /\ dispute \in {"NONE", "OPEN", "RESOLVED"}
    /\ CallType' /\ JobsType' /\ OfferType' /\ order' \in Row /\ money' \in Money
          /\ dispute' \in {"NONE", "OPEN", "RESOLVED"} => TypeInv'
BY DEF TypeInv, TypeOK, CallType, JobsType, OfferType, SoundCall

(* What a handler has read has its type.                                    *)
LEMMA HandlerTypes ==
    ASSUME TypeInv, NEW h \in Handlers
    PROVE  /\ call[h] \in SoundCall /\ call[h] \in Call
           /\ call[h].at \in Statement /\ call[h].who \in SUBSET Masters
           /\ call[h].wave \in 0..MaxWave /\ call[h].attempt \in 0..MaxAttempt
           /\ call[h].job \in Job \cup {NoJob}
           /\ call[h].at \in WaveStatement => call[h].wave \in 1..MaxWave
           /\ call[h].at \in WaveStatement \cup StartStatement => call[h].attempt \in Attempts
<1>1. call[h] \in SoundCall BY DEF TypeInv, CallType
<1>2. call[h] \in Call BY <1>1 DEF SoundCall
<1> QED BY <1>1, <1>2, FieldTypes DEF SoundCall

(* A handler that begins with a request of its own.                         *)
LEMMA RequestType ==
    ASSUME CallType, NEW h \in Handlers, NEW s \in PlainStatement, NEW who \in SUBSET Masters,
           Begin(h, Request(s, who)) \/ call' = [call EXCEPT ![h] = Request(s, who)]
    PROVE  CallType'
<1>1. Request(s, who) \in SoundCall BY RequestIsCall
<1>2. call' = [call EXCEPT ![h] = Request(s, who)] BY DEF Begin
<1> QED BY <1>1, <1>2, CallSet

(* Creation, its hold, and the gates that start a search.                   *)
LEMMA StartTypes ==
    ASSUME TypeInv, NEW h \in Handlers,
           \/ Create(h) \/ AskRetry(h) \/ Hold(h) \/ PublishGate(h) \/ RetryGate(h) \/ SendWave(h)
    PROVE  TypeInv'
<1> USE Parts
<1>0. call[h] \in SoundCall /\ call[h] \in Call BY HandlerTypes
<1>1. CASE Create(h)
  <2>1. order' \in Row BY <1>1, RowFields DEF Create, Status
  <2>2. Request("createHold", {}) \in Call BY RequestIsCall DEF Statement
  <2>3. 1 \in 0..MaxAttempt /\ 1 \in Attempts BY BoundsAssumption DEF Attempts
  <2>4. [Request("createHold", {}) EXCEPT !.attempt = 1] \in SoundCall
    <3> DEFINE r == Request("createHold", {})
               c == [r EXCEPT !.attempt = 1]
    <3>1. c \in Call BY <2>2, <2>3, CallFields
    <3>2. r.at = "createHold" BY DEF Request, Idle
    <3>3. c.at = "createHold" /\ c.attempt = 1 BY <2>2, <3>2 DEF Call
    <3> QED BY <2>3, <3>1, <3>3 DEF SoundCall, WaveStatement
  <2>5. CallType' BY <1>1, <2>4, CallSet DEF Create, Begin
  <2> QED BY <1>1, <2>1, <2>5 DEF Create, JobsType, OfferType
<1>2. CASE AskRetry(h)
  <2>1. "retryHold" \in PlainStatement /\ {} \in SUBSET Masters
    BY DEF PlainStatement, Statement, WaveStatement, StartStatement
  <2>2. CallType' BY <1>2, <2>1, RequestType DEF AskRetry
  <2> QED BY <1>2, <2>2 DEF AskRetry, JobsType, OfferType
<1>3. CASE Hold(h)
  <2>1. "createGate" \in Statement /\ "createGate" \in StartStatement
        /\ "createHold" \in StartStatement /\ "retryGate" \in PlainStatement
    BY DEF PlainStatement, Statement, WaveStatement, StartStatement
  <2>2. At(h, "createHold") => CallType'
    <3>1. At(h, "createHold") => GoTo(h, "createGate") BY <1>3 DEF Hold
    <3> QED BY <2>1, <3>1, GoToType DEF At
  <2>3. ~At(h, "createHold") => CallType'
    <3>1. ~At(h, "createHold") => GoTo(h, "retryGate") BY <1>3 DEF Hold
    <3> QED BY <2>1, <3>1, GoToType DEF PlainStatement
  <2>4. CallType' BY <2>2, <2>3
  <2> QED BY <1>3, <2>4, MoneyFields DEF Hold, JobsType, OfferType
<1>4. CASE PublishGate(h)
  <2>1. "sendWave" \in Statement /\ "sendWave" \in StartStatement /\ "createGate" \in StartStatement
    BY DEF Statement, StartStatement
  <2>2. CallType' /\ JobsType' BY <1>4, <2>1, GoToType, StopTypes DEF PublishGate, JobsType, At
  <2>3. order' \in Row BY <1>4, RowFields DEF PublishGate, Status
  <2> QED BY <1>4, <2>2, <2>3 DEF PublishGate, OfferType
<1>5. CASE RetryGate(h)
  <2>1. CASE Gate({"NO_MASTERS"})
    <3>1. order' = NewAttempt /\ order.attempt < MaxAttempt BY <1>5, <2>1 DEF RetryGate
    <3>2. order' \in Row /\ order.attempt + 1 \in Attempts BY <3>1, NewAttemptType
    <3>3. order.attempt + 1 \in 0..MaxAttempt BY <3>2, BoundsAssumption DEF Attempts
    <3> DEFINE c1 == [call[h] EXCEPT !.at = "sendWave"]
               c2 == [c1 EXCEPT !.attempt = order.attempt + 1]
    <3>4. c1 \in Call BY <1>0, CallFields DEF Statement
    <3>5. c2 \in Call /\ c2.at = "sendWave" /\ c2.attempt = order.attempt + 1
      BY <1>0, <3>3, <3>4, CallFields DEF Call
    <3>8. c2 \in SoundCall BY <3>2, <3>5 DEF SoundCall, WaveStatement
    <3>6. call' = [call EXCEPT ![h] = c2] BY <1>5, <2>1 DEF RetryGate, CallType
    <3>7. CallType' BY <3>6, <3>8, CallSet
    <3> QED BY <1>5, <2>1, <3>2, <3>7 DEF RetryGate, JobsType, OfferType
  <2>2. CASE ~Gate({"NO_MASTERS"})
    <3>1. Throw(h) /\ UNCHANGED order BY <1>5, <2>2 DEF RetryGate
    <3>2. CallType' /\ JobsType' BY <3>1, StopTypes
    <3> QED BY <1>5, <3>1, <3>2 DEF RetryGate, OfferType
  <2> QED BY <2>1, <2>2
<1>6. CASE SendWave(h)
  <2>1. call[h].attempt \in Attempts BY <1>6, HandlerTypes DEF SendWave, At, StartStatement
  <2>2. WaveJob(call[h].attempt) \in Job BY <2>1 DEF Job
  <2>3. CallType' /\ JobsType' BY <1>6, <2>2, StopTypes DEF SendWave
  <2> QED BY <1>6, <2>3 DEF SendWave, OfferType
<1> QED BY <1>1, <1>2, <1>3, <1>4, <1>5, <1>6

(* The next wave has a number, and so the search goes on or is given up.    *)
LEMMA NextWaveType ==
    ASSUME TypeInv, NEW h \in Handlers, call[h].at \in WaveStatement, NextWave(h)
    PROVE  CallType'
<1> DEFINE c == call[h]
<1>1. c \in SoundCall /\ c \in Call BY HandlerTypes
<1>2. CASE c.wave < MaxWave
  <2> DEFINE c1 == [c EXCEPT !.at = "readOrder"]
             c2 == [c1 EXCEPT !.wave = c.wave + 1]
  <2>1. c.wave + 1 \in 1..MaxWave /\ c.wave + 1 \in 0..MaxWave
    BY <1>1, <1>2, FieldTypes, BoundsAssumption
  <2>2. c1 \in Call BY <1>1, CallFields DEF Statement
  <2>3. c2 \in Call BY <2>1, <2>2, CallFields
  <2>4. c2.at = "readOrder" /\ c2.wave = c.wave + 1 /\ c2.attempt = c.attempt
    BY <1>1, <2>2 DEF Call
  <2>5. c2 \in SoundCall
    BY <1>1, <2>1, <2>3, <2>4 DEF SoundCall, StartStatement
  <2>6. [c2 EXCEPT !.who = {}] \in SoundCall BY <2>5, KeepWho
  <2>7. call' = [call EXCEPT ![h] = [c2 EXCEPT !.who = {}]] BY <1>2 DEF NextWave
  <2> QED BY <2>6, <2>7, CallSet, Parts
<1>3. CASE ~(c.wave < MaxWave)
  <2>1. "giveUp" \in Statement /\ "giveUp" \in PlainStatement
    BY DEF PlainStatement, Statement, WaveStatement, StartStatement
  <2>2. [c EXCEPT !.at = "giveUp"] \in SoundCall BY <1>1, <2>1, Going
  <2>3. [[c EXCEPT !.at = "giveUp"] EXCEPT !.who = {}] \in SoundCall BY <2>2, KeepWho
  <2>4. call' = [call EXCEPT ![h] = [[c EXCEPT !.at = "giveUp"] EXCEPT !.who = {}]]
    BY <1>3 DEF NextWave
  <2> QED BY <2>3, <2>4, CallSet, Parts
<1> QED BY <1>2, <1>3

(* The first half of a wave job, which only reads.                          *)
LEMMA ReadTypes ==
    ASSUME TypeInv, NEW h \in Handlers,
           TakeJob(h) \/ ReadOrder(h) \/ FindMasters(h) \/ Recheck(h)
    PROVE  TypeInv'
<1> USE Parts
<1> DEFINE c == call[h]
<1>0. c \in SoundCall /\ c \in Call BY HandlerTypes
<1>1. CASE TakeJob(h)
  <2>1. PICK j \in jobs :
            /\ j.name \in {"WAVE", "WAVE_TIMEOUT"}
            /\ Begin(h, [Idle EXCEPT !.job = j, !.wave = j.wave, !.attempt = j.attempt,
                            !.at = IF j.name = "WAVE" THEN "readOrder" ELSE "checkTimeout"])
    BY <1>1 DEF TakeJob
  <2>2. j \in Job /\ j.wave \in 1..MaxWave /\ j.attempt \in Attempts
    BY <2>1, BoundsAssumption
       DEF JobsType, Job, WaveJob, WaveTimeoutJob, PriceTimeoutJob, AutoCloseJob
  <2>3. j.wave \in 0..MaxWave /\ j.attempt \in 0..MaxAttempt
    BY <2>2, BoundsAssumption DEF Attempts
  <2> DEFINE at == IF j.name = "WAVE" THEN "readOrder" ELSE "checkTimeout"
             c1 == [Idle EXCEPT !.job = j]
             c2 == [c1 EXCEPT !.wave = j.wave]
             c3 == [c2 EXCEPT !.attempt = j.attempt]
             c4 == [c3 EXCEPT !.at = at]
  <2>4. at \in Statement /\ at \in WaveStatement BY DEF Statement, WaveStatement
  <2>5. c1 \in Call
    <3>1. Idle \in Call BY RequestIsCall DEF SoundCall
    <3> QED BY <2>2, <3>1, CallFields
  <2>6. c2 \in Call BY <2>3, <2>5, CallFields
  <2>7. c3 \in Call BY <2>3, <2>6, CallFields
  <2>8. c4 \in Call /\ c4.at = at BY <2>4, <2>7, CallFields DEF Call
  <2>9. c4.wave = j.wave /\ c4.attempt = j.attempt BY <2>5, <2>6, <2>7 DEF Call
  <2>10. c4 \in SoundCall
    BY <2>2, <2>4, <2>8, <2>9 DEF SoundCall, WaveStatement, StartStatement
  <2>11. call' = [call EXCEPT ![h] = c4] BY <2>1 DEF Begin
  <2>12. CallType' BY <2>10, <2>11, CallSet
  <2> QED BY <1>1, <2>12 DEF TakeJob, JobsType, OfferType
<1>2. CASE ReadOrder(h)
  <2>1. c.at \in WaveStatement BY <1>2 DEF ReadOrder, At, WaveStatement
  <2>2. CallType' /\ JobsType'
    <3>1. CASE order.status = "SEARCHING"
      <4> DEFINE c1 == [c EXCEPT !.at = "findMasters"]
                 c2 == [c1 EXCEPT !.attempt = order.attempt]
      <4>1. order.attempt \in Attempts /\ order.attempt \in 0..MaxAttempt
        BY ColumnTypes, BoundsAssumption DEF Attempts
      <4>2. c1 \in Call BY <1>0, CallFields DEF Statement
      <4>3. c2 \in Call BY <4>1, <4>2, CallFields
      <4>4. c2.at = "findMasters" /\ c2.wave = c.wave /\ c2.attempt = order.attempt
        BY <1>0, <4>2 DEF Call
      <4>5. c2 \in SoundCall
        BY <1>0, <2>1, <4>1, <4>3, <4>4 DEF SoundCall, StartStatement
      <4>6. call' = [call EXCEPT ![h] = c2] BY <1>2, <3>1 DEF ReadOrder, CallType
      <4>7. CallType' BY <4>5, <4>6, CallSet
      <4> QED BY <1>2, <3>1, <4>7 DEF ReadOrder, JobsType
    <3>2. CASE order.status # "SEARCHING"
      BY <1>2, <3>2, StopTypes DEF ReadOrder
    <3> QED BY <3>1, <3>2
  <2> QED BY <1>2, <2>2 DEF ReadOrder, OfferType
<1>3. CASE FindMasters(h)
  <2>1. PICK found \in SUBSET Candidates(call[h].attempt) :
            call' = [call EXCEPT ![h].who = found,
                                 ![h].at = IF found = {} THEN "recheck" ELSE "sendOffers"]
    BY <1>3 DEF FindMasters
  <2> DEFINE at == IF found = {} THEN "recheck" ELSE "sendOffers"
             c1 == [c EXCEPT !.who = found]
  <2>2. found \in SUBSET Masters BY DEF Candidates
  <2>3. at \in Statement /\ at \in WaveStatement /\ c.at \in WaveStatement
    BY <1>3 DEF FindMasters, At, Statement, WaveStatement
  <2>4. c1 \in SoundCall /\ c1.at = c.at BY <1>0, <2>2, KeepWho
  <2>5. [c1 EXCEPT !.at = at] \in SoundCall BY <2>3, <2>4, Going
  <2>6. call' = [call EXCEPT ![h] = [c1 EXCEPT !.at = at]] BY <2>1 DEF CallType
  <2>7. CallType' BY <2>5, <2>6, CallSet
  <2> QED BY <1>3, <2>7 DEF FindMasters, JobsType, OfferType
<1>4. CASE Recheck(h)
  <2>1. c.at \in WaveStatement BY <1>4 DEF Recheck, At, WaveStatement
  <2>2. CallType' /\ JobsType'
    BY <1>4, <2>1, NextWaveType, StopTypes DEF Recheck, JobsType
  <2> QED BY <1>4, <2>2 DEF Recheck, OfferType
<1> QED BY <1>1, <1>2, <1>3, <1>4

(* The offers of a wave, and what its timeout does.                         *)
LEMMA WaveTypes ==
    ASSUME TypeInv, NEW h \in Handlers,
           \/ SendOffers(h) \/ SendTimeout(h) \/ CheckTimeout(h) \/ Collect(h) \/ Expire(h)
           \/ GiveUp(h) \/ Void(h)
    PROVE  TypeInv'
<1> USE Parts
<1> DEFINE c == call[h]
<1>0. c \in SoundCall /\ c \in Call BY HandlerTypes
<1>1. CASE SendOffers(h)
  <2>1. c.at \in WaveStatement /\ "sendTimeout" \in WaveStatement /\ "sendTimeout" \in Statement
    BY <1>1 DEF SendOffers, At, WaveStatement, Statement
  <2>2. c.wave \in 0..MaxWave /\ c.attempt \in Attempts BY <2>1, HandlerTypes
  <2>3. CASE WaveGate(c.wave)
    <3> DEFINE c1 == [c EXCEPT !.at = "sendTimeout"]
               new == [wave |-> c.wave, outcome |-> "PENDING"]
    <3>1. [c1 EXCEPT !.who = {}] \in SoundCall BY <1>0, <2>1, Going, KeepWho
    <3>2. call' = [call EXCEPT ![h] = [c1 EXCEPT !.who = {}]]
      BY <1>1, <2>3 DEF SendOffers, CallType
    <3>3. CallType' BY <3>1, <3>2, CallSet
    <3>4. order' \in Row BY <1>1, <2>2, <2>3, RowFields DEF SendOffers
    <3>5. new \in Offer BY <2>2 DEF Offer
    <3>6. offer' = [offer EXCEPT ![c.attempt] = [m \in Masters |->
              IF m \in c.who /\ offer[c.attempt][m].outcome = "NONE" THEN new
              ELSE offer[c.attempt][m]]]
      BY <1>1, <2>3 DEF SendOffers
    <3>7. OfferType' BY <2>2, <3>5, <3>6 DEF OfferType
    <3> QED BY <1>1, <2>3, <3>3, <3>4, <3>7 DEF SendOffers, JobsType
  <2>4. CASE ~WaveGate(c.wave)
    <3>1. End(h) /\ UNCHANGED <<order, offer, money, dispute>> BY <1>1, <2>4 DEF SendOffers
    <3> QED BY <3>1, StopTypes DEF OfferType
  <2> QED BY <2>3, <2>4
<1>2. CASE SendTimeout(h)
  <2>1. c.at \in WaveStatement BY <1>2 DEF SendTimeout, At, WaveStatement
  <2>2. WaveTimeoutJob(c.wave, c.attempt) \in Job BY <2>1, HandlerTypes DEF Job
  <2>3. CallType' /\ JobsType' BY <1>2, <2>2, StopTypes DEF SendTimeout
  <2> QED BY <1>2, <2>3 DEF SendTimeout, OfferType
<1>3. CASE CheckTimeout(h)
  <2>1. c.at \in WaveStatement /\ "collect" \in WaveStatement /\ "collect" \in Statement
    BY <1>3 DEF CheckTimeout, At, WaveStatement, Statement
  <2>2. CallType' /\ JobsType'
    BY <1>3, <2>1, GoToType, StopTypes DEF CheckTimeout, JobsType
  <2> QED BY <1>3, <2>2 DEF CheckTimeout, OfferType
<1>4. CASE Collect(h)
  <2> DEFINE open == {m \in Masters :
                 offer[c.attempt][m] = [wave |-> c.wave, outcome |-> "PENDING"]}
             c1 == [c EXCEPT !.at = "expire"]
  <2>1. c.at \in WaveStatement /\ "expire" \in WaveStatement /\ "expire" \in Statement
    BY <1>4 DEF Collect, At, WaveStatement, Statement
  <2>2. [c1 EXCEPT !.who = open] \in SoundCall BY <1>0, <2>1, Going, KeepWho
  <2>3. call' = [call EXCEPT ![h] = [c1 EXCEPT !.who = open]] BY <1>4 DEF Collect, CallType
  <2>4. CallType' BY <2>2, <2>3, CallSet
  <2> QED BY <1>4, <2>4 DEF Collect, JobsType, OfferType
<1>5. CASE Expire(h)
  <2>1. c.at \in WaveStatement BY <1>5 DEF Expire, At, WaveStatement
  <2>2. CallType' BY <1>5, <2>1, NextWaveType DEF Expire
  <2>3. c.attempt \in Attempts /\ c.who \in SUBSET Masters BY <2>1, HandlerTypes
  <2>4. OfferType' BY <1>5, <2>3, OutcomeTypes DEF Expire, OfferType
  <2> QED BY <1>5, <2>2, <2>4 DEF Expire, JobsType
<1>6. CASE GiveUp(h)
  <2>1. "void" \in Statement /\ "void" \in PlainStatement
    BY DEF PlainStatement, Statement, WaveStatement, StartStatement
  <2>2. CallType' /\ JobsType' BY <1>6, <2>1, GoToType, StopTypes DEF GiveUp, JobsType
  <2>3. OfferType' BY <1>6, OutcomeTypes DEF GiveUp, OfferType
  <2>4. order' \in Row BY <1>6, RowFields DEF GiveUp, Status
  <2> QED BY <1>6, <2>2, <2>3, <2>4 DEF GiveUp
<1>7. CASE Void(h)
  <2>1. CallType' /\ JobsType' BY <1>7, StopTypes DEF Void
  <2>2. money' \in Money BY <1>7, MoneyFields DEF Void
  <2> QED BY <1>7, <2>1, <2>2 DEF Void, OfferType
<1> QED BY <1>1, <1>2, <1>3, <1>4, <1>5, <1>6, <1>7

(* The assignment of a master and the capture after it.                     *)
LEMMA AssignTypes ==
    ASSUME TypeInv, NEW h \in Handlers,
           \/ Answer(h) \/ Capture(h)
           \/ \E m \in Masters : Accept(h, m) \/ ManualAssign(h, m) \/ AskMaster(h, m)
    PROVE  TypeInv'
<1> USE Parts
<1> DEFINE c == call[h]
<1>0. c \in SoundCall /\ c \in Call /\ order.attempt \in Attempts
  BY HandlerTypes, ColumnTypes
<1>1. {"answer", "capture"} \cup MasterRequest \subseteq PlainStatement
  BY DEF PlainStatement, Statement, WaveStatement, StartStatement, MasterRequest, Moves
<1>2. \A m \in Masters : [[order EXCEPT !.status = "ACCEPTED"] EXCEPT !.master = m] \in Row
  BY RowFields DEF Status, Served
<1>3. Settle(order.attempt, Rest, "LOST") \in [Attempts -> [Masters -> Offer]]
  BY <1>0, OutcomeTypes DEF Rest
<1>4. CASE Answer(h)
  <2>1. PICK m \in c.who :
            /\ order' = [order EXCEPT !.status = "ACCEPTED", !.master = m]
            /\ offer' = Won(m)
            /\ call' = [call EXCEPT ![h].at = "capture", ![h].who = {}]
    BY <1>4 DEF Answer
  <2>2. m \in Masters BY <1>0, FieldTypes
  <2>3. order' \in Row BY <1>2, <2>1, <2>2
  <2>4. \A o \in Offer : [o EXCEPT !.outcome = "ACCEPTED"] \in Offer BY DEF Offer
  <2>5. OfferType' BY <1>0, <1>3, <2>1, <2>2, <2>4 DEF Won, OfferType
  <2>6. [[c EXCEPT !.at = "capture"] EXCEPT !.who = {}] \in SoundCall
    BY <1>0, <1>1, Going, KeepWho DEF PlainStatement
  <2>7. call' = [call EXCEPT ![h] = [[c EXCEPT !.at = "capture"] EXCEPT !.who = {}]]
    BY <2>1 DEF CallType
  <2>8. CallType' BY <2>6, <2>7, CallSet
  <2> QED BY <1>4, <2>3, <2>5, <2>8 DEF Answer, JobsType
<1>5. CASE Capture(h)
  <2>1. CallType' /\ JobsType' BY <1>5, StopTypes DEF Capture
  <2>2. money' \in Money BY <1>5, MoneyFields DEF Capture
  <2> QED BY <1>5, <2>1, <2>2 DEF Capture, OfferType
<1>6. ASSUME NEW m \in Masters, Accept(h, m) PROVE TypeInv'
  <2>1. CallType' BY <1>1, <1>6, RequestType DEF Accept
  <2> QED BY <1>6, <2>1 DEF Accept, JobsType, OfferType
<1>7. ASSUME NEW m \in Masters, ManualAssign(h, m) PROVE TypeInv'
  <2>0. Begin(h, Request("capture", {})) BY <1>7 DEF ManualAssign
  <2>1. CallType' BY <1>1, <2>0, RequestType
  <2>2. order' \in Row BY <1>2, <1>7 DEF ManualAssign
  <2>3. OfferType' BY <1>3, <1>7 DEF ManualAssign, OfferType
  <2> QED BY <1>7, <2>1, <2>2, <2>3 DEF ManualAssign, JobsType
<1>8. ASSUME NEW m \in Masters, AskMaster(h, m) PROVE TypeInv'
  <2>1. CallType' BY <1>1, <1>8, RequestType DEF AskMaster
  <2> QED BY <1>8, <2>1 DEF AskMaster, JobsType, OfferType
<1> QED BY <1>4, <1>5, <1>6, <1>7, <1>8

(* What the assigned master asks for.                                       *)
LEMMA MasterTypes ==
    ASSUME TypeInv, NEW h \in Handlers, Withdraw(h) \/ Move(h) \/ SendDeadline(h)
    PROVE  TypeInv'
<1> USE Parts
<1> DEFINE c == call[h]
<1>0. c \in SoundCall /\ c \in Call BY HandlerTypes
<1>1. CASE Withdraw(h)
  <2>1. CASE Gate({"ACCEPTED", "MASTER_ON_WAY"})
    <3>1. order' = Withdrawn /\ order.attempt < MaxAttempt BY <1>1, <2>1 DEF Withdraw
    <3>2. order' \in Row /\ order.attempt + 1 \in Attempts BY <3>1, NewAttemptType
    <3>3. order.attempt + 1 \in 0..MaxAttempt BY <3>2, BoundsAssumption DEF Attempts
    <3> DEFINE c1 == [c EXCEPT !.at = "sendWave"]
               c2 == [c1 EXCEPT !.who = {}]
               c3 == [c2 EXCEPT !.attempt = order.attempt + 1]
    <3>4. c1 \in Call BY <1>0, CallFields DEF Statement
    <3>5. c2 \in Call /\ c2.at = "sendWave" BY <1>0, <3>4, CallFields DEF Call
    <3>6. c3 \in Call /\ c3.at = "sendWave" /\ c3.attempt = order.attempt + 1
      BY <3>3, <3>5, CallFields DEF Call
    <3>7. c3 \in SoundCall BY <3>2, <3>6 DEF SoundCall, WaveStatement
    <3>8. call' = [call EXCEPT ![h] = c3] BY <1>1, <2>1 DEF Withdraw
    <3>9. CallType' BY <3>7, <3>8, CallSet
    <3> QED BY <1>1, <2>1, <3>2, <3>9 DEF Withdraw, JobsType, OfferType
  <2>2. CASE ~Gate({"ACCEPTED", "MASTER_ON_WAY"})
    <3>1. Throw(h) /\ UNCHANGED order BY <1>1, <2>2 DEF Withdraw
    <3>2. CallType' /\ JobsType' BY <3>1, StopTypes
    <3> QED BY <1>1, <3>1, <3>2 DEF Withdraw, OfferType
  <2> QED BY <2>1, <2>2
<1>2. CASE Move(h)
  <2>1. order' \in Row
    <3>1. Moves[c.at].to \in Status BY <1>2 DEF Move, Moves, Status, Served
    <3> QED BY <1>2, <3>1, RowFields DEF Move
  <2>2. \A s \in {"sendPriceTimeout", "sendAutoClose", "idle"} : s \in PlainStatement
    BY DEF PlainStatement, Statement, WaveStatement, StartStatement
  <2>3. AfterMove(h) => CallType'
    <3> DEFINE next == CASE At(h, "propose") -> "sendPriceTimeout"
                         [] At(h, "complete") -> "sendAutoClose"
                         [] OTHER -> "idle"
    <3>1. next \in PlainStatement BY <2>2
    <3>2. AfterMove(h) => call' = [call EXCEPT ![h] = Request(next, {})] BY DEF AfterMove
    <3> QED BY <3>1, <3>2, RequestType
  <2>4. call' = [call EXCEPT ![h] = Idle] => CallType' BY RequestIsCall, CallSet
  <2>5. CallType' BY <1>2, <2>3, <2>4 DEF Move
  <2> QED BY <1>2, <2>1, <2>5 DEF Move, JobsType, OfferType
<1>3. CASE SendDeadline(h)
  <2>1. PriceTimeoutJob \in Job /\ AutoCloseJob \in Job BY DEF Job
  <2>2. CallType' /\ JobsType' BY <1>3, <2>1, StopTypes DEF SendDeadline
  <2> QED BY <1>3, <2>2 DEF SendDeadline, OfferType
<1> QED BY <1>1, <1>2, <1>3

(* Cancellations, prices, closing and disputes.                             *)
LEMMA EndTypes ==
    ASSUME TypeInv,
           \/ PriceTimeout \/ ConfirmPrice \/ ConfirmCompletion \/ OpenDispute \/ ResolveDispute
           \/ \E h \in Handlers :
                 \/ AskCancel(h) \/ CancelFree(h) \/ CancelPaid(h)
                 \/ ReadDispute(h) \/ AutoClose(h) \/ Die(h)
    PROVE  TypeInv'
<1> USE Parts
<1>1. ASSUME NEW s \in {"CANCELLED_BY_CLIENT", "CLOSED", "IN_PROGRESS"}, Finish(s)
      PROVE  order' \in Row
  <2>1. s \in Status BY DEF Status, Served, Over
  <2> QED BY <1>1, <2>1, RowFields DEF Finish
<1>2. Compensated \in Money BY MoneyFields
<1>3. ASSUME NEW from, PaidCancellation(from) PROVE order' \in Row /\ money' \in Money
  <2>1. CASE Gate(from)
    <3>1. Finish("CANCELLED_BY_CLIENT") /\ money' = Compensated BY <1>3, <2>1 DEF PaidCancellation
    <3> QED BY <1>1, <1>2, <3>1
  <2>2. CASE ~Gate(from) BY <1>3, <2>2 DEF PaidCancellation
  <2> QED BY <2>1, <2>2
<1>4. CASE PriceTimeout
  <2>1. order' \in Row /\ money' \in Money BY <1>3, <1>4 DEF PriceTimeout
  <2> QED BY <1>4, <2>1 DEF PriceTimeout, CallType, JobsType, OfferType
<1>5. CASE ConfirmPrice
  BY <1>1, <1>5 DEF ConfirmPrice, CallType, JobsType, OfferType
<1>6. CASE ConfirmCompletion
  BY <1>1, <1>2, <1>6 DEF ConfirmCompletion, CallType, JobsType, OfferType
<1>7. CASE OpenDispute
  BY <1>7 DEF OpenDispute, CallType, JobsType, OfferType
<1>8. CASE ResolveDispute
  <2>1. order' \in Row /\ money' \in Money BY <1>1, <1>2, <1>8 DEF ResolveDispute
  <2> QED BY <1>8, <2>1 DEF ResolveDispute, CallType, JobsType, OfferType
<1>9. ASSUME NEW h \in Handlers,
             \/ AskCancel(h) \/ CancelFree(h) \/ CancelPaid(h)
             \/ ReadDispute(h) \/ AutoClose(h) \/ Die(h)
      PROVE  TypeInv'
  <2>0. call[h] \in SoundCall /\ call[h] \in Call BY HandlerTypes
  <2>1. {"cancelHeld", "cancelVoided", "cancelPaid", "cancelAwaiting", "void", "idle", "close"}
            \subseteq PlainStatement
    BY DEF PlainStatement, Statement, WaveStatement, StartStatement
  <2>2. call' = [call EXCEPT ![h] = Idle] => CallType' BY RequestIsCall, CallSet
  <2>3. CASE AskCancel(h)
    <3>1. PICK s \in {"cancelHeld", "cancelVoided", "cancelPaid", "cancelAwaiting"} :
              Begin(h, Request(s, {}))
      BY <2>3 DEF AskCancel
    <3>2. CallType' BY <2>1, <3>1, RequestType
    <3> QED BY <2>3, <3>2 DEF AskCancel, JobsType, OfferType
  <2>4. CASE CancelFree(h)
    <3>1. order' \in Row /\ OfferType' BY <1>1, <2>4, OutcomeTypes DEF CancelFree, OfferType
    <3>2. \A s \in {"void", "idle"} : GoTo(h, s) => CallType'
      BY <2>1, GoToType DEF PlainStatement
    <3>3. CallType' BY <2>2, <2>4, <3>2 DEF CancelFree
    <3> QED BY <2>4, <3>1, <3>3 DEF CancelFree, JobsType
  <2>5. CASE CancelPaid(h)
    <3>1. order' \in Row /\ money' \in Money BY <1>3, <2>5 DEF CancelPaid
    <3> QED BY <2>2, <2>5, <3>1 DEF CancelPaid, JobsType, OfferType
  <2>6. CASE ReadDispute(h)
    <3> DEFINE c1 == [Idle EXCEPT !.at = "close"]
               c2 == [c1 EXCEPT !.job = AutoCloseJob]
    <3>1. c1 \in SoundCall /\ c1 \in Call BY <2>1, RequestIsCall, Going DEF PlainStatement, SoundCall
    <3>2. AutoCloseJob \in Job BY DEF Job
    <3>3. c2 \in Call BY <3>1, <3>2, CallFields
    <3>4. c1.at = "close" BY DEF Idle
    <3>5. c2.at = "close" BY <3>1, <3>4 DEF Call
    <3>6. c2 \in SoundCall BY <3>3, <3>5 DEF SoundCall, WaveStatement, StartStatement
    <3>7. Begin(h, [Idle EXCEPT !.at = "close", !.job = AutoCloseJob]) => CallType'
      BY <3>6, CallSet DEF Begin
    <3>8. CallType' /\ JobsType' BY <2>6, <3>7 DEF ReadDispute, JobsType, CallType
    <3> QED BY <2>6, <3>8 DEF ReadDispute, OfferType
  <2>7. CASE AutoClose(h)
    <3>1. order' \in Row /\ money' \in Money BY <1>1, <1>2, <2>7 DEF AutoClose
    <3>2. CallType' /\ JobsType' BY <2>7, StopTypes DEF AutoClose
    <3> QED BY <2>7, <3>1, <3>2 DEF AutoClose, OfferType
  <2>8. CASE Die(h)
    <3>1. CallType' /\ JobsType' BY <2>8, StopTypes DEF Die
    <3> QED BY <2>8, <3>1 DEF Die, OfferType
  <2> QED BY <1>9, <2>3, <2>4, <2>5, <2>6, <2>7, <2>8
<1> QED BY <1>4, <1>5, <1>6, <1>7, <1>8, <1>9

(* Types hold at first, and every step keeps them.                          *)
LEMMA InitTypes == Init => TypeInv
<1> SUFFICES ASSUME Init PROVE TypeInv
  OBVIOUS
<1>1. 0 \in 0..MaxWave /\ 0 \in 0..MaxHolds /\ 1 \in Attempts BY BoundsAssumption DEF Attempts
<1>2. order \in Row /\ money \in Money /\ dispute \in {"NONE", "OPEN", "RESOLVED"} /\ JobsType
  BY <1>1 DEF Init, Row, Status, Money, JobsType
<1>3. OfferType BY <1>1 DEF Init, OfferType, Offer
<1>4. CallType BY RequestIsCall DEF Init, CallType
<1> QED BY <1>2, <1>3, <1>4
     DEF TypeInv, TypeOK, CallType, JobsType, OfferType, SoundCall

(* Every step keeps the types, and that a handler at a wave job has read    *)
(* its wave and attempt.                                                    *)
LEMMA StepTypes == TypeInv /\ [Next]_vars => TypeInv'
<1> SUFFICES ASSUME TypeInv, [Next]_vars PROVE TypeInv'
  OBVIOUS
<1>1. CASE UNCHANGED vars
  BY <1>1 DEF vars, TypeInv, TypeOK, CallType
<1>2. ASSUME NEW h \in Handlers, Requests(h) \/ Deliver(h) \/ Proceed(h) \/ Die(h) PROVE TypeInv'
  <2>1. CASE Requests(h) BY <2>1, StartTypes, AssignTypes, EndTypes DEF Requests
  <2>2. CASE Deliver(h) BY <2>2, ReadTypes, EndTypes DEF Deliver
  <2>3. CASE Proceed(h)
    BY <2>3, StartTypes, ReadTypes, WaveTypes, AssignTypes, MasterTypes, EndTypes DEF Proceed
  <2>4. CASE Die(h) BY <2>4, EndTypes
  <2> QED BY <1>2, <2>1, <2>2, <2>3, <2>4
<1>3. CASE PriceTimeout \/ ConfirmPrice \/ ConfirmCompletion \/ OpenDispute \/ ResolveDispute
  BY <1>3, EndTypes
<1> QED BY <1>1, <1>2, <1>3 DEF Next

(* Every variable of WaveOrders keeps its type, in particular no handler     *)
(* ever asks for a wave above MAX_WAVE, for which there is no radius.         *)
THEOREM WaveTypeCorrect == Spec => []TypeOK
<1>1. TypeInv => TypeOK BY DEF TypeInv
<1> QED BY <1>1, InitTypes, StepTypes, PTL DEF Spec

-----------------------------------------------------------------------------
(* Who is inside the transaction of accept *)

Answering == {h \in Handlers : At(h, "answer")}

(* Handler h, and no other, does something else than answer.                *)
Elsewhere(h) ==
    /\ \A g \in Handlers \ {h} : call'[g] = call[g]
    /\ call'[h].at # "answer"

(* Nobody comes to answer when one handler goes elsewhere.                  *)
LEMMA ElsewhereEnds ==
    ASSUME NEW h \in Handlers, Elsewhere(h)
    PROVE  Answering' \subseteq Answering \ {h}
BY DEF Elsewhere, Answering, At

(* Where the forms in which handlers go on lead.                            *)
LEMMA Forms ==
    ASSUME TypeInv, NEW h \in Handlers
    PROVE  /\ \A s \in Statement : GoTo(h, s) /\ s # "answer" => Elsewhere(h)
           /\ \A s \in Statement, who \in SUBSET Masters :
                 Begin(h, Request(s, who)) /\ s # "answer" => Elsewhere(h)
           /\ End(h) => Elsewhere(h)
           /\ Throw(h) => Elsewhere(h)
           /\ \A j : SendAndEnd(h, j) => Elsewhere(h)
           /\ call' = [call EXCEPT ![h] = Idle] => Elsewhere(h)
           /\ NextWave(h) => Elsewhere(h)
<1>1. call[h] \in Call /\ CallType BY HandlerTypes DEF TypeInv
<1>2. Idle.at # "answer" BY DEF Idle
<1>3. \A s \in Statement, who \in SUBSET Masters : Request(s, who).at = s BY DEF Request, Idle
<1>4. ASSUME NEW s \in Statement, GoTo(h, s), s # "answer" PROVE Elsewhere(h)
  BY <1>1, <1>4 DEF GoTo, Elsewhere, CallType, Call
<1>5. ASSUME NEW s \in Statement, NEW who \in SUBSET Masters,
             Begin(h, Request(s, who)), s # "answer"
      PROVE  Elsewhere(h)
  BY <1>1, <1>3, <1>5 DEF Begin, Elsewhere, CallType
<1>6. call' = [call EXCEPT ![h] = Idle] => Elsewhere(h)
  BY <1>1, <1>2 DEF Elsewhere, CallType
<1>7. NextWave(h) => Elsewhere(h)
  <2> SUFFICES ASSUME NextWave(h) PROVE Elsewhere(h)
    OBVIOUS
  <2>1. \A w : [call[h] EXCEPT !.at = "readOrder", !.wave = w, !.who = {}].at = "readOrder"
    BY <1>1 DEF Call
  <2>2. [call[h] EXCEPT !.at = "giveUp", !.who = {}].at = "giveUp" BY <1>1 DEF Call
  <2> QED BY <1>1, <2>1, <2>2 DEF NextWave, Elsewhere, CallType
<1> QED BY <1>4, <1>5, <1>6, <1>7 DEF End, Throw, SendAndEnd

(* Nobody comes to answer but by an accept that has found the row free.      *)
LEMMA OnlyByAccept ==
    ASSUME TypeInv, NEW h \in Handlers, Requests(h) \/ Deliver(h) \/ Proceed(h) \/ Die(h)
    PROVE  Elsewhere(h) \/ \E m \in Masters : Accept(h, m)
<1>0. call[h] \in Call /\ CallType BY HandlerTypes DEF TypeInv
<1>1. {"createGate", "retryGate", "sendWave", "collect", "void", "idle", "sendPriceTimeout",
       "sendAutoClose", "capture", "retryHold", "cancelHeld", "cancelVoided", "cancelPaid",
       "cancelAwaiting"} \cup MasterRequest \subseteq Statement \ {"answer"}
  BY DEF Statement, MasterRequest, Moves
<1>2. {} \in SUBSET Masters OBVIOUS
<1>3. CASE Requests(h)
  <2>1. Create(h) => Elsewhere(h)
    <3>1. [Request("createHold", {}) EXCEPT !.attempt = 1].at = "createHold" BY DEF Request, Idle
    <3> QED BY <1>0, <3>1 DEF Create, Begin, Elsewhere, CallType
  <2>2. AskRetry(h) => Elsewhere(h) BY <1>1, <1>2, Forms DEF AskRetry
  <2>3. AskCancel(h) => Elsewhere(h)
    <3> SUFFICES ASSUME AskCancel(h) PROVE Elsewhere(h)
      OBVIOUS
    <3>1. PICK s \in {"cancelHeld", "cancelVoided", "cancelPaid", "cancelAwaiting"} :
              Begin(h, Request(s, {}))
      BY DEF AskCancel
    <3> QED BY <1>1, <1>2, <3>1, Forms
  <2>4. \A m \in Masters : ManualAssign(h, m) => Elsewhere(h)
    <3> SUFFICES ASSUME NEW m \in Masters, ManualAssign(h, m) PROVE Elsewhere(h)
      OBVIOUS
    <3>1. Begin(h, Request("capture", {})) BY DEF ManualAssign
    <3> QED BY <1>1, <1>2, <3>1, Forms
  <2>5. \A m \in Masters : AskMaster(h, m) => Elsewhere(h)
    <3> SUFFICES ASSUME NEW m \in Masters, AskMaster(h, m) PROVE Elsewhere(h)
      OBVIOUS
    <3>1. PICK s \in MasterRequest : Begin(h, Request(s, {m})) BY DEF AskMaster
    <3> QED BY <1>1, <3>1, Forms
  <2> QED BY <1>3, <2>1, <2>2, <2>3, <2>4, <2>5 DEF Requests
<1>4. CASE Deliver(h)
  <2>1. TakeJob(h) => Elsewhere(h)
    <3> SUFFICES ASSUME TakeJob(h) PROVE Elsewhere(h)
      OBVIOUS
    <3>1. PICK j \in jobs :
            Begin(h, [Idle EXCEPT !.job = j, !.wave = j.wave, !.attempt = j.attempt,
                            !.at = IF j.name = "WAVE" THEN "readOrder" ELSE "checkTimeout"])
      BY DEF TakeJob
    <3> DEFINE c1 == [Idle EXCEPT !.job = j, !.wave = j.wave, !.attempt = j.attempt]
               at == IF j.name = "WAVE" THEN "readOrder" ELSE "checkTimeout"
    <3>2. [c1 EXCEPT !.at = at].at = at BY DEF Idle
    <3>3. call' = [call EXCEPT ![h] = [c1 EXCEPT !.at = at]] BY <3>1 DEF Begin
    <3> QED BY <1>0, <3>2, <3>3 DEF Elsewhere, CallType
  <2>2. ReadDispute(h) => Elsewhere(h)
    <3>1. [Idle EXCEPT !.at = "close", !.job = AutoCloseJob].at = "close" BY DEF Idle
    <3>2. UNCHANGED call /\ At(h, "idle") => Elsewhere(h) BY DEF Elsewhere, At
    <3> QED BY <1>0, <3>1, <3>2 DEF ReadDispute, Begin, Elsewhere, CallType
  <2> QED BY <1>4, <2>1, <2>2 DEF Deliver
<1>5. CASE Die(h) BY <1>5, Forms DEF Die
<1>6. CASE Proceed(h)
  <2>1. Hold(h) \/ PublishGate(h) \/ SendWave(h) => Elsewhere(h)
    BY <1>1, Forms DEF Hold, PublishGate, SendWave
  <2>2. RetryGate(h) \/ Withdraw(h) => Elsewhere(h)
    <3>1. \A a : [call[h] EXCEPT !.at = "sendWave", !.attempt = a].at = "sendWave" BY <1>0 DEF Call
    <3>2. \A a : [call[h] EXCEPT !.at = "sendWave", !.who = {}, !.attempt = a].at = "sendWave"
      BY <1>0 DEF Call
    <3>3. RetryGate(h) => Elsewhere(h) BY <1>0, <3>1, Forms DEF RetryGate, Elsewhere, CallType
    <3>4. Withdraw(h) => Elsewhere(h) BY <1>0, <3>2, Forms DEF Withdraw, Elsewhere, CallType
    <3> QED BY <3>3, <3>4
  <2>3. ReadOrder(h) => Elsewhere(h)
    <3>1. \A a : [call[h] EXCEPT !.at = "findMasters", !.attempt = a].at = "findMasters"
      BY <1>0 DEF Call
    <3> QED BY <1>0, <3>1, Forms DEF ReadOrder, Elsewhere, CallType
  <2>4. FindMasters(h) => Elsewhere(h)
    <3>1. \A who, at : [call[h] EXCEPT !.who = who, !.at = at].at = at BY <1>0 DEF Call
    <3> QED BY <1>0, <3>1 DEF FindMasters, Elsewhere, CallType
  <2>5. Recheck(h) \/ Expire(h) => Elsewhere(h) BY Forms DEF Recheck, Expire
  <2>6. SendOffers(h) => Elsewhere(h)
    <3>1. [call[h] EXCEPT !.at = "sendTimeout", !.who = {}].at = "sendTimeout" BY <1>0 DEF Call
    <3> QED BY <1>0, <3>1, Forms DEF SendOffers, Elsewhere, CallType
  <2>7. SendTimeout(h) \/ CheckTimeout(h) \/ GiveUp(h) \/ Void(h) \/ Capture(h) => Elsewhere(h)
    BY <1>1, Forms DEF SendTimeout, CheckTimeout, GiveUp, Void, Capture
  <2>8. Collect(h) => Elsewhere(h)
    <3>1. \A who : [call[h] EXCEPT !.at = "expire", !.who = who].at = "expire" BY <1>0 DEF Call
    <3> QED BY <1>0, <3>1 DEF Collect, Elsewhere, CallType
  <2>9. Answer(h) => Elsewhere(h)
    <3>1. [call[h] EXCEPT !.at = "capture", !.who = {}].at = "capture" BY <1>0 DEF Call
    <3> QED BY <1>0, <3>1 DEF Answer, Elsewhere, CallType
  <2>10. Move(h) => Elsewhere(h)
    <3>1. AfterMove(h) => Elsewhere(h)
      <4> DEFINE next == CASE At(h, "propose") -> "sendPriceTimeout"
                           [] At(h, "complete") -> "sendAutoClose"
                           [] OTHER -> "idle"
      <4>1. next \in {"sendPriceTimeout", "sendAutoClose", "idle"} OBVIOUS
      <4>2. Request(next, {}).at = next BY DEF Request, Idle
      <4>3. AfterMove(h) => call' = [call EXCEPT ![h] = Request(next, {})] BY DEF AfterMove
      <4> QED BY <1>0, <4>1, <4>2, <4>3 DEF Elsewhere, CallType
    <3> QED BY <3>1, Forms DEF Move
  <2>11. SendDeadline(h) \/ CancelPaid(h) \/ AutoClose(h) => Elsewhere(h)
    BY Forms DEF SendDeadline, CancelPaid, AutoClose
  <2>12. CancelFree(h) => Elsewhere(h)
    BY <1>1, Forms DEF CancelFree
  <2> QED BY <1>6, <2>1, <2>2, <2>3, <2>4, <2>5, <2>6, <2>7, <2>8, <2>9, <2>10, <2>11, <2>12
          DEF Proceed
<1> QED BY <1>3, <1>4, <1>5, <1>6

-----------------------------------------------------------------------------
(* The four kinds of steps *)

\* Before a master has the order, and while the master may step back.
Fresh == {"NONE", "CREATED", "SEARCHING", "NO_MASTERS"}
Retractable == {"ACCEPTED", "MASTER_ON_WAY"}
Accepted == {p \in Attempts \X Masters : offer[p[1]][p[2]].outcome = "ACCEPTED"}

Still ==
    /\ order'.status = order.status /\ order'.master = order.master
    /\ order'.attempt = order.attempt /\ money'.accrued = money.accrued
    /\ Accepted' \subseteq Accepted

Advances ==
    /\ order'.master = order.master /\ order'.attempt = order.attempt
    /\ Accepted' \subseteq Accepted
    /\ order.status \notin Over
    /\ order.status = "SEARCHING" => Answering = {}
    /\ order.status \in Fresh =>
          order'.status \in {"CREATED", "SEARCHING", "NO_MASTERS", "CANCELLED_BY_CLIENT"}
    /\ order.status \notin Fresh => order'.status \in Status \ Fresh
    /\ order.status = "NONE" => order'.status = "CREATED"
    /\ order.status \notin Retractable => order'.status \notin Retractable
    /\ money'.accrued = money.accrued \/ order'.status \in Over

Assigns ==
    /\ order.status = "SEARCHING" /\ order'.status = "ACCEPTED"
    /\ order'.attempt = order.attempt /\ money'.accrued = money.accrued
    /\ \E h \in Handlers : Elsewhere(h) /\ Answering \subseteq {h}
    /\ \E m \in Masters :
          order'.master = m /\ Accepted' \subseteq Accepted \cup {<<order.attempt, m>>}

Restarts ==
    /\ order'.status = "SEARCHING" /\ order'.attempt = order.attempt + 1
    /\ money'.accrued = money.accrued /\ Accepted' \subseteq Accepted
    /\ \/ order.status = "NO_MASTERS" /\ order'.master = order.master
       \/ order.status \in {"ACCEPTED", "MASTER_ON_WAY"} /\ order'.master = NoMaster

(* The lock of accept: whoever answers is alone, and the order is searched.  *)
LockHeld == \A h \in Answering : order.status = "SEARCHING" /\ Answering \subseteq {h}

(* Whatever settles offers as LOST or EXPIRED accepts none.                 *)
LEMMA NoneAccepted ==
    ASSUME TypeInv,
           \/ UNCHANGED offer
           \/ offer' = ExpireAll
           \/ \E a \in Attempts, who \in SUBSET Masters, x \in {"LOST", "EXPIRED"} :
                 offer' = Settle(a, who, x)
    PROVE  Accepted' \subseteq Accepted
<1>1. OfferType BY Parts
<1>2. CASE UNCHANGED offer BY <1>2 DEF Accepted
<1>3. CASE offer' = ExpireAll
  <2>1. ASSUME NEW a \in Attempts, NEW m \in Masters, offer'[a][m].outcome = "ACCEPTED"
        PROVE  offer[a][m].outcome = "ACCEPTED"
    <3>1. [offer[a][m] EXCEPT !.outcome = "EXPIRED"].outcome = "EXPIRED"
      BY <1>1 DEF OfferType, Offer
    <3> QED BY <1>3, <2>1, <3>1 DEF ExpireAll
  <2> QED BY <2>1 DEF Accepted
<1>4. ASSUME NEW b \in Attempts, NEW who \in SUBSET Masters, NEW x \in {"LOST", "EXPIRED"},
             offer' = Settle(b, who, x)
      PROVE  Accepted' \subseteq Accepted
  <2>1. ASSUME NEW a \in Attempts, NEW m \in Masters, offer'[a][m].outcome = "ACCEPTED"
        PROVE  offer[a][m].outcome = "ACCEPTED"
    <3>1. [offer[a][m] EXCEPT !.outcome = x].outcome = x BY <1>1 DEF OfferType, Offer
    <3>2. x # "ACCEPTED" OBVIOUS
    <3> QED BY <1>1, <1>4, <2>1, <3>1, <3>2 DEF Settle, OfferType
  <2> QED BY <2>1 DEF Accepted
<1> QED BY <1>2, <1>3, <1>4

(* What the writes of a row and of the money leave alone.                   *)
LEMMA Writes ==
    ASSUME TypeInv
    PROVE  /\ \A s \in Status : LET r == [order EXCEPT !.status = s] IN
                 r.status = s /\ r.master = order.master /\ r.attempt = order.attempt
           /\ \A w : LET r == [order EXCEPT !.wave = w] IN
                 r.status = order.status /\ r.master = order.master /\ r.attempt = order.attempt
           /\ \A m : LET r == [order EXCEPT !.status = "ACCEPTED", !.master = m] IN
                 r.status = "ACCEPTED" /\ r.master = m /\ r.attempt = order.attempt
           /\ [money EXCEPT !.holds = @ + 1].accrued = money.accrued
           /\ [money EXCEPT !.captured = TRUE].accrued = money.accrued
           /\ [money EXCEPT !.voided = TRUE].accrued = money.accrued
<1>1. order \in Row /\ money \in Money BY Parts
<1>2. \A m : LET r == [order EXCEPT !.status = "ACCEPTED", !.master = m] IN
          r.status = "ACCEPTED" /\ r.master = m /\ r.attempt = order.attempt
  BY <1>1 DEF Row
<1>3. /\ [money EXCEPT !.holds = @ + 1].accrued = money.accrued
      /\ [money EXCEPT !.captured = TRUE].accrued = money.accrued
      /\ [money EXCEPT !.voided = TRUE].accrued = money.accrued
  BY <1>1 DEF Money
<1> QED BY <1>1, <1>2, <1>3 DEF Row

(* A search starts again with the next attempt.                             *)
LEMMA Restarting ==
    ASSUME TypeInv
    PROVE  /\ NewAttempt.status = "SEARCHING" /\ NewAttempt.attempt = order.attempt + 1
           /\ NewAttempt.master = order.master
           /\ Withdrawn.status = "SEARCHING" /\ Withdrawn.attempt = order.attempt + 1
           /\ Withdrawn.master = NoMaster
<1>1. order \in Row BY Parts
<1>2. /\ NewAttempt.status = "SEARCHING" /\ NewAttempt.attempt = order.attempt + 1
      /\ NewAttempt.master = order.master
  BY <1>1 DEF NewAttempt, Row
<1>3. DOMAIN NewAttempt = {"status", "master", "wave", "attempt"} BY <1>1 DEF NewAttempt, Row
<1> QED BY <1>2, <1>3 DEF Withdrawn

(* Statements of handlers that leave status, master and attempt alone.      *)
LEMMA StillSteps ==
    ASSUME TypeInv, NEW h \in Handlers,
           \/ AskRetry(h) \/ AskCancel(h) \/ TakeJob(h) \/ ReadDispute(h) \/ Die(h)
           \/ Hold(h) \/ SendWave(h) \/ ReadOrder(h) \/ FindMasters(h) \/ Recheck(h)
           \/ SendOffers(h) \/ SendTimeout(h) \/ CheckTimeout(h) \/ Collect(h) \/ Expire(h)
           \/ Void(h) \/ Capture(h) \/ SendDeadline(h)
           \/ \E m \in Masters : Accept(h, m) \/ AskMaster(h, m)
    PROVE  Still
<1>1. CASE UNCHANGED <<order, offer, money>> BY <1>1 DEF Still, Accepted
<1>2. CASE Hold(h) \/ Void(h) \/ Capture(h)
  <2>1. money'.accrued = money.accrued BY <1>2, Writes DEF Hold, Void, Capture
  <2>2. UNCHANGED <<order, offer>> BY <1>2 DEF Hold, Void, Capture
  <2> QED BY <2>1, <2>2 DEF Still, Accepted
<1>3. CASE Expire(h)
  <2>1. call[h].attempt \in Attempts /\ call[h].who \in SUBSET Masters
    BY <1>3, HandlerTypes DEF Expire, At, WaveStatement
  <2>2. Accepted' \subseteq Accepted BY <1>3, <2>1, NoneAccepted DEF Expire
  <2> QED BY <1>3, <2>2 DEF Expire, Still
<1>4. CASE SendOffers(h)
  <2>1. CASE WaveGate(call[h].wave)
    <3>1. order' = [order EXCEPT !.wave = call[h].wave] /\ UNCHANGED money
      BY <1>4, <2>1 DEF SendOffers
    <3>2. offer' = [offer EXCEPT ![call[h].attempt] = [m \in Masters |->
              IF m \in call[h].who /\ offer[call[h].attempt][m].outcome = "NONE"
              THEN [wave |-> call[h].wave, outcome |-> "PENDING"]
              ELSE offer[call[h].attempt][m]]]
      BY <1>4, <2>1 DEF SendOffers
    <3>3. ASSUME NEW a \in Attempts, NEW m \in Masters, offer'[a][m].outcome = "ACCEPTED"
          PROVE  offer[a][m].outcome = "ACCEPTED"
      <4>1. OfferType BY Parts
      <4> QED BY <3>2, <3>3, <4>1 DEF OfferType
    <3>4. Accepted' \subseteq Accepted BY <3>3 DEF Accepted
    <3> QED BY <3>1, <3>4, Writes DEF Still
  <2>2. CASE ~WaveGate(call[h].wave)
    <3>1. UNCHANGED <<order, offer, money>> BY <1>4, <2>2 DEF SendOffers
    <3> QED BY <1>1, <3>1
  <2> QED BY <2>1, <2>2
<1> QED
  BY <1>1, <1>2, <1>3, <1>4
     DEF AskRetry, AskCancel, TakeJob, ReadDispute, Die, SendWave, ReadOrder, FindMasters,
         Recheck, SendTimeout, CheckTimeout, Collect, SendDeadline, Accept, AskMaster

(* The beginnings and ends of searches.                                     *)
LEMMA SearchSteps ==
    ASSUME TypeInv, NEW h \in Handlers,
           Create(h) \/ PublishGate(h) \/ GiveUp(h) \/ CancelFree(h) \/ RetryGate(h) \/ Withdraw(h)
    PROVE  Still \/ Advances \/ Restarts
<1>1. CASE UNCHANGED <<order, offer, money>> BY <1>1 DEF Still, Accepted
<1>2. Unlocked => Answering = {} BY DEF Unlocked, Answering
<1>3. {"CREATED", "SEARCHING", "NO_MASTERS", "CANCELLED_BY_CLIENT"} \subseteq Status
  BY DEF Status, Over
<1>4. CASE Create(h)
  <2>1. order.status = "NONE" /\ order' = [order EXCEPT !.status = "CREATED"]
        /\ UNCHANGED <<offer, money>>
    BY <1>4 DEF Create
  <2>2. Accepted' \subseteq Accepted BY <2>1 DEF Accepted
  <2> QED BY <1>3, <2>1, <2>2, Writes DEF Advances, Over, Fresh, Retractable
<1>5. CASE PublishGate(h)
  <2>1. CASE Gate({"CREATED"})
    <3>1. order.status = "CREATED" /\ order' = [order EXCEPT !.status = "SEARCHING"]
          /\ UNCHANGED <<offer, money>>
      BY <1>5, <2>1 DEF PublishGate, Gate
    <3>2. Accepted' \subseteq Accepted BY <3>1 DEF Accepted
    <3> QED BY <1>3, <3>1, <3>2, Writes DEF Advances, Over, Fresh, Retractable
  <2>2. CASE ~Gate({"CREATED"}) BY <1>1, <1>5, <2>2 DEF PublishGate
  <2> QED BY <2>1, <2>2
<1>6. CASE GiveUp(h)
  <2>1. CASE Gate({"SEARCHING"})
    <3>1. order.status = "SEARCHING" /\ order' = [order EXCEPT !.status = "NO_MASTERS"]
          /\ offer' = ExpireAll /\ UNCHANGED money /\ Unlocked
      BY <1>6, <2>1 DEF GiveUp, Gate
    <3>2. Accepted' \subseteq Accepted BY <3>1, NoneAccepted
    <3> QED BY <1>2, <1>3, <3>1, <3>2, Writes DEF Advances, Over, Fresh, Retractable
  <2>2. CASE ~Gate({"SEARCHING"}) BY <1>1, <1>6, <2>2 DEF GiveUp
  <2> QED BY <2>1, <2>2
<1>7. CASE CancelFree(h)
  <2>1. CASE Gate({"CREATED", "SEARCHING", "NO_MASTERS"})
    <3>1. order.status \in {"CREATED", "SEARCHING", "NO_MASTERS"}
          /\ order' = [order EXCEPT !.status = "CANCELLED_BY_CLIENT"]
          /\ offer' = ExpireAll /\ UNCHANGED money /\ Unlocked
      BY <1>7, <2>1 DEF CancelFree, Gate, Finish
    <3>2. Accepted' \subseteq Accepted BY <3>1, NoneAccepted
    <3> QED BY <1>2, <1>3, <3>1, <3>2, Writes DEF Advances, Over, Fresh, Retractable
  <2>2. CASE ~Gate({"CREATED", "SEARCHING", "NO_MASTERS"}) BY <1>1, <1>7, <2>2 DEF CancelFree
  <2> QED BY <2>1, <2>2
<1>8. CASE RetryGate(h)
  <2>1. CASE Gate({"NO_MASTERS"})
    <3>1. order.status = "NO_MASTERS" /\ order' = NewAttempt /\ UNCHANGED <<offer, money>>
      BY <1>8, <2>1 DEF RetryGate, Gate
    <3> QED BY <3>1, Restarting DEF Restarts, Accepted
  <2>2. CASE ~Gate({"NO_MASTERS"}) BY <1>1, <1>8, <2>2 DEF RetryGate
  <2> QED BY <2>1, <2>2
<1>9. CASE Withdraw(h)
  <2>1. CASE Gate({"ACCEPTED", "MASTER_ON_WAY"})
    <3>1. order.status \in {"ACCEPTED", "MASTER_ON_WAY"} /\ order' = Withdrawn
          /\ UNCHANGED <<offer, money>>
      BY <1>9, <2>1 DEF Withdraw, Gate
    <3> QED BY <3>1, Restarting DEF Restarts, Accepted
  <2>2. CASE ~Gate({"ACCEPTED", "MASTER_ON_WAY"}) BY <1>1, <1>9, <2>2 DEF Withdraw
  <2> QED BY <2>1, <2>2
<1> QED BY <1>4, <1>5, <1>6, <1>7, <1>8, <1>9

(* The two assignments; the answer relies on the lock that accept took.     *)
LEMMA AssignSteps ==
    ASSUME TypeInv, LockHeld, NEW h \in Handlers,
           Answer(h) \/ \E m \in Masters : ManualAssign(h, m)
    PROVE  Assigns
<1>1. order.attempt \in Attempts /\ OfferType BY Parts, ColumnTypes
<1>2. Rest \in SUBSET Masters BY DEF Rest
<1>3. CASE Answer(h)
  <2>1. h \in Answering BY <1>3 DEF Answer, Answering
  <2>2. order.status = "SEARCHING" /\ Answering \subseteq {h} BY <2>1 DEF LockHeld
  <2>3. Elsewhere(h)
    <3>1. call[h] \in Call /\ CallType BY HandlerTypes DEF TypeInv
    <3>2. [call[h] EXCEPT !.at = "capture", !.who = {}].at = "capture" BY <3>1 DEF Call
    <3> QED BY <1>3, <3>1, <3>2 DEF Answer, Elsewhere, CallType
  <2>4. PICK m \in call[h].who :
            order' = [order EXCEPT !.status = "ACCEPTED", !.master = m] /\ offer' = Won(m)
    BY <1>3 DEF Answer
  <2>5. m \in Masters BY HandlerTypes
  <2>6. Accepted' \subseteq Accepted \cup {<<order.attempt, m>>}
    <3> DEFINE settled == Settle(order.attempt, Rest, "LOST")
    <3>1. settled \in [Attempts -> [Masters -> Offer]] BY <1>1, <1>2, OutcomeTypes
    <3>2. ASSUME NEW a \in Attempts, NEW n \in Masters, offer'[a][n].outcome = "ACCEPTED",
                 <<a, n>> # <<order.attempt, m>>
          PROVE  offer[a][n].outcome = "ACCEPTED"
      <4>1. offer'[a][n] = settled[a][n] BY <1>1, <2>4, <3>1, <3>2 DEF Won
      <4>2. settled[a][n] = offer[a][n] \/ settled[a][n].outcome = "LOST"
        BY <1>1 DEF Settle, OfferType, Offer
      <4> QED BY <3>2, <4>1, <4>2
    <3> QED BY <3>2 DEF Accepted
  <2>7. UNCHANGED money BY <1>3 DEF Answer
  <2> QED BY <2>2, <2>3, <2>4, <2>5, <2>6, <2>7, Writes DEF Assigns
<1>4. ASSUME NEW m \in Masters, ManualAssign(h, m) PROVE Assigns
  <2>1. /\ order.status = "SEARCHING" /\ order' = [order EXCEPT !.status = "ACCEPTED", !.master = m]
        /\ offer' = Settle(order.attempt, Rest, "LOST") /\ UNCHANGED money
        /\ Unlocked /\ Begin(h, Request("capture", {}))
    BY <1>4 DEF ManualAssign
  <2>2. Accepted' \subseteq Accepted BY <1>1, <1>2, <2>1, NoneAccepted
  <2>3. Elsewhere(h) BY <2>1, Forms DEF Statement
  <2>4. Answering = {} BY <2>1 DEF Unlocked, Answering
  <2> QED BY <2>1, <2>2, <2>3, <2>4, Writes DEF Assigns
<1> QED BY <1>3, <1>4

(* From the assignment to the end.                                          *)
LEMMA ServiceSteps ==
    ASSUME TypeInv,
           \/ PriceTimeout \/ ConfirmPrice \/ ConfirmCompletion \/ OpenDispute \/ ResolveDispute
           \/ \E h \in Handlers : Move(h) \/ CancelPaid(h) \/ AutoClose(h)
    PROVE  Still \/ Advances
<1>1. UNCHANGED <<order, offer, money>> => Still BY DEF Still, Accepted
<1>2. ASSUME NEW from, NEW to, from \in Status \ (Fresh \cup Over), to \in Status \ Fresh,
             to \in Retractable => from \in Retractable,
             order.status = from, Finish(to), UNCHANGED offer,
             UNCHANGED money \/ to \in Over
      PROVE  Advances
  <2>1. order' = [order EXCEPT !.status = to] BY <1>2 DEF Finish
  <2>2. Accepted' \subseteq Accepted BY <1>2 DEF Accepted
  <2> QED BY <1>2, <2>1, <2>2, Writes DEF Advances, Fresh, Retractable
<1>3. /\ Served \cup {"DONE"} \subseteq Status \ (Fresh \cup Over)
      /\ Over \subseteq Status \ Fresh
  BY DEF Served, Status, Fresh, Over
<1>4. ASSUME NEW from, from \subseteq Served, PaidCancellation(from), UNCHANGED offer
      PROVE  Still \/ Advances
  <2>1. CASE Gate(from)
    <3>1. order.status \in Served /\ Finish("CANCELLED_BY_CLIENT")
      BY <1>4, <2>1 DEF PaidCancellation, Gate
    <3>2. "CANCELLED_BY_CLIENT" \in Over \ Retractable BY DEF Over, Retractable
    <3> QED BY <1>2, <1>3, <1>4, <3>1, <3>2
  <2>2. CASE ~Gate(from) BY <1>1, <1>4, <2>2 DEF PaidCancellation
  <2> QED BY <2>1, <2>2
<1>5. CASE PriceTimeout
  BY <1>4, <1>5 DEF PriceTimeout, Served
<1>6. CASE ConfirmPrice
  <2>1. order.status = "AWAITING_PRICE_CONFIRM" /\ Finish("IN_PROGRESS")
        /\ UNCHANGED offer /\ UNCHANGED money
    BY <1>6 DEF ConfirmPrice, Gate
  <2>2. {"AWAITING_PRICE_CONFIRM", "IN_PROGRESS"} \subseteq Status \ (Fresh \cup Over)
    BY <1>3 DEF Served
  <2>3. "IN_PROGRESS" \notin Retractable BY DEF Retractable
  <2> QED BY <1>2, <2>1, <2>2, <2>3
<1>7. ASSUME order.status = "DONE", Finish("CLOSED"), UNCHANGED offer
      PROVE  Advances
  <2>1. "CLOSED" \in Over \ Retractable BY DEF Over, Retractable
  <2> QED BY <1>2, <1>3, <1>7, <2>1
<1>8. CASE ConfirmCompletion BY <1>7, <1>8 DEF ConfirmCompletion, Gate
<1>9. CASE OpenDispute BY <1>1, <1>9 DEF OpenDispute
<1>10. CASE ResolveDispute BY <1>1, <1>7, <1>10 DEF ResolveDispute
<1>11. ASSUME NEW h \in Handlers, Move(h) PROVE Still \/ Advances
  <2>1. UNCHANGED offer /\ UNCHANGED money BY <1>11 DEF Move
  <2>2. CASE Gate({Moves[call[h].at].from})
    <3> DEFINE from == Moves[call[h].at].from
               to == Moves[call[h].at].to
    <3>1. order.status = from /\ Finish(to) BY <1>11, <2>2 DEF Move, Gate, Finish
    <3>2. from \in Served /\ to \in Served \cup {"DONE"} BY <1>11 DEF Move, Moves, Served
    <3>3. to \in Retractable => from \in Retractable BY <1>11 DEF Move, Moves, Retractable
    <3> HIDE DEF from, to
    <3> QED BY <1>2, <1>3, <2>1, <3>1, <3>2, <3>3
  <2>3. CASE ~Gate({Moves[call[h].at].from}) BY <1>1, <1>11, <2>3 DEF Move
  <2> QED BY <2>2, <2>3
<1>12. ASSUME NEW h \in Handlers, CancelPaid(h) PROVE Still \/ Advances
  <2>1. {"ACCEPTED", "MASTER_ON_WAY"} \subseteq Served /\ {"AWAITING_PRICE_CONFIRM"} \subseteq Served
    BY DEF Served
  <2> QED BY <1>4, <1>12, <2>1 DEF CancelPaid
<1>13. ASSUME NEW h \in Handlers, AutoClose(h) PROVE Still \/ Advances
  BY <1>1, <1>7, <1>13 DEF AutoClose, Gate
<1> QED BY <1>5, <1>6, <1>8, <1>9, <1>10, <1>11, <1>12, <1>13

(* Every step is of one of the kinds.                                       *)
LEMMA Kinds ==
    ASSUME TypeInv, LockHeld, [Next]_vars
    PROVE  Still \/ Advances \/ Assigns \/ Restarts
<1>1. CASE UNCHANGED vars BY <1>1 DEF vars, Still, Accepted
<1>2. ASSUME NEW h \in Handlers, Requests(h) \/ Deliver(h) \/ Proceed(h) \/ Die(h)
      PROVE  Still \/ Advances \/ Assigns \/ Restarts
  <2>1. CASE Requests(h) BY <2>1, StillSteps, SearchSteps, AssignSteps DEF Requests
  <2>2. CASE Deliver(h) BY <2>2, StillSteps DEF Deliver
  <2>3. CASE Proceed(h)
    BY <2>3, StillSteps, SearchSteps, AssignSteps, ServiceSteps DEF Proceed
  <2>4. CASE Die(h) BY <2>4, StillSteps
  <2> QED BY <1>2, <2>1, <2>2, <2>3, <2>4
<1>3. CASE PriceTimeout \/ ConfirmPrice \/ ConfirmCompletion \/ OpenDispute \/ ResolveDispute
  BY <1>3, ServiceSteps
<1> QED BY <1>1, <1>2, <1>3 DEF Next

-----------------------------------------------------------------------------
(* What follows from the kinds *)

\* An accepted offer is of an attempt that is over, or that found its master.
AcceptedAssigned ==
    \A p \in Accepted :
        p[1] <= order.attempt /\ (p[1] = order.attempt => order.status \notin Fresh)

\* What is not yet searched for has no master either.
Assigned ==
    /\ AssignedIffServed
    /\ order.status = "NONE" => order.master = NoMaster

SafeInv ==
    /\ TypeInv /\ LockHeld /\ Assigned /\ CompensationEndsOrder
    /\ AcceptedAssigned /\ OneWinner

(* OneWinner speaks of the set of accepted offers.                          *)
LEMMA WinnerAlone ==
    OneWinner <=> \A p, q \in Accepted : p[1] = q[1] => p = q
<1>1. ASSUME OneWinner, NEW p \in Accepted, NEW q \in Accepted, p[1] = q[1] PROVE p = q
  <2>1. p = <<p[1], p[2]>> /\ q = <<q[1], q[2]>> BY DEF Accepted
  <2> QED BY <1>1, <2>1 DEF Accepted, OneWinner
<1>2. ASSUME \A p, q \in Accepted : p[1] = q[1] => p = q,
             NEW a \in Attempts, NEW m \in Masters, NEW n \in Masters,
             offer[a][m].outcome = "ACCEPTED", offer[a][n].outcome = "ACCEPTED"
      PROVE  m = n
  <2>1. <<a, m>> \in Accepted /\ <<a, n>> \in Accepted BY <1>2 DEF Accepted
  <2>2. <<a, m>> = <<a, n>> BY <1>2, <2>1
  <2> QED BY <2>2
<1> QED BY <1>1, <1>2 DEF OneWinner

(* The lock of accept is held alone, because whoever begins to answer has   *)
(* found the row free, and nobody else ends a search under the lock.        *)
LEMMA LockKept ==
    ASSUME TypeInv, LockHeld, [Next]_vars
    PROVE  LockHeld'
<1>1. CASE UNCHANGED vars BY <1>1 DEF vars, LockHeld, Answering, At
<1>2. CASE \E h \in Handlers, m \in Masters : Accept(h, m)
  <2>1. PICK h \in Handlers, m \in Masters : Accept(h, m) BY <1>2
  <2>2. Answering = {} BY <2>1 DEF Accept, Unlocked, Answering
  <2>3. order'.status = "SEARCHING" BY <2>1 DEF Accept
  <2>4. \A g \in Handlers \ {h} : call'[g] = call[g]
    BY <2>1 DEF Accept, Begin, TypeInv, CallType
  <2>5. Answering' \subseteq {h} BY <2>2, <2>4 DEF Answering, At
  <2> QED BY <2>3, <2>5 DEF LockHeld
<1>3. CASE (\E h \in Handlers : Elsewhere(h)) \/ UNCHANGED call
  <2>1. Answering' \subseteq Answering BY <1>3, ElsewhereEnds DEF Answering, At
  <2>2. CASE Still BY <2>1, <2>2 DEF LockHeld, Still
  <2>3. CASE Advances \/ Restarts
    <3>1. Answering = {} BY <2>3 DEF LockHeld, Advances, Restarts
    <3> QED BY <2>1, <3>1 DEF LockHeld
  <2>4. CASE Assigns
    <3>1. PICK h \in Handlers : Elsewhere(h) /\ Answering \subseteq {h} BY <2>4 DEF Assigns
    <3>2. Answering' = {} BY <3>1, ElsewhereEnds
    <3> QED BY <3>2 DEF LockHeld
  <2> QED BY <2>2, <2>3, <2>4, Kinds
<1>4. \/ UNCHANGED vars \/ UNCHANGED call
      \/ \E h \in Handlers : Elsewhere(h) \/ \E m \in Masters : Accept(h, m)
  <2>1. PriceTimeout \/ ConfirmPrice \/ ConfirmCompletion \/ OpenDispute \/ ResolveDispute
          => UNCHANGED call
    BY DEF PriceTimeout, ConfirmPrice, ConfirmCompletion, OpenDispute, ResolveDispute
  <2> QED BY <2>1, OnlyByAccept DEF Next
<1> QED BY <1>1, <1>2, <1>3, <1>4

(* Each kind of step keeps master and status together, pays only for what   *)
(* is over, and accepts an offer only in an attempt that had none.          *)
LEMMA KindsKeep ==
    ASSUME SafeInv, Still \/ Advances \/ Assigns \/ Restarts
    PROVE  Assigned' /\ CompensationEndsOrder' /\ AcceptedAssigned' /\ OneWinner'
<1>1. order.attempt \in Nat /\ \A p \in Accepted : p[1] \in Nat
  BY Parts, ColumnTypes, BoundsAssumption DEF SafeInv, Attempts, Accepted
<1>2. \A p, q \in Accepted : p[1] = q[1] => p = q BY WinnerAlone DEF SafeInv
<1>3. (\A p, q \in Accepted' : p[1] = q[1] => p = q) => OneWinner'
  <2>1. ASSUME \A p, q \in Accepted' : p[1] = q[1] => p = q,
               NEW a \in Attempts, NEW m \in Masters, NEW n \in Masters,
               offer'[a][m].outcome = "ACCEPTED", offer'[a][n].outcome = "ACCEPTED"
        PROVE  m = n
    <3>1. <<a, m>> \in Accepted' /\ <<a, n>> \in Accepted' BY <2>1 DEF Accepted
    <3>2. <<a, m>> = <<a, n>> BY <2>1, <3>1
    <3> QED BY <3>2
  <2> QED BY <2>1 DEF OneWinner
<1>4. CASE Still
  <2>1. Assigned' /\ CompensationEndsOrder'
    BY <1>4 DEF SafeInv, Still, Assigned, AssignedIffServed, CompensationEndsOrder
  <2>2. AcceptedAssigned' BY <1>4 DEF SafeInv, Still, AcceptedAssigned
  <2>3. OneWinner' BY <1>2, <1>3, <1>4 DEF Still
  <2> QED BY <2>1, <2>2, <2>3
<1>5. CASE Advances
  <2>1. order.status \in Status BY Parts, ColumnTypes DEF SafeInv
  <2>2. Assigned'
    BY <1>5, <2>1
       DEF SafeInv, Advances, Assigned, AssignedIffServed, Fresh, Status, Served, Over
  <2>3. CompensationEndsOrder' BY <1>5 DEF SafeInv, Advances, CompensationEndsOrder
  <2>4. AcceptedAssigned' BY <1>5 DEF SafeInv, Advances, AcceptedAssigned
  <2>5. OneWinner' BY <1>2, <1>3, <1>5 DEF Advances
  <2> QED BY <2>2, <2>3, <2>4, <2>5
<1>6. CASE Assigns
  <2>1. PICK m \in Masters :
            order'.master = m /\ Accepted' \subseteq Accepted \cup {<<order.attempt, m>>}
    BY <1>6 DEF Assigns
  <2>2. order.status = "SEARCHING" /\ order'.status = "ACCEPTED" /\ order'.attempt = order.attempt
        /\ money'.accrued = money.accrued
    BY <1>6 DEF Assigns
  <2>3. \A p \in Accepted : p[1] # order.attempt /\ p[1] <= order.attempt
    BY <2>2 DEF SafeInv, AcceptedAssigned, Fresh
  <2>4. Assigned' BY <2>1, <2>2, SentinelsAssumption DEF Assigned, AssignedIffServed
  <2>5. CompensationEndsOrder' BY <2>2 DEF SafeInv, CompensationEndsOrder, Over
  <2>6. AcceptedAssigned' BY <1>1, <2>1, <2>2, <2>3 DEF AcceptedAssigned, Fresh
  <2>7. OneWinner' BY <1>2, <1>3, <2>1, <2>3
  <2> QED BY <2>4, <2>5, <2>6, <2>7
<1>7. CASE Restarts
  <2>1. Assigned'
    BY <1>7 DEF SafeInv, Restarts, Assigned, AssignedIffServed, Served
  <2>2. CompensationEndsOrder' BY <1>7 DEF SafeInv, Restarts, CompensationEndsOrder, Over
  <2>3. \A p \in Accepted : p[1] <= order.attempt BY DEF SafeInv, AcceptedAssigned
  <2>4. AcceptedAssigned' BY <1>1, <1>7, <2>3 DEF Restarts, AcceptedAssigned
  <2>5. OneWinner' BY <1>2, <1>3, <1>7 DEF Restarts
  <2> QED BY <2>1, <2>2, <2>4, <2>5
<1> QED BY <1>4, <1>5, <1>6, <1>7

(* SafeInv holds at first: no handler is at work and no offer exists.       *)
LEMMA SafeInit == Init => SafeInv
<1> SUFFICES ASSUME Init PROVE SafeInv
  OBVIOUS
<1>1. Accepted = {} BY DEF Init, Accepted
<1>2. Answering = {} BY DEF Init, Answering, At, Idle
<1>3. Assigned /\ CompensationEndsOrder
  BY DEF Init, Assigned, AssignedIffServed, CompensationEndsOrder, Served
<1> QED BY <1>1, <1>2, <1>3, InitTypes, WinnerAlone DEF SafeInv, LockHeld, AcceptedAssigned

(* Every step keeps SafeInv, because it is of one of the kinds.             *)
LEMMA SafeStep == SafeInv /\ [Next]_vars => SafeInv'
<1> SUFFICES ASSUME SafeInv, [Next]_vars PROVE SafeInv'
  OBVIOUS
<1>1. TypeInv' /\ LockHeld' BY StepTypes, LockKept DEF SafeInv
<1>2. Still \/ Advances \/ Assigns \/ Restarts BY Kinds DEF SafeInv
<1> QED BY <1>1, <1>2, KindsKeep DEF SafeInv

(* SafeInv holds in every state of WaveOrders.                              *)
LEMMA AlwaysSafe == Spec => []SafeInv
<1> QED BY SafeInit, SafeStep, PTL DEF Spec

(* Of all masters who accept, in whatever order their transactions, the      *)
(* waves and the cancellations commit, an attempt has one winner.            *)
THEOREM OneWinnerAlways == Spec => []OneWinner
<1>1. SafeInv => OneWinner BY DEF SafeInv
<1> QED BY <1>1, AlwaysSafe, PTL

(* A served order has its master, a searched one has none: no stale request  *)
(* of a client or of a master separates the two columns.                     *)
THEOREM MasterAndStatus == Spec => []AssignedIffServed
<1>1. SafeInv => AssignedIffServed BY DEF SafeInv, Assigned
<1> QED BY <1>1, AlwaysSafe, PTL

(* Compensation is accrued only with the end of the order.                   *)
THEOREM CompensatedAtEnd == Spec => []CompensationEndsOrder
<1>1. SafeInv => CompensationEndsOrder BY DEF SafeInv
<1> QED BY <1>1, AlwaysSafe, PTL

(* No step takes a closed or cancelled order out of its status.              *)
THEOREM OverForGood == Spec => OverIsOver
<1>1. SafeInv /\ [Next]_vars => [order.status \in Over => order'.status = order.status]_vars
  <2> SUFFICES ASSUME SafeInv, [Next]_vars, order.status \in Over
               PROVE  order'.status = order.status
    OBVIOUS
  <2>1. Still \/ Advances \/ Assigns \/ Restarts BY Kinds DEF SafeInv
  <2> QED BY <2>1 DEF Still, Advances, Assigns, Restarts, Over
<1> QED BY <1>1, AlwaysSafe, PTL DEF Spec, OverIsOver

-----------------------------------------------------------------------------
(* Refinement *)

(* What one written row means for the booking.                              *)
LEMMA OneRow ==
    ASSUME NEW phase, NEW server
    PROVE  /\ \A x : [o \in {"order"} |-> x] = [[o \in {"order"} |-> phase] EXCEPT !["order"] = x]
           /\ \A x : [o \in {"order"} |-> x] = [[o \in {"order"} |-> server] EXCEPT !["order"] = x]
           /\ [o \in {"order"} |-> phase]["order"] = phase
           /\ [o \in {"order"} |-> server]["order"] = server
OBVIOUS

(* Each kind of step is a step of Booking or none.                          *)
LEMMA KindsBook ==
    ASSUME SafeInv, Still \/ Advances \/ Assigns \/ Restarts
    PROVE  Bookings!Next \/ UNCHANGED Bookings!vars
<1> DEFINE phase == [o \in {"order"} |-> PhaseOf(order.status)]
           server == [o \in {"order"} |-> Server]
           old == PhaseOf(order.status)
           new == PhaseOf(order'.status)
<1>0. /\ phase' = [phase EXCEPT !["order"] = new] /\ phase["order"] = old
      /\ server' = [server EXCEPT !["order"] = Server'] /\ server["order"] = Server
  BY OneRow
<1>1. order.status \in Status BY Parts, ColumnTypes DEF SafeInv
<1>2. new = old /\ Server' = Server => UNCHANGED Bookings!vars BY DEF Bookings!vars
<1>3. CASE Still BY <1>2, <1>3 DEF Still, Server
<1>4. CASE Advances
  <2>1. CASE old = "idle"
    <3>1. order.status = "NONE" /\ order'.status = "CREATED"
      BY <1>1, <1>4, <2>1 DEF Advances, PhaseOf, Status, Served, Over
    <3>2. new = "open" /\ Server = NoMaster /\ Server' = NoMaster
      BY <3>1 DEF PhaseOf, Server, Served, Over
    <3>3. Bookings!Open("order") BY <1>0, <2>1, <3>2 DEF Bookings!Open
    <3> QED BY <3>3 DEF Bookings!Next
  <2>2. CASE order'.status \in Over /\ old # "idle"
    <3>1. /\ old \in {"open", "booked", "underway"} /\ new = "over" /\ Server' = NoMaster
      BY <1>1, <1>4, <2>2 DEF Advances, PhaseOf, Server, Status, Served, Over
    <3>2. Bookings!Finish("order") BY <1>0, <3>1 DEF Bookings!Finish, Bookings!Running
    <3> QED BY <3>2 DEF Bookings!Next
  <2>3. CASE old = "open" /\ order'.status \notin Over
    <3>1. order.status \in Fresh
      BY <1>1, <2>3 DEF PhaseOf, Status, Served, Over, Fresh
    <3>2. order'.status \in Fresh \ {"NONE"}
      BY <1>4, <2>3, <3>1 DEF Advances, Fresh, Over
    <3>3. new = "open" /\ Server = NoMaster /\ Server' = NoMaster
      BY <3>1, <3>2 DEF PhaseOf, Server, Served, Fresh, Over
    <3> QED BY <1>2, <2>3, <3>3
  <2>4. CASE old \in {"booked", "underway"} /\ order'.status \notin Over
    <3>1. order.status \in Served \cup {"DONE"} /\ order.status \notin Fresh
      BY <1>1, <2>4 DEF PhaseOf, Status, Served, Over, Fresh
    <3>2. order'.status \in Served \cup {"DONE"}
      BY <1>4, <2>4, <3>1 DEF Advances, Status, Fresh
    <3>3. Server' = Server BY <1>4, <3>1, <3>2 DEF Advances, Server
    <3>4. new \in {"booked", "underway"} /\ (new = "booked" => old = "booked")
      BY <1>4, <3>1, <3>2 DEF Advances, PhaseOf, Served, Retractable, Over
    <3>5. CASE new = old BY <1>2, <3>3, <3>5
    <3>6. CASE new # old
      <4>1. old = "booked" /\ new = "underway" BY <2>4, <3>4, <3>6
      <4>2. Bookings!SetOut("order") BY <1>0, <3>3, <4>1 DEF Bookings!SetOut
      <4> QED BY <4>2 DEF Bookings!Next
    <3> QED BY <3>5, <3>6
  <2>5. old \in {"idle", "open", "booked", "underway"}
    BY <1>1, <1>4 DEF Advances, PhaseOf, Status, Served, Over
  <2> QED BY <2>1, <2>2, <2>3, <2>4, <2>5
<1>5. CASE Assigns
  <2>1. PICK m \in Masters : order'.master = m BY <1>5 DEF Assigns
  <2>2. /\ old = "open" /\ new = "booked" /\ Server = NoMaster /\ Server' = m
    BY <1>5, <2>1 DEF Assigns, PhaseOf, Server, Served, Over
  <2>3. Bookings!Book("order", m) BY <1>0, <2>2, SentinelsAssumption DEF Bookings!Book
  <2> QED BY <2>3 DEF Bookings!Next
<1>6. CASE Restarts
  <2>1. new = "open" /\ Server' = NoMaster BY <1>6 DEF Restarts, PhaseOf, Server, Served, Over
  <2>2. CASE order.status = "NO_MASTERS"
    <3>1. old = "open" /\ Server = NoMaster BY <2>2 DEF PhaseOf, Server, Served, Over
    <3> QED BY <1>2, <2>1, <3>1
  <2>3. CASE order.status \in Retractable
    <3>1. old = "booked" BY <2>3 DEF PhaseOf, Retractable, Served, Over
    <3>2. Bookings!StepBack("order") BY <1>0, <2>1, <3>1 DEF Bookings!StepBack
    <3> QED BY <3>2 DEF Bookings!Next
  <2> QED BY <1>6, <2>2, <2>3 DEF Restarts, Retractable
<1> QED BY <1>3, <1>4, <1>5, <1>6

(* The wave search too implements Booking: whichever of the handlers that   *)
(* read first and write later wins, the order has one master from the        *)
(* search to the end, cannot go back once he is on site, and ends for good.  *)
THEOREM WavesImplementBooking == Spec => ImplementsBooking
<1>1. Init => Bookings!Init
  BY DEF Init, Bookings!Init, PhaseOf, Server, Served, Over
<1>2. SafeInv /\ [Next]_vars => [Bookings!Next]_(Bookings!vars)
  BY Kinds, KindsBook DEF SafeInv
<1> QED BY <1>1, <1>2, AlwaysSafe, PTL DEF Spec, ImplementsBooking, Bookings!Spec

-----------------------------------------------------------------------------
(* Waves and what they leave to accept *)

\* No wave is sent: nothing new can be accepted, and nothing at all when the
\* search ends.
SendsNothing ==
    /\ order'.attempt = order.attempt /\ order'.wave = order.wave
    /\ Rest' \subseteq Rest
    /\ order.status = "SEARCHING" /\ order'.status # "SEARCHING" => Rest' = {}

\* A wave is sent, or the search starts again.
SendsWave ==
    /\ order'.status = "SEARCHING" /\ order'.attempt = order.attempt
    /\ order'.wave > order.wave
StartsAgain == order'.status = "SEARCHING" /\ order'.attempt = order.attempt + 1

(* Writes of a status alone leave the wave and the attempt.                 *)
LEMMA StatusAlone ==
    ASSUME TypeInv, NEW s \in Status, order' = [order EXCEPT !.status = s]
    PROVE  /\ order'.status = s /\ order'.wave = order.wave /\ order'.attempt = order.attempt
           /\ UNCHANGED offer => Rest' = Rest
<1>1. order'.status = s /\ order'.wave = order.wave /\ order'.attempt = order.attempt
  BY Parts DEF Row
<1> QED BY <1>1 DEF Rest, PendingNow

(* Settled offers are not pending.                                          *)
LEMMA SettledOffers ==
    ASSUME TypeInv, order'.attempt = order.attempt
    PROVE  /\ offer' = ExpireAll => Rest' = {}
           /\ offer' = Settle(order.attempt, Rest, "LOST") => Rest' = {}
           /\ \A a \in Attempts, who \in SUBSET Masters :
                 offer' = Settle(a, who, "EXPIRED") => Rest' \subseteq Rest
<1>1. OfferType /\ order.attempt \in Attempts BY Parts, ColumnTypes
<1>2. \A a \in Attempts, m \in Masters : \A x :
          [offer[a][m] EXCEPT !.outcome = x].outcome = x
  BY <1>1 DEF OfferType, Offer
<1>3. ASSUME offer' = ExpireAll PROVE Rest' = {}
  <2>1. ASSUME NEW m \in Masters PROVE offer'[order.attempt][m].outcome # "PENDING"
    BY <1>1, <1>2, <1>3 DEF ExpireAll
  <2> QED BY <2>1 DEF Rest, PendingNow
<1>4. ASSUME offer' = Settle(order.attempt, Rest, "LOST") PROVE Rest' = {}
  <2>1. ASSUME NEW m \in Masters PROVE offer'[order.attempt][m].outcome # "PENDING"
    BY <1>1, <1>2, <1>4 DEF Settle, Rest, PendingNow, OfferType
  <2> QED BY <2>1 DEF Rest, PendingNow
<1>5. ASSUME NEW a \in Attempts, NEW who \in SUBSET Masters, offer' = Settle(a, who, "EXPIRED")
      PROVE  Rest' \subseteq Rest
  <2>1. ASSUME NEW m \in Masters, offer'[order.attempt][m].outcome = "PENDING"
        PROVE  offer[order.attempt][m].outcome = "PENDING"
    BY <1>1, <1>2, <1>5, <2>1 DEF Settle, OfferType
  <2> QED BY <2>1 DEF Rest, PendingNow
<1> QED BY <1>3, <1>4, <1>5

(* What a search goes through.                                              *)
LEMMA SearchMoves ==
    ASSUME TypeInv, NEW h \in Handlers,
           \/ SendOffers(h) \/ Expire(h) \/ GiveUp(h) \/ CancelFree(h) \/ PublishGate(h)
           \/ RetryGate(h) \/ Withdraw(h) \/ Create(h)
    PROVE  SendsNothing \/ SendsWave \/ StartsAgain
<1>0. UNCHANGED <<order, offer>> => SendsNothing BY DEF SendsNothing, Rest, PendingNow
<1>1. {"CREATED", "SEARCHING", "NO_MASTERS", "CANCELLED_BY_CLIENT"} \subseteq Status
  BY DEF Status, Over
<1>2. CASE SendOffers(h)
  <2>1. CASE WaveGate(call[h].wave)
    <3>1. order' = [order EXCEPT !.wave = call[h].wave]
      BY <1>2, <2>1 DEF SendOffers
    <3>2. /\ order'.status = order.status /\ order'.attempt = order.attempt
          /\ order'.wave = call[h].wave
      BY <3>1, Parts DEF Row
    <3>3. order.wave \in Int /\ call[h].wave \in Int
      BY Parts, ColumnTypes, HandlerTypes DEF Call
    <3> QED BY <2>1, <3>2, <3>3 DEF WaveGate, SendsWave
  <2> QED BY <1>0, <1>2, <2>1 DEF SendOffers
<1>3. CASE Expire(h)
  <2>1. call[h].attempt \in Attempts /\ call[h].who \in SUBSET Masters
    BY <1>3, HandlerTypes DEF Expire, At, WaveStatement
  <2>2. UNCHANGED order /\ offer' = Settle(call[h].attempt, call[h].who, "EXPIRED")
    BY <1>3 DEF Expire
  <2> QED BY <2>1, <2>2, SettledOffers DEF SendsNothing
<1>4. CASE GiveUp(h) \/ CancelFree(h)
  <2>1. \/ UNCHANGED <<order, offer>>
        \/ \E s \in {"NO_MASTERS", "CANCELLED_BY_CLIENT"} :
              order' = [order EXCEPT !.status = s] /\ offer' = ExpireAll
    BY <1>4 DEF GiveUp, CancelFree, Finish
  <2>2. ASSUME NEW s \in {"NO_MASTERS", "CANCELLED_BY_CLIENT"},
               order' = [order EXCEPT !.status = s], offer' = ExpireAll
        PROVE  SendsNothing
    BY <1>1, <2>2, StatusAlone, SettledOffers DEF SendsNothing
  <2> QED BY <1>0, <2>1, <2>2
<1>5. CASE PublishGate(h) \/ Create(h)
  <2>1. \/ UNCHANGED <<order, offer>>
        \/ /\ UNCHANGED offer /\ order.status \in {"NONE", "CREATED"}
           /\ \E s \in {"CREATED", "SEARCHING"} : order' = [order EXCEPT !.status = s]
    BY <1>5 DEF PublishGate, Create, Gate
  <2>2. ASSUME NEW s \in {"CREATED", "SEARCHING"}, order.status \in {"NONE", "CREATED"},
               order' = [order EXCEPT !.status = s], UNCHANGED offer
        PROVE  SendsNothing
    BY <1>1, <2>2, StatusAlone DEF SendsNothing
  <2> QED BY <1>0, <2>1, <2>2
<1>6. CASE RetryGate(h) \/ Withdraw(h)
  <2>1. UNCHANGED <<order, offer>> \/ order' \in {NewAttempt, Withdrawn}
    BY <1>6 DEF RetryGate, Withdraw
  <2> QED BY <1>0, <2>1, Restarting DEF StartsAgain
<1> QED BY <1>2, <1>3, <1>4, <1>5, <1>6

(* Both assignments settle what was pending.                                *)
LEMMA AssignMoves ==
    ASSUME TypeInv, NEW h \in Handlers, Answer(h) \/ \E m \in Masters : ManualAssign(h, m)
    PROVE  SendsNothing
<1>0. OfferType /\ order.attempt \in Attempts BY Parts, ColumnTypes
<1>1. PICK m : order' = [order EXCEPT !.status = "ACCEPTED", !.master = m]
  BY DEF Answer, ManualAssign
<1>2. order'.attempt = order.attempt /\ order'.wave = order.wave BY <1>1, Parts DEF Row
<1>3. CASE Answer(h)
  <2>1. PICK n \in call[h].who : offer' = Won(n) BY <1>3 DEF Answer
  <2> DEFINE f == Settle(order.attempt, Rest, "LOST")
  <2>2. f \in [Attempts -> [Masters -> Offer]]
    <3>1. Rest \in SUBSET Masters BY DEF Rest
    <3> QED BY <1>0, <3>1, OutcomeTypes
  <2>3. \A k \in Masters : f[order.attempt][k].outcome # "PENDING"
    BY <1>0 DEF Settle, Rest, PendingNow, OfferType, Offer
  <2>4. offer' = [f EXCEPT ![order.attempt][n].outcome = "ACCEPTED"] BY <2>1 DEF Won
  <2> HIDE DEF f
  <2>5. \A k \in Masters : offer'[order.attempt][k].outcome # "PENDING"
    BY <1>0, <2>2, <2>3, <2>4 DEF Offer
  <2> QED BY <1>2, <2>5 DEF SendsNothing, Rest, PendingNow
<1>4. ASSUME NEW n \in Masters, ManualAssign(h, n) PROVE SendsNothing
  <2>1. offer' = Settle(order.attempt, Rest, "LOST") BY <1>4 DEF ManualAssign
  <2>2. Rest' = {} BY <1>2, <2>1, SettledOffers
  <2> QED BY <1>2, <2>2 DEF SendsNothing
<1> QED BY <1>3, <1>4

(* After the assignment, statuses are written by gates that are not of the  *)
(* search.                                                                  *)
LEMMA ServiceMoves ==
    ASSUME TypeInv,
           \/ PriceTimeout \/ ConfirmPrice \/ ConfirmCompletion \/ OpenDispute \/ ResolveDispute
           \/ \E h \in Handlers : Move(h) \/ CancelPaid(h) \/ AutoClose(h)
    PROVE  SendsNothing
<1>0. UNCHANGED <<order, offer>> => SendsNothing BY DEF SendsNothing, Rest, PendingNow
<1>1. ASSUME NEW s \in Status, order.status # "SEARCHING", Finish(s), UNCHANGED offer
      PROVE  SendsNothing
  BY <1>1, StatusAlone DEF Finish, SendsNothing
<1>2. {"IN_PROGRESS", "CLOSED", "CANCELLED_BY_CLIENT", "DONE"} \cup Served \subseteq Status
  BY DEF Status, Served, Over
<1>3. ASSUME NEW from, "SEARCHING" \notin from, PaidCancellation(from), UNCHANGED offer
      PROVE  SendsNothing
  BY <1>0, <1>1, <1>2, <1>3 DEF PaidCancellation, Gate
<1>4. CASE PriceTimeout BY <1>3, <1>4 DEF PriceTimeout
<1>5. CASE ConfirmPrice BY <1>1, <1>2, <1>5 DEF ConfirmPrice, Gate
<1>6. CASE ConfirmCompletion BY <1>1, <1>2, <1>6 DEF ConfirmCompletion, Gate
<1>7. CASE OpenDispute \/ ResolveDispute
  BY <1>0, <1>1, <1>2, <1>7 DEF OpenDispute, ResolveDispute
<1>8. ASSUME NEW h \in Handlers, Move(h) PROVE SendsNothing
  <2> DEFINE from == Moves[call[h].at].from
             to == Moves[call[h].at].to
  <2>1. from # "SEARCHING" /\ to \in Served \cup {"DONE"}
    BY <1>8 DEF Move, Moves, Served
  <2>2. UNCHANGED offer /\ (UNCHANGED order \/ (order.status = from /\ Finish(to)))
    BY <1>8 DEF Move, Gate, Finish
  <2> HIDE DEF from, to
  <2> QED BY <1>0, <1>1, <1>2, <2>1, <2>2
<1>9. ASSUME NEW h \in Handlers, CancelPaid(h) PROVE SendsNothing
  BY <1>3, <1>9 DEF CancelPaid
<1>10. ASSUME NEW h \in Handlers, AutoClose(h) PROVE SendsNothing
  BY <1>0, <1>1, <1>2, <1>10 DEF AutoClose, Gate
<1> QED BY <1>4, <1>5, <1>6, <1>7, <1>8, <1>9, <1>10

LEMMA WaveMoves ==
    ASSUME TypeInv, [Next]_vars
    PROVE  SendsNothing \/ SendsWave \/ StartsAgain
<1>0. UNCHANGED <<order, offer>> => SendsNothing BY DEF SendsNothing, Rest, PendingNow
<1>1. CASE UNCHANGED vars BY <1>0, <1>1 DEF vars
<1>2. ASSUME NEW h \in Handlers, Requests(h) \/ Deliver(h) \/ Proceed(h) \/ Die(h)
      PROVE  SendsNothing \/ SendsWave \/ StartsAgain
  <2>1. CASE \/ SendOffers(h) \/ Expire(h) \/ GiveUp(h) \/ CancelFree(h) \/ PublishGate(h)
             \/ RetryGate(h) \/ Withdraw(h) \/ Create(h)
    BY <2>1, SearchMoves
  <2>2. CASE Answer(h) \/ \E m \in Masters : ManualAssign(h, m) BY <2>2, AssignMoves
  <2>3. CASE Move(h) \/ CancelPaid(h) \/ AutoClose(h) BY <2>3, ServiceMoves
  <2>4. CASE \/ AskRetry(h) \/ AskCancel(h) \/ TakeJob(h) \/ ReadDispute(h) \/ Die(h)
             \/ Hold(h) \/ SendWave(h) \/ ReadOrder(h) \/ FindMasters(h) \/ Recheck(h)
             \/ SendTimeout(h) \/ CheckTimeout(h) \/ Collect(h)
             \/ Void(h) \/ Capture(h) \/ SendDeadline(h)
             \/ \E m \in Masters : Accept(h, m) \/ AskMaster(h, m)
    BY <1>0, <2>4
       DEF AskRetry, AskCancel, TakeJob, ReadDispute, Die, Hold, SendWave, ReadOrder, FindMasters,
           Recheck, SendTimeout, CheckTimeout, Collect, Void, Capture, SendDeadline, Accept, AskMaster
  <2> QED BY <1>2, <2>1, <2>2, <2>3, <2>4 DEF Requests, Deliver, Proceed
<1>3. CASE PriceTimeout \/ ConfirmPrice \/ ConfirmCompletion \/ OpenDispute \/ ResolveDispute
  BY <1>3, ServiceMoves
<1> QED BY <1>1, <1>2, <1>3 DEF Next

(* Whoever ends a search (the last wave, a winner, an operator or the       *)
(* client), and whatever wave jobs still run, no offer of the attempt stays *)
(* open: only a wave opens offers, and its gate asks for SEARCHING.         *)
THEOREM SearchEndsClean == Spec => []NothingLeftToAccept
<1>1. Init => NothingLeftToAccept
  <2>1. 1 \in Attempts BY BoundsAssumption DEF Attempts
  <2> QED BY <2>1 DEF Init, NothingLeftToAccept, PendingNow
<1>2. TypeInv /\ NothingLeftToAccept /\ [Next]_vars => NothingLeftToAccept'
  <2> SUFFICES ASSUME TypeInv, NothingLeftToAccept, [Next]_vars, order'.status # "SEARCHING"
               PROVE  Rest' = {}
    BY DEF NothingLeftToAccept, Rest, PendingNow
  <2>1. SendsNothing BY WaveMoves DEF SendsWave, StartsAgain
  <2> QED BY <2>1 DEF SendsNothing, NothingLeftToAccept, Rest
<1> QED BY <1>1, <1>2, InitTypes, StepTypes, PTL DEF Spec

(* Within an attempt waves only advance, and offers are opened only by a    *)
(* wave that is later than all before: a redelivered job opens nothing.     *)
THEOREM WavesAdvance == Spec => WavesOnlyAdvance
<1> DEFINE Ahead == order'.attempt = order.attempt =>
               /\ order'.wave >= order.wave
               /\ \A m \in Masters : PendingNow(m)' /\ ~PendingNow(m) => order'.wave > order.wave
<1>1. ASSUME TypeInv, TypeInv', [Next]_vars PROVE Ahead
  <2>1. order.wave \in Int /\ order'.wave \in Int /\ order.attempt \in Int
    <3>1. order \in Row /\ order' \in Row BY <1>1 DEF TypeInv, TypeOK
    <3> QED BY <3>1, BoundsAssumption DEF Row, Attempts
  <2>2. CASE SendsNothing BY <2>1, <2>2 DEF SendsNothing, Rest
  <2>3. CASE SendsWave BY <2>1, <2>3 DEF SendsWave
  <2>4. CASE StartsAgain BY <2>1, <2>4 DEF StartsAgain
  <2> QED BY <1>1, <2>2, <2>3, <2>4, WaveMoves
<1>2. TypeInv /\ TypeInv' /\ [Next]_vars => [Ahead]_vars BY <1>1
<1> QED BY <1>2, InitTypes, StepTypes, PTL DEF Spec, WavesOnlyAdvance
=============================================================================
