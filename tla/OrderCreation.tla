--------------------------- MODULE OrderCreation ---------------------------
(***************************************************************************)
(* One client creates urgent orders: the form that keeps a marker of what  *)
(* it has submitted (new-order-draft, useNewOrderDraft), the network that  *)
(* loses requests and answers, and the handlers of OrdersController.create *)
(* with OrdersService.createInternal and OrderCreationRequestService. An   *)
(* intent is one press of the button: a key, and the fields sent with it.  *)
(***************************************************************************)
EXTENDS Integers, FiniteSets

CONSTANTS
    Keyed,          \* intents with a clientRequestId
    Unkeyed,        \* creations without one (an older client)
    NoIntent,
    CreateHandlers, \* bound: how many requests are handled at once
    NoHandler

ASSUME CreationSentinels ==
    /\ NoIntent \notin Keyed \cup Unkeyed /\ NoHandler \notin CreateHandlers
    /\ Keyed \cap Unkeyed = {}

VARIABLES
    created,      \* per intent: the status of its order, NONE where there is none
    made,         \* per intent: how many orders were created for it
    effects,      \* per intent: holds put and dispatches sent
    userLock,     \* the handler whose transaction has locked the client's User row
    serving,      \* the handlers in progress
    abandoned,    \* intents whose creating handler failed or died after its commit
    requests,     \* requests on their way
    answers,      \* answers with an order on their way; any other leaves the form as it is
    marker,       \* the pending record of the tab; the form is frozen while there is one
    shown,        \* intents the client has been shown the order of
    forgotten     \* intents whose marker a logout, or a reload without storage, has lost

serverVars == <<created, made, effects, userLock, serving, abandoned>>
tabVars == <<marker, shown, forgotten>>
creationVars == <<serverVars, requests, answers, tabVars>>

-----------------------------------------------------------------------------
Intents == Keyed \cup Unkeyed
ActiveOrder == {"CREATED", "SEARCHING"}
CreateStatement == {"idle", "lookup", "count", "begin", "commit", "hold", "gate", "send",
                    "replay", "catch"}
Serving == [at : CreateStatement, intent : Intents \cup {NoIntent}, fresh : BOOLEAN]
Unused == [at |-> "idle", intent |-> NoIntent, fresh |-> FALSE]

CreationTypeOK ==
    /\ created \in [Intents -> {"NONE", "OVER"} \cup ActiveOrder]
    /\ made \in [Intents -> Nat]
    /\ effects \in [Intents -> [holds : Nat, sends : Nat]]
    /\ userLock \in CreateHandlers \cup {NoHandler}
    /\ serving \in [CreateHandlers -> Serving]
    /\ abandoned \subseteq Intents
    /\ requests \subseteq Intents
    /\ answers \subseteq Keyed
    /\ marker \in Keyed \cup {NoIntent}
    /\ shown \subseteq Intents /\ forgotten \subseteq Intents

CreationInit ==
    /\ created = [i \in Intents |-> "NONE"]
    /\ made = [i \in Intents |-> 0]
    /\ effects = [i \in Intents |-> [holds |-> 0, sends |-> 0]]
    /\ userLock = NoHandler
    /\ serving = [h \in CreateHandlers |-> Unused]
    /\ abandoned = {} /\ requests \in SUBSET Unkeyed /\ answers = {}
    /\ marker = NoIntent
    /\ shown = {} /\ forgotten = {}

-----------------------------------------------------------------------------
(* The form *)

\* beginPendingCreate: no new intent while one is unresolved.
Submit(i) ==
    /\ marker = NoIntent
    /\ i \notin forgotten \cup shown   \* a fresh key
    /\ marker' = i
    /\ requests' = requests \cup {i}
    /\ UNCHANGED <<serverVars, answers, shown, forgotten>>

\* recover: the same key and the same fields
RecoveryKey(i) == i = marker

\* An error, a lost request, a lost answer or a reload leaves the marker, and the
\* client recovers: no step but this one shows that the page stopped waiting.
Recover(i) ==
    /\ RecoveryKey(i)
    /\ marker' = i
    /\ requests' = requests \cup {i}
    /\ UNCHANGED <<serverVars, answers, shown, forgotten>>

BugAnyMarker(i) == marker # NoIntent
\* resolvePendingCreate: a confirmed order resolves only its exact marker.
Resolves(i) == marker = i

ReceiveAnswer(i) ==
    /\ i \in answers
    /\ answers' = answers \ {i}
    /\ IF Resolves(i)
       THEN marker' = NoIntent /\ shown' = shown \cup {i}
       ELSE UNCHANGED <<marker, shown>>
    /\ UNCHANGED <<serverVars, requests, forgotten>>

\* Logout clears the draft and the marker. A reload loses a marker that is in
\* memory because the tab's storage refused it.
Forget ==
    /\ marker # NoIntent
    /\ marker' = NoIntent
    /\ forgotten' = forgotten \cup {marker}
    /\ UNCHANGED <<serverVars, requests, answers, shown>>

-----------------------------------------------------------------------------
(* The server *)

ServingAt(h, statement) == serving[h].at = statement
ServeNext(h, statement) == serving' = [serving EXCEPT ![h].at = statement]
Answer(h) ==
    /\ answers' = answers \cup ({serving[h].intent} \cap Keyed)
    /\ serving' = [serving EXCEPT ![h] = Unused]

TakeRequest(h, i) ==
    /\ i \in requests /\ ServingAt(h, "idle")
    /\ requests' = requests \ {i}
    /\ serving' = [serving EXCEPT ![h] =
           [at |-> IF i \in Keyed THEN "lookup" ELSE "count", intent |-> i, fresh |-> FALSE]]
    /\ UNCHANGED <<created, made, effects, userLock, abandoned, answers, tabVars>>

KeyCommitted(i) == i \in Keyed /\ made[i] > 0

\* creationRequests.lookup, before the try and in the catch
Lookup(h) ==
    LET i == serving[h].intent
    IN  /\ \/ ServingAt(h, "lookup") /\ ServeNext(h, IF KeyCommitted(i) THEN "replay" ELSE "begin")
              /\ UNCHANGED answers
           \/ ServingAt(h, "catch") /\ KeyCommitted(i) /\ ServeNext(h, "replay") /\ UNCHANGED answers
           \/ ServingAt(h, "catch") /\ ~KeyCommitted(i) /\ UNCHANGED answers
              /\ serving' = [serving EXCEPT ![h] = Unused]
        /\ UNCHANGED <<created, made, effects, userLock, abandoned, requests, tabVars>>

NoneActive == \A i \in Intents : created[i] \notin ActiveOrder

\* Without a key the active orders are also counted before the transaction.
CountOutside(h) ==
    /\ ServingAt(h, "count")
    /\ ServeNext(h, IF NoneActive THEN "begin" ELSE "catch")
    /\ UNCHANGED <<created, made, effects, userLock, abandoned, requests, answers, tabVars>>

\* SELECT ... FOR UPDATE of the client's row waits for whoever has it.
UserFree == userLock = NoHandler

BugNoPrevious(i) == FALSE
Previous(i) == KeyCommitted(i)

\* Under the lock: an earlier commit of the key, then the client's active orders.
BeginCreation(h) ==
    LET i == serving[h].intent
    IN  /\ ServingAt(h, "begin")
        /\ UserFree
        /\ IF Previous(i) THEN ServeNext(h, "replay") /\ UNCHANGED userLock
           ELSE IF NoneActive THEN ServeNext(h, "commit") /\ userLock' = h
           ELSE ServeNext(h, "catch") /\ UNCHANGED userLock
        /\ UNCHANGED <<created, made, effects, abandoned, requests, answers, tabVars>>

\* The order, its photos and the request row.
CommitCreation(h) ==
    LET i == serving[h].intent
    IN  /\ ServingAt(h, "commit")
        /\ created' = [created EXCEPT ![i] = "CREATED"]
        /\ made' = [made EXCEPT ![i] = @ + 1]
        /\ serving' = [serving EXCEPT ![h].at = "hold", ![h].fresh = TRUE]
        /\ userLock' = NoHandler
        /\ UNCHANGED <<effects, abandoned, requests, answers, tabVars>>

\* After the commit: the hold (not with direct payment), the gate, the dispatch.
PutHold(h) ==
    LET i == serving[h].intent
    IN  /\ ServingAt(h, "hold")
        /\ effects' = [effects EXCEPT ![i].holds = @ + 1]
        /\ ServeNext(h, "gate")
        /\ UNCHANGED <<created, made, userLock, abandoned, requests, answers, tabVars>>

PublishCreated(h) ==
    LET i == serving[h].intent
    IN  /\ ServingAt(h, "gate")
        /\ IF created[i] = "CREATED"
           THEN created' = [created EXCEPT ![i] = "SEARCHING"] /\ ServeNext(h, "send")
           ELSE UNCHANGED created /\ ServeNext(h, "catch")
        /\ UNCHANGED <<made, effects, userLock, abandoned, requests, answers, tabVars>>

SendDispatch(h) ==
    LET i == serving[h].intent
    IN  /\ ServingAt(h, "send")
        /\ effects' = [effects EXCEPT ![i].sends = @ + 1]
        /\ Answer(h)
        /\ UNCHANGED <<created, made, userLock, abandoned, requests, tabVars>>

\* replayCreate: the snapshot, or 202 with the committed order; no effect is repeated.
ReplayAnswer(h) == Answer(h)

ReplayCreate(h) ==
    /\ ServingAt(h, "replay")
    /\ ReplayAnswer(h)
    /\ UNCHANGED <<created, made, effects, userLock, abandoned, requests, tabVars>>

\* The provider, the queue or the database refuses: the transaction is rolled
\* back, or what it has committed stays, and the catch looks for it.
CreationFails(h) ==
    /\ serving[h].at \in {"begin", "commit", "hold", "send"}
    /\ ServeNext(h, "catch")
    /\ userLock' = IF userLock = h THEN NoHandler ELSE userLock
    /\ abandoned' = IF serving[h].fresh THEN abandoned \cup {serving[h].intent} ELSE abandoned
    /\ UNCHANGED <<created, made, effects, requests, answers, tabVars>>

CreationDies(h) ==
    /\ ~ServingAt(h, "idle")
    /\ serving' = [serving EXCEPT ![h] = Unused]
    /\ userLock' = IF userLock = h THEN NoHandler ELSE userLock
    /\ abandoned' = IF serving[h].fresh THEN abandoned \cup {serving[h].intent} ELSE abandoned
    /\ UNCHANGED <<created, made, effects, requests, answers, tabVars>>

\* The client cancels the order, or it ends as orders do.
OrderEnds(i) ==
    /\ created[i] \in ActiveOrder
    /\ created' = [created EXCEPT ![i] = "OVER"]
    /\ UNCHANGED <<made, effects, userLock, serving, abandoned, requests, answers, tabVars>>

-----------------------------------------------------------------------------
CreationNext ==
    \/ \E i \in Keyed : Submit(i) \/ Recover(i)
    \/ \E i \in Keyed : ReceiveAnswer(i)
    \/ Forget
    \/ \E h \in CreateHandlers :
          \/ \E i \in Intents : TakeRequest(h, i)
          \/ Lookup(h) \/ CountOutside(h) \/ BeginCreation(h) \/ CommitCreation(h)
          \/ PutHold(h) \/ PublishCreated(h) \/ SendDispatch(h)
          \/ ReplayCreate(h) \/ CreationFails(h) \/ CreationDies(h)
    \/ \E i \in Intents : OrderEnds(i)

CreationSpec == CreationInit /\ [][CreationNext]_creationVars

-----------------------------------------------------------------------------
(* Properties *)

\* However often a key is sent, by recoveries that overtake each other and after
\* any failure, it makes one order, puts one hold and sends one dispatch: "never
\* ... repeat payment/dispatch effects" (replayCreate, createInternal).
EffectsOnce ==
    \A i \in Intents : made[i] <= 1 /\ effects[i].holds <= 1 /\ effects[i].sends <= 1

\* Creations with and without keys take turns on the client's row, so that two of
\* them never both see no active order.
OneActiveOrder ==
    \A i, j \in Intents : created[i] \in ActiveOrder /\ created[j] \in ActiveOrder => i = j

\* An order is left in CREATED only by a handler that failed or died after its
\* commit: nothing else publishes it, and nothing resumes the handler.
CreatedIsInHand ==
    \A i \in Intents : created[i] = "CREATED" =>
        \/ i \in abandoned
        \/ \E h \in CreateHandlers : serving[h].intent = i /\ serving[h].at \in {"hold", "gate"}

\* What a press of the button makes, in all: one order with its effects, the only
\* active one of the client, and not forgotten while nobody has failed.
CreatedOnce == EffectsOnce /\ OneActiveOrder /\ CreatedIsInHand

\* The tab never loses a submission whose outcome it does not know: the marker
\* survives errors, lost answers and reloads, until the order was shown. What a
\* logout or a tab without storage forgets is the only exception.
UnknownOutcomeKept ==
    /\ \A i \in Keyed : made[i] > 0 => i = marker \/ i \in shown \cup forgotten
    /\ \A i \in shown : made[i] > 0
=============================================================================
