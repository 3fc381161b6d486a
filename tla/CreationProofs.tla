--------------------------- MODULE CreationProofs ---------------------------
(* Theorems about OrderCreation for any intents and any handlers.          *)
EXTENDS OrderCreation, TLAPS

-----------------------------------------------------------------------------
(* The inductive invariant *)

(* Statements of a handler before the order of its intent exists, and      *)
(* statements after it whose effects only this handler repeats.            *)
Undecided == {"lookup", "count", "begin", "commit"}
Publishing == {"hold", "gate", "send"}

IdleServesNone == \A h \in CreateHandlers : ServingAt(h, "idle") <=> serving[h].intent = NoIntent

(* The client's row is locked by the handler that is about to commit, which *)
(* has seen no active order and no earlier commit of its intent.            *)
LockIsForCommit == \A h \in CreateHandlers : ServingAt(h, "commit") <=> userLock = h
CommitIsFirst ==
    \A h \in CreateHandlers : ServingAt(h, "commit") => made[serving[h].intent] = 0 /\ NoneActive

(* A creation without a key is sent once, and served once.                 *)
UnkeyedOnce ==
    /\ \A i \in Unkeyed \cap requests :
          made[i] = 0 /\ \A h \in CreateHandlers : serving[h].intent # i
    /\ \A h, k \in CreateHandlers :
          serving[h].intent \in Unkeyed /\ serving[h].intent = serving[k].intent => h = k
    /\ \A h \in CreateHandlers :
          serving[h].intent \in Unkeyed /\ serving[h].at \in Undecided => made[serving[h].intent] = 0

(* One handler has created the order of an intent and puts its effects.    *)
OnePublisher ==
    /\ \A h \in CreateHandlers : serving[h].at \in Publishing =>
          /\ serving[h].fresh /\ made[serving[h].intent] > 0
          /\ effects[serving[h].intent].sends = 0
          /\ ServingAt(h, "hold") => effects[serving[h].intent].holds = 0
    /\ \A h, k \in CreateHandlers :
          /\ serving[h].at \in Publishing /\ serving[k].at \in Publishing
          /\ serving[h].intent = serving[k].intent
          => h = k
    /\ \A i \in Intents : made[i] = 0 => effects[i].holds = 0 /\ effects[i].sends = 0

CreationInv ==
    /\ CreationTypeOK /\ IdleServesNone /\ LockIsForCommit /\ CommitIsFirst
    /\ UnkeyedOnce /\ OnePublisher /\ CreatedOnce

-----------------------------------------------------------------------------
(* Type correctness *)

(* What the type says of a handler, field by field.                        *)
LEMMA ServingFields ==
    ASSUME CreationTypeOK, NEW h \in CreateHandlers
    PROVE  /\ serving[h].at \in CreateStatement /\ serving[h].intent \in Intents \cup {NoIntent}
           /\ serving[h].fresh \in BOOLEAN
           /\ serving[h] = [at |-> serving[h].at, intent |-> serving[h].intent,
                            fresh |-> serving[h].fresh]
  BY DEF CreationTypeOK, Serving

LEMMA CreationTypeInit == CreationInit => CreationTypeOK
<1> SUFFICES ASSUME CreationInit PROVE CreationTypeOK
  OBVIOUS
<1> USE DEF CreationInit
<1>1. created \in [Intents -> {"NONE", "OVER"} \cup ActiveOrder]
  OBVIOUS
<1>2. made \in [Intents -> Nat]
  OBVIOUS
<1>3. effects \in [Intents -> [holds : Nat, sends : Nat]]
  OBVIOUS
<1>4. serving \in [CreateHandlers -> Serving]
  BY DEF Serving, Unused, CreateStatement
<1>5. requests \subseteq Intents
  BY DEF Intents
<1>6. /\ userLock \in CreateHandlers \cup {NoHandler} /\ abandoned \subseteq Intents
      /\ answers \subseteq Keyed /\ marker \in Keyed \cup {NoIntent}
      /\ shown \subseteq Intents /\ forgotten \subseteq Intents
  OBVIOUS
<1> QED
  BY <1>1, <1>2, <1>3, <1>4, <1>5, <1>6 DEF CreationTypeOK

(* A handler that goes to another statement, or ends, is well typed.       *)
LEMMA ServingTypes ==
    ASSUME CreationTypeOK, NEW h \in CreateHandlers
    PROVE  /\ \A s \in CreateStatement : ServeNext(h, s) => serving' \in [CreateHandlers -> Serving]
           /\ serving' = [serving EXCEPT ![h] = Unused] => serving' \in [CreateHandlers -> Serving]
           /\ serving' = [serving EXCEPT ![h].at = "hold", ![h].fresh = TRUE]
                 => serving' \in [CreateHandlers -> Serving]
<1>1. serving \in [CreateHandlers -> Serving]
  BY DEF CreationTypeOK
<1>2. Unused \in Serving
  BY DEF Unused, Serving, CreateStatement
<1>3. \A s \in CreateStatement : [serving[h] EXCEPT !.at = s] \in Serving
  BY <1>1 DEF Serving
<1>4. [serving[h] EXCEPT !.at = "hold", !.fresh = TRUE] \in Serving
  BY <1>1 DEF Serving, CreateStatement
<1> QED
  BY <1>1, <1>2, <1>3, <1>4 DEF ServeNext

(* A handler that is not idle serves an intent.                            *)
LEMMA BusyServes ==
    ASSUME CreationTypeOK, IdleServesNone, NEW h \in CreateHandlers, ~ServingAt(h, "idle")
    PROVE  serving[h].intent \in Intents
  BY ServingFields DEF IdleServesNone

(* What a handler does leaves the variables well typed; so does the tab.   *)
LEMMA CreationTypeStep ==
    CreationTypeOK /\ IdleServesNone /\ [CreationNext]_creationVars => CreationTypeOK'
<1> SUFFICES ASSUME CreationTypeOK, IdleServesNone, [CreationNext]_creationVars PROVE CreationTypeOK'
  OBVIOUS
<1> USE DEF serverVars, tabVars
<1>1. CASE UNCHANGED creationVars
  BY <1>1 DEF creationVars, CreationTypeOK
<1>2. ASSUME NEW i \in Keyed, Submit(i) \/ Recover(i) \/ ReceiveAnswer(i) PROVE CreationTypeOK'
  BY <1>2 DEF Submit, Recover, RecoveryKey, ReceiveAnswer, Intents, CreationTypeOK
<1>3. CASE Forget
  BY <1>3 DEF Forget, Intents, CreationTypeOK
<1>4. ASSUME NEW h \in CreateHandlers, NEW i \in Intents, TakeRequest(h, i) PROVE CreationTypeOK'
  BY <1>4 DEF TakeRequest, Serving, CreateStatement, CreationTypeOK
<1>5. ASSUME NEW h \in CreateHandlers,
             \/ Lookup(h) \/ CountOutside(h) \/ BeginCreation(h) \/ CommitCreation(h)
             \/ PutHold(h) \/ PublishCreated(h) \/ SendDispatch(h)
             \/ ReplayCreate(h) \/ CreationFails(h) \/ CreationDies(h)
      PROVE  CreationTypeOK'
  <2>1. serving' \in [CreateHandlers -> Serving]
    BY <1>5, ServingTypes DEF Lookup, CountOutside, BeginCreation, ReplayCreate, ReplayAnswer, Answer,
       CommitCreation, PutHold, PublishCreated, SendDispatch, CreationFails, CreationDies, CreateStatement
  <2>2. CASE ServingAt(h, "idle")
    BY <1>5, <2>2 DEF Lookup, CountOutside, BeginCreation, CommitCreation, PutHold, PublishCreated,
       SendDispatch, ReplayCreate, CreationFails, CreationDies, ServingAt
  <2>3. CASE ~ServingAt(h, "idle")
    <3>1. serving[h].intent \in Intents
      BY <2>3, BusyServes
    <3>2. CASE CommitCreation(h)
      BY <2>1, <3>1, <3>2 DEF CommitCreation, CreationTypeOK, ActiveOrder
    <3>3. CASE PutHold(h)
      BY <2>1, <3>1, <3>3 DEF PutHold, CreationTypeOK
    <3>4. CASE PublishCreated(h)
      BY <2>1, <3>1, <3>4 DEF PublishCreated, CreationTypeOK, ActiveOrder
    <3>5. CASE SendDispatch(h)
      BY <2>1, <3>1, <3>5 DEF SendDispatch, Answer, CreationTypeOK
    <3>6. CASE Lookup(h) \/ CountOutside(h) \/ BeginCreation(h) \/ ReplayCreate(h)
      BY <2>1, <3>1, <3>6
         DEF Lookup, CountOutside, BeginCreation, ReplayCreate, ReplayAnswer, Answer, CreationTypeOK
    <3>7. CASE CreationFails(h) \/ CreationDies(h)
      BY <2>1, <3>1, <3>7 DEF CreationFails, CreationDies, CreationTypeOK
    <3> QED
      BY <1>5, <3>2, <3>3, <3>4, <3>5, <3>6, <3>7
  <2> QED
    BY <2>2, <2>3
<1>6. ASSUME NEW i \in Intents, OrderEnds(i) PROVE CreationTypeOK'
  BY <1>6 DEF OrderEnds, CreationTypeOK
<1> QED
  BY <1>1, <1>2, <1>3, <1>4, <1>5, <1>6 DEF CreationNext

-----------------------------------------------------------------------------
(* Safety *)

LEMMA CreationInvInit == CreationInit => CreationInv
<1> SUFFICES ASSUME CreationInit PROVE CreationInv
  OBVIOUS
<1>1. CreationTypeOK
  BY CreationTypeInit
<1>2. IdleServesNone /\ LockIsForCommit /\ CommitIsFirst
  BY CreationSentinels DEF CreationInit, IdleServesNone, LockIsForCommit, CommitIsFirst, ServingAt, Unused
<1>3. UnkeyedOnce
  BY CreationSentinels DEF CreationInit, UnkeyedOnce, Unused, Intents
<1>4. OnePublisher
  BY DEF CreationInit, OnePublisher, Unused, Publishing
<1>5. CreatedOnce
  BY DEF CreationInit, CreatedOnce, EffectsOnce, OneActiveOrder, CreatedIsInHand, ActiveOrder
<1> QED
  BY <1>1, <1>2, <1>3, <1>4, <1>5 DEF CreationInv

(* A handler that creates nothing and puts no effect: it goes on to a      *)
(* statement that is not its turn to commit, or ends. It gives up the lock *)
(* if it has it, and abandons an order that it leaves unpublished.         *)
LEMMA QuietMove ==
    ASSUME CreationInv, CreationTypeOK', NEW h \in CreateHandlers,
           UNCHANGED <<created, made, effects, requests>>,
           abandoned \subseteq abandoned',
           \A k \in CreateHandlers \ {h} : serving'[k] = serving[k],
           serving'[h].at \in {"idle", "begin", "replay", "catch"},
           serving'[h].at = "idle" <=> serving'[h].intent = NoIntent,
           serving'[h].intent \in {serving[h].intent, NoIntent},
           serving'[h].at = "begin" => serving[h].at \in Undecided,
           userLock' = IF userLock = h THEN NoHandler ELSE userLock,
           serving[h].at \in {"hold", "gate"} =>
              created[serving[h].intent] # "CREATED" \/ serving[h].intent \in abandoned'
    PROVE  CreationInv'
<1> USE DEF CreationInv
<1>1. IdleServesNone'
  BY DEF IdleServesNone, ServingAt
<1>2. LockIsForCommit'
  BY CreationSentinels DEF LockIsForCommit, ServingAt
<1>3. CommitIsFirst'
  BY DEF CommitIsFirst, ServingAt, NoneActive
<1>4. UnkeyedOnce'
  <2>1. NoIntent \notin Unkeyed
    BY CreationSentinels
  <2> QED  BY <2>1 DEF UnkeyedOnce, Undecided
<1>5. OnePublisher'
  BY DEF OnePublisher, Publishing, ServingAt
<1>6. CreatedOnce'
  <2>1. EffectsOnce' /\ OneActiveOrder'
    BY DEF CreatedOnce, EffectsOnce, OneActiveOrder
  <2>2. CreatedIsInHand'
    BY DEF CreatedOnce, CreatedIsInHand
  <2> QED  BY <2>1, <2>2 DEF CreatedOnce
<1> QED
  BY <1>1, <1>2, <1>3, <1>4, <1>5, <1>6

(* The handlers that look, decide to give up, answer again, fail or die.   *)
LEMMA QuietSteps ==
    ASSUME CreationInv, CreationTypeOK', NEW h \in CreateHandlers,
           \/ Lookup(h) \/ ReplayCreate(h) \/ CreationFails(h) \/ CreationDies(h)
           \/ CountOutside(h) \/ (BeginCreation(h) /\ ~ServingAt(h, "commit")')
           \/ PublishCreated(h) /\ created[serving[h].intent] # "CREATED"
    PROVE  CreationInv'
<1>1. /\ serving[h].intent # NoIntent => ~ServingAt(h, "idle")
      /\ serving[h].intent = NoIntent => ServingAt(h, "idle")
      /\ ServingAt(h, "commit") <=> userLock = h
      /\ serving[h].at \in Publishing => serving[h].fresh
      /\ NoHandler # h
  BY CreationSentinels DEF CreationInv, IdleServesNone, LockIsForCommit, OnePublisher
<1>2. serving \in [CreateHandlers -> Serving]
  BY DEF CreationInv, CreationTypeOK
<1> USE DEF ServingAt, Undecided, Publishing
<1>0. ASSUME NEW s \in {"begin", "replay", "catch"}, ServeNext(h, s)
      PROVE  /\ \A k \in CreateHandlers \ {h} : serving'[k] = serving[k]
             /\ serving'[h].at = s /\ serving'[h].intent = serving[h].intent
  BY <1>0, <1>2 DEF ServeNext, Serving
<1>3. CASE Lookup(h)
  <2>1. CASE serving' = [serving EXCEPT ![h] = Unused]
    BY <1>1, <1>2, <1>3, <2>1, QuietMove DEF Lookup, Unused
  <2>2. CASE ServeNext(h, "replay")
    BY <1>0, <1>1, <1>3, <2>2, QuietMove DEF Lookup
  <2>3. CASE serving[h].at = "lookup" /\ ServeNext(h, "begin")
    BY <1>0, <1>1, <1>3, <2>3, QuietMove DEF Lookup
  <2> QED
    BY <1>3, <2>1, <2>2, <2>3 DEF Lookup
<1>4. CASE ReplayCreate(h)
  BY <1>1, <1>2, <1>4, QuietMove DEF ReplayCreate, ReplayAnswer, Answer, Unused
<1>5. CASE CreationFails(h)
  BY <1>1, <1>2, <1>5, QuietMove DEF CreationFails, ServeNext
<1>6. CASE CreationDies(h)
  BY <1>1, <1>2, <1>6, QuietMove DEF CreationDies, Unused
<1>7. CASE CountOutside(h)
  <2>1. serving[h].at = "count" /\ (ServeNext(h, "begin") \/ ServeNext(h, "catch"))
    BY <1>7 DEF CountOutside
  <2> QED
    BY <1>0, <1>1, <1>7, <2>1, QuietMove DEF CountOutside
<1>8. CASE BeginCreation(h) /\ ~ServingAt(h, "commit")'
  <2>1. serving[h].at = "begin" /\ (ServeNext(h, "replay") \/ ServeNext(h, "catch"))
           /\ userLock' = userLock
    BY <1>2, <1>8 DEF BeginCreation, ServeNext, Serving
  <2> QED
    BY <1>0, <1>1, <1>8, <2>1, QuietMove DEF BeginCreation
<1>9. CASE PublishCreated(h) /\ created[serving[h].intent] # "CREATED"
  <2>1. serving[h].at = "gate" /\ ServeNext(h, "catch") /\ UNCHANGED created
    BY <1>9 DEF PublishCreated
  <2> QED
    BY <1>0, <1>1, <1>9, <2>1, QuietMove DEF PublishCreated
<1> QED
  BY <1>3, <1>4, <1>5, <1>6, <1>7, <1>8, <1>9

(* Taking a request from the network.                                      *)
LEMMA TakeStep ==
    ASSUME CreationInv, CreationTypeOK', NEW h \in CreateHandlers, NEW i \in Intents, TakeRequest(h, i)
    PROVE  CreationInv'
<1>1. /\ serving'[h].intent = i /\ serving'[h].at = IF i \in Keyed THEN "lookup" ELSE "count"
      /\ \A k \in CreateHandlers \ {h} : serving'[k] = serving[k]
      /\ i # NoIntent /\ i \in requests /\ requests' = requests \ {i}
      /\ serving[h].intent = NoIntent /\ serving[h].at = "idle" /\ userLock # h
      /\ UNCHANGED <<created, made, effects, userLock, abandoned>>
  BY CreationSentinels DEF TakeRequest, CreationInv, CreationTypeOK, IdleServesNone, LockIsForCommit,
     ServingAt, Intents
<1> USE DEF CreationInv
<1>2. IdleServesNone' /\ LockIsForCommit' /\ CommitIsFirst'
  BY <1>1 DEF IdleServesNone, LockIsForCommit, CommitIsFirst, ServingAt, NoneActive
<1>3. UnkeyedOnce'
  BY <1>1 DEF UnkeyedOnce
<1>4. OnePublisher'
  BY <1>1 DEF OnePublisher, Publishing, ServingAt
<1>5. CreatedOnce'
  <2>1. EffectsOnce' /\ OneActiveOrder'
    BY <1>1 DEF CreatedOnce, EffectsOnce, OneActiveOrder
  <2>2. CreatedIsInHand'
    BY <1>1 DEF CreatedOnce, CreatedIsInHand
  <2> QED  BY <2>1, <2>2 DEF CreatedOnce
<1> QED
  BY <1>2, <1>3, <1>4, <1>5

(* The handler that takes the lock has seen, under it, that it is alone.   *)
LEMMA LockStep ==
    ASSUME CreationInv, CreationTypeOK', NEW h \in CreateHandlers,
           BeginCreation(h), ServingAt(h, "commit")'
    PROVE  CreationInv'
<1>1. serving[h].intent \in Intents /\ made[serving[h].intent] \in Nat
  BY BusyServes DEF BeginCreation, CreationInv, ServingAt, CreationTypeOK
<1>2. serving[h].intent \in Unkeyed => made[serving[h].intent] = 0
  BY DEF CreationInv, UnkeyedOnce, Undecided, BeginCreation, ServingAt
<1>3. /\ serving'[h].intent = serving[h].intent /\ serving'[h].at = "commit"
      /\ serving'[h].fresh = serving[h].fresh /\ serving[h].at = "begin"
      /\ \A k \in CreateHandlers \ {h} : serving'[k] = serving[k]
      /\ userLock = NoHandler /\ userLock' = h /\ NoneActive /\ made[serving[h].intent] = 0
      /\ UNCHANGED <<created, made, effects, abandoned, requests>>
  BY <1>1, <1>2 DEF BeginCreation, ServeNext, ServingAt, UserFree, Previous, KeyCommitted, CreationInv,
     CreationTypeOK, Serving, Intents
<1> USE DEF CreationInv
<1>4. IdleServesNone' /\ LockIsForCommit' /\ CommitIsFirst'
  BY <1>3, CreationSentinels DEF IdleServesNone, LockIsForCommit, CommitIsFirst, ServingAt, NoneActive
<1>5. UnkeyedOnce'
  BY <1>3 DEF UnkeyedOnce, Undecided
<1>6. OnePublisher'
  BY <1>3 DEF OnePublisher, Publishing, ServingAt
<1>7. CreatedOnce'
  <2>1. EffectsOnce' /\ OneActiveOrder'
    BY <1>3 DEF CreatedOnce, EffectsOnce, OneActiveOrder
  <2>2. CreatedIsInHand'
    BY <1>3 DEF CreatedOnce, CreatedIsInHand
  <2> QED  BY <2>1, <2>2 DEF CreatedOnce
<1> QED
  BY <1>4, <1>5, <1>6, <1>7

(* The commit makes the first order of its intent, and the only active one. *)
LEMMA CommitStep ==
    ASSUME CreationInv, CreationTypeOK', NEW h \in CreateHandlers, CommitCreation(h)
    PROVE  CreationInv'
<1> DEFINE i == serving[h].intent
<1>1. i \in Intents /\ made[i] = 0 /\ NoneActive /\ userLock = h
  BY BusyServes DEF CommitCreation, CreationInv, ServingAt, CommitIsFirst, LockIsForCommit
<1>2. /\ serving'[h].intent = i /\ serving'[h].at = "hold" /\ serving'[h].fresh
      /\ \A k \in CreateHandlers \ {h} : serving'[k] = serving[k]
      /\ serving[h].at = "commit" /\ userLock' = NoHandler
      /\ made'[i] = 1 /\ created'[i] = "CREATED"
      /\ \A j \in Intents \ {i} : made'[j] = made[j] /\ created'[j] = created[j]
      /\ UNCHANGED <<effects, abandoned, requests>>
  BY <1>1 DEF CommitCreation, ServingAt, CreationInv, CreationTypeOK, Serving
<1>3. \A k \in CreateHandlers \ {h} :
         /\ serving[k].at # "commit" /\ (serving[k].at \in Publishing => serving[k].intent # i)
         /\ serving[k].intent \in Unkeyed => serving[k].intent # i
  BY <1>1 DEF CreationInv, LockIsForCommit, ServingAt, OnePublisher, UnkeyedOnce
<1>4. i # NoIntent
  BY <1>1, CreationSentinels DEF Intents
<1>5. \A k \in CreateHandlers \ {h} : serving[k].at \in Publishing => serving[k].intent \in Intents
  BY ServingFields, BusyServes DEF CreationInv, ServingAt, Publishing
<1> HIDE DEF i
<1>6. IdleServesNone' /\ LockIsForCommit' /\ CommitIsFirst'
  <2>1. IdleServesNone'
    BY <1>2, <1>4 DEF CreationInv, IdleServesNone, ServingAt
  <2>2. LockIsForCommit' /\ CommitIsFirst'
    BY <1>2, <1>3, CreationSentinels DEF LockIsForCommit, CommitIsFirst, ServingAt
  <2> QED  BY <2>1, <2>2
<1>7. UnkeyedOnce'
  <2>1. \A k \in CreateHandlers : serving[k].intent \in Unkeyed => serving[k].intent \in Intents
    BY DEF Intents
  <2>2. \A j \in Unkeyed \cap requests : j # i /\ j \in Intents
    BY DEF CreationInv, UnkeyedOnce, Intents, i
  <2> QED
    BY <1>2, <1>3, <2>1, <2>2 DEF CreationInv, UnkeyedOnce, Undecided, i
<1>8. OnePublisher'
  BY <1>1, <1>2, <1>3, <1>5 DEF CreationInv, OnePublisher, Publishing, ServingAt
<1>9. CreatedOnce'
  <2>1. EffectsOnce'
    BY <1>2 DEF CreationInv, CreatedOnce, EffectsOnce
  <2>2. OneActiveOrder'
    BY <1>1, <1>2 DEF NoneActive, OneActiveOrder
  <2>3. CreatedIsInHand'
    BY <1>1, <1>2 DEF CreatedIsInHand, NoneActive, ActiveOrder
  <2> QED  BY <2>1, <2>2, <2>3 DEF CreatedOnce
<1> QED
  BY <1>6, <1>7, <1>8, <1>9 DEF CreationInv

(* The hold, the gate that finds the order as it was made, the dispatch:   *)
(* one effect, once, by the handler that made the order.                   *)
LEMMA EffectStep ==
    ASSUME CreationInv, CreationTypeOK', NEW h \in CreateHandlers,
           \/ PutHold(h) \/ SendDispatch(h)
           \/ PublishCreated(h) /\ created[serving[h].intent] = "CREATED"
    PROVE  CreationInv'
<1> DEFINE i == serving[h].intent
<1>1. i \in Intents /\ serving[h].at \in Publishing
  BY BusyServes DEF PutHold, SendDispatch, PublishCreated, CreationInv, ServingAt, Publishing
<1>2. /\ \A k \in CreateHandlers \ {h} : serving'[k] = serving[k]
      /\ UNCHANGED <<made, userLock, abandoned, requests>>
      /\ \A j \in Intents \ {i} : effects'[j] = effects[j] /\ created'[j] = created[j]
  BY DEF PutHold, SendDispatch, PublishCreated, ServeNext, Answer, CreationInv, CreationTypeOK
<1>3. \/ /\ serving[h].at = "hold" /\ serving'[h].at = "gate" /\ serving'[h].intent = i
         /\ serving'[h].fresh = serving[h].fresh /\ UNCHANGED created
         /\ effects'[i].holds = effects[i].holds + 1 /\ effects'[i].sends = effects[i].sends
      \/ /\ serving[h].at = "send" /\ serving'[h] = Unused /\ UNCHANGED created
         /\ effects'[i].holds = effects[i].holds /\ effects'[i].sends = effects[i].sends + 1
      \/ /\ serving[h].at = "gate" /\ serving'[h].at = "send" /\ serving'[h].intent = i
         /\ serving'[h].fresh = serving[h].fresh /\ UNCHANGED effects
         /\ created[i] = "CREATED" /\ created'[i] = "SEARCHING"
  <2>1. CASE PutHold(h)
    BY <1>1, <2>1 DEF PutHold, ServeNext, ServingAt, CreationInv, CreationTypeOK, Serving
  <2>2. CASE SendDispatch(h)
    BY <1>1, <2>2 DEF SendDispatch, Answer, ServingAt, CreationInv, CreationTypeOK
  <2>3. CASE PublishCreated(h) /\ created[i] = "CREATED"
    BY <1>1, <2>3 DEF PublishCreated, ServeNext, ServingAt, CreationInv, CreationTypeOK, Serving
  <2> QED  BY <2>1, <2>2, <2>3
<1>4. /\ made[i] > 0 /\ effects[i].sends = 0 /\ (serving[h].at = "hold" => effects[i].holds = 0)
      /\ \A k \in CreateHandlers \ {h} : serving[k].at \in Publishing => serving[k].intent # i
  BY <1>1 DEF CreationInv, OnePublisher, ServingAt
<1>5. i # NoIntent /\ made[i] # 0
  BY <1>1, <1>4, CreationSentinels DEF Intents, CreationInv, CreationTypeOK
<1>6. \A k \in CreateHandlers \ {h} : serving[k].at \in Publishing => serving[k].intent \in Intents
  BY BusyServes DEF CreationInv, ServingAt, Publishing
<1>7. NoneActive => NoneActive' \/ created[i] = "CREATED"
  BY <1>2, <1>3 DEF NoneActive
<1>8. created[i] = "CREATED" => ~NoneActive
  BY <1>1 DEF NoneActive, ActiveOrder
<1>a. OneActiveOrder'
  BY <1>1, <1>2, <1>3 DEF CreationInv, CreatedOnce, OneActiveOrder, ActiveOrder
<1>b. CreatedIsInHand'
  BY <1>1, <1>2, <1>3 DEF CreationInv, CreatedOnce, CreatedIsInHand
<1>c. EffectsOnce'
  BY <1>1, <1>2, <1>3, <1>4 DEF CreationInv, CreatedOnce, EffectsOnce, CreationTypeOK
<1>d. IdleServesNone'
  BY <1>2, <1>3, <1>5 DEF CreationInv, IdleServesNone, ServingAt, Unused
<1>e. LockIsForCommit' /\ CommitIsFirst'
  BY <1>1, <1>2, <1>3, <1>7, <1>8
     DEF CreationInv, LockIsForCommit, CommitIsFirst, ServingAt, Unused, Publishing
<1>f. UnkeyedOnce'
  BY <1>1, <1>2, <1>3, CreationSentinels
     DEF CreationInv, UnkeyedOnce, Undecided, Unused, Publishing, Intents
<1>g. OnePublisher'
  BY <1>1, <1>2, <1>3, <1>4, <1>5, <1>6 DEF CreationInv, OnePublisher, Publishing, ServingAt, Unused
<1> QED
  BY <1>a, <1>b, <1>c, <1>d, <1>e, <1>f, <1>g DEF CreationInv, CreatedOnce

(* An order that ends is active no more; nothing else changes.             *)
LEMMA EndStep ==
    ASSUME CreationInv, CreationTypeOK', NEW i \in Intents, OrderEnds(i)
    PROVE  CreationInv'
<1>1. /\ UNCHANGED <<made, effects, userLock, serving, abandoned, requests>>
      /\ created'[i] = "OVER" /\ \A j \in Intents \ {i} : created'[j] = created[j]
  BY DEF OrderEnds, CreationInv, CreationTypeOK
<1>2. NoneActive => NoneActive'
  BY <1>1 DEF NoneActive, ActiveOrder
<1> USE DEF CreationInv
<1>3. IdleServesNone' /\ LockIsForCommit' /\ CommitIsFirst'
  BY <1>1, <1>2 DEF IdleServesNone, LockIsForCommit, CommitIsFirst, ServingAt
<1>4. UnkeyedOnce' /\ OnePublisher'
  BY <1>1 DEF UnkeyedOnce, OnePublisher, ServingAt
<1>5. EffectsOnce'
  BY <1>1 DEF CreatedOnce, EffectsOnce
<1>6. OneActiveOrder'
  BY <1>1 DEF CreatedOnce, OneActiveOrder, ActiveOrder
<1>7. CreatedIsInHand'
  BY <1>1 DEF CreatedOnce, CreatedIsInHand
<1> QED
  BY <1>3, <1>4, <1>5, <1>6, <1>7 DEF CreatedOnce

(* The tab sends requests with a key, and receives; no order changes.      *)
LEMMA TabStep ==
    ASSUME CreationInv, CreationTypeOK', UNCHANGED serverVars,
           requests' \cap Unkeyed \subseteq requests
    PROVE  CreationInv'
<1>1. UNCHANGED <<created, made, effects, userLock, serving, abandoned>>
  BY DEF serverVars
<1> USE DEF CreationInv
<1>2. IdleServesNone' /\ LockIsForCommit' /\ CommitIsFirst'
  BY <1>1 DEF IdleServesNone, LockIsForCommit, CommitIsFirst, ServingAt, NoneActive
<1>3. UnkeyedOnce' /\ OnePublisher'
  BY <1>1 DEF UnkeyedOnce, OnePublisher, ServingAt
<1>4. CreatedOnce'
  BY <1>1 DEF CreatedOnce, EffectsOnce, OneActiveOrder, CreatedIsInHand
<1> QED
  BY <1>2, <1>3, <1>4

LEMMA CreationInvStep == CreationInv /\ [CreationNext]_creationVars => CreationInv'
<1> SUFFICES ASSUME CreationInv, [CreationNext]_creationVars PROVE CreationInv'
  OBVIOUS
<1>1. CreationTypeOK'
  BY CreationTypeStep DEF CreationInv
<1>2. CASE UNCHANGED creationVars
  BY <1>1, <1>2, TabStep DEF creationVars
<1>3. ASSUME NEW i \in Keyed, Submit(i) \/ Recover(i) \/ ReceiveAnswer(i) PROVE CreationInv'
  BY <1>1, <1>3, TabStep, CreationSentinels DEF Submit, Recover, ReceiveAnswer
<1>4. CASE Forget
  BY <1>1, <1>4, TabStep DEF Forget
<1>5. ASSUME NEW h \in CreateHandlers, NEW i \in Intents, TakeRequest(h, i) PROVE CreationInv'
  BY <1>1, <1>5, TakeStep
<1>6. ASSUME NEW h \in CreateHandlers,
             Lookup(h) \/ CountOutside(h) \/ ReplayCreate(h) \/ CreationFails(h) \/ CreationDies(h)
      PROVE  CreationInv'
  BY <1>1, <1>6, QuietSteps
<1>7. ASSUME NEW h \in CreateHandlers, BeginCreation(h) PROVE CreationInv'
  <2>1. CASE ServingAt(h, "commit")'
    BY <1>1, <1>7, <2>1, LockStep
  <2>2. CASE ~ServingAt(h, "commit")'
    BY <1>1, <1>7, <2>2, QuietSteps
  <2> QED
    BY <2>1, <2>2
<1>8. ASSUME NEW h \in CreateHandlers, CommitCreation(h) PROVE CreationInv'
  BY <1>1, <1>8, CommitStep
<1>9. ASSUME NEW h \in CreateHandlers, PutHold(h) \/ PublishCreated(h) \/ SendDispatch(h)
      PROVE  CreationInv'
  <2>1. CASE PublishCreated(h) /\ created[serving[h].intent] # "CREATED"
    BY <1>1, <2>1, QuietSteps
  <2> QED
    BY <1>1, <1>9, <2>1, EffectStep
<1>10. ASSUME NEW i \in Intents, OrderEnds(i) PROVE CreationInv'
  BY <1>1, <1>10, EndStep
<1> QED
  BY <1>2, <1>3, <1>4, <1>5, <1>6, <1>7, <1>8, <1>9, <1>10 DEF CreationNext

(* A press of the button makes one order with its effects, the only active *)
(* one of the client, for any requests, recoveries, failures and deaths of *)
(* OrdersService.createInternal and of the controller's replay.            *)
THEOREM OneOrderPerIntent == CreationSpec => []CreatedOnce
<1>1. CreationInv => CreatedOnce
  BY DEF CreationInv
<1> QED
  BY <1>1, CreationInvInit, CreationInvStep, PTL DEF CreationSpec

-----------------------------------------------------------------------------
(* The tab and the server *)

(* The tab's side of a key: what is on its way, being served or made is    *)
(* known to the tab; an answer, and what is shown, is of a committed order. *)
TabKnows ==
    /\ \A i \in Keyed : i \in requests \/ made[i] > 0 \/ (\E h \in CreateHandlers : serving[h].intent = i)
          => i = marker \/ i \in shown \cup forgotten
    /\ \A h \in CreateHandlers : serving[h].at \in {"replay"} \cup Publishing => made[serving[h].intent] > 0
    /\ \A i \in answers \cup shown : made[i] > 0

TabInv == CreationInv /\ TabKnows

(* Every answer is of a committed order, and so is all that is shown.      *)
LEMMA TabInvInit == CreationInit => TabInv
<1> SUFFICES ASSUME CreationInit PROVE TabKnows
  BY CreationInvInit DEF TabInv
<1>1. \A i \in Keyed : i \in Intents /\ i \notin Unkeyed /\ i # NoIntent
  BY CreationSentinels DEF Intents
<1> QED
  BY <1>1 DEF TabKnows, CreationInit, Unused, Publishing

(* The tab: it submits a fresh key or repeats its marker's, takes an answer *)
(* in, or forgets.                                                         *)
LEMMA TabMoves ==
    ASSUME TabInv, NEW i \in Keyed, Submit(i) \/ Recover(i) \/ ReceiveAnswer(i) \/ Forget
    PROVE  TabKnows'
<1>1. i # NoIntent /\ NoIntent \notin Keyed
  BY CreationSentinels
<1>2. UNCHANGED <<made, serving>>
  BY DEF Submit, Recover, ReceiveAnswer, Forget, serverVars
<1> USE DEF TabInv
<1>3. CASE Submit(i)
  BY <1>1, <1>2, <1>3 DEF Submit, TabKnows
<1>4. CASE Recover(i)
  BY <1>1, <1>2, <1>4 DEF Recover, RecoveryKey, TabKnows
<1>5. CASE ReceiveAnswer(i)
  BY <1>1, <1>2, <1>5 DEF ReceiveAnswer, Resolves, TabKnows
<1>6. CASE Forget
  BY <1>1, <1>2, <1>6 DEF Forget, TabKnows
<1> QED
  BY <1>3, <1>4, <1>5, <1>6

(* The server: it serves what was sent, and answers for what is made.      *)
LEMMA ServerMoves ==
    ASSUME TabInv, NEW h \in CreateHandlers, UNCHANGED tabVars,
           made' \in [Intents -> Nat], \A j \in Intents : made'[j] >= made[j],
           \A j \in Keyed : made'[j] > made[j] => serving[h].intent = j,
           \A k \in CreateHandlers \ {h} : serving'[k] = serving[k],
           requests' \subseteq requests,
           serving'[h].intent \in {serving[h].intent, NoIntent} \cup requests,
           serving'[h].at \in {"replay"} \cup Publishing => made'[serving'[h].intent] > 0,
           \/ answers' = answers
           \/ /\ answers' = answers \cup ({serving[h].intent} \cap Keyed)
              /\ made[serving[h].intent] > 0
    PROVE  TabKnows'
<1>1. /\ UNCHANGED <<marker, shown, forgotten>>
      /\ NoIntent \notin Keyed /\ Keyed \subseteq Intents
      /\ made \in [Intents -> Nat] /\ shown \subseteq Intents /\ answers \subseteq Intents
  BY CreationSentinels DEF tabVars, Intents, TabInv, CreationInv, CreationTypeOK
<1>2. \A j \in Keyed : made'[j] > 0 => made[j] > 0 \/ serving[h].intent = j
  BY <1>1
<1>3. \A j \in Keyed :
         j \in requests' \/ made'[j] > 0 \/ (\E k \in CreateHandlers : serving'[k].intent = j)
            => j = marker' \/ j \in shown' \cup forgotten'
  BY <1>1, <1>2 DEF TabInv, TabKnows
<1>4. \A k \in CreateHandlers : serving[k].at \in {"replay"} \cup Publishing => serving[k].intent \in Intents
  BY BusyServes DEF TabInv, CreationInv, Publishing, ServingAt
<1>5. \A k \in CreateHandlers :
         serving'[k].at \in {"replay"} \cup Publishing => made'[serving'[k].intent] > 0
  BY <1>1, <1>4 DEF TabInv, TabKnows
<1>6. \A j \in answers' \cup shown' : made'[j] > 0
  BY <1>1 DEF TabInv, TabKnows
<1> QED
  BY <1>3, <1>5, <1>6 DEF TabKnows

LEMMA TabInvStep == TabInv /\ [CreationNext]_creationVars => TabInv'
<1> SUFFICES ASSUME TabInv, [CreationNext]_creationVars PROVE TabKnows'
  BY CreationInvStep DEF TabInv
<1>1. CreationTypeOK /\ CreationTypeOK' /\ CreationInv /\ IdleServesNone
  BY CreationInvStep DEF TabInv, CreationInv
<1>2. made \in [Intents -> Nat] /\ made' \in [Intents -> Nat] /\ serving \in [CreateHandlers -> Serving]
  BY <1>1 DEF CreationTypeOK
<1>3. CASE UNCHANGED creationVars
  BY <1>3 DEF TabInv, TabKnows, creationVars, serverVars, tabVars
<1>4. ASSUME NEW i \in Keyed, Submit(i) \/ Recover(i) \/ ReceiveAnswer(i) PROVE TabKnows'
  BY <1>4, TabMoves
<1>5. CASE Forget
  <2>1. marker \in Keyed
    BY <1>1, <1>5 DEF Forget, CreationTypeOK
  <2> QED  BY <1>5, <2>1, TabMoves
<1>6. ASSUME NEW i \in Intents, OrderEnds(i) PROVE TabKnows'
  BY <1>6 DEF OrderEnds, TabInv, TabKnows, tabVars
<1>7. ASSUME NEW h \in CreateHandlers, NEW i \in Intents, TakeRequest(h, i) PROVE TabKnows'
  <2>1. /\ serving'[h].intent = i /\ serving'[h].at \in {"lookup", "count"}
        /\ \A k \in CreateHandlers \ {h} : serving'[k] = serving[k]
    BY <1>2, <1>7 DEF TakeRequest
  <2>2. /\ i \in requests /\ requests' \subseteq requests
        /\ UNCHANGED <<made, answers>> /\ UNCHANGED tabVars
    BY <1>7 DEF TakeRequest
  <2>3. /\ \A j \in Intents : made'[j] >= made[j] /\ ~(made'[j] > made[j])
        /\ Keyed \subseteq Intents
    BY <1>2, <2>2 DEF Intents
  <2>4. serving'[h].at \notin {"replay"} \cup Publishing
    BY <2>1 DEF Publishing
  <2> QED
    BY <1>2, <2>1, <2>2, <2>3, <2>4, ServerMoves
<1>8. ASSUME NEW h \in CreateHandlers,
             \/ Lookup(h) \/ CountOutside(h) \/ BeginCreation(h) \/ CommitCreation(h)
             \/ PutHold(h) \/ PublishCreated(h) \/ SendDispatch(h)
             \/ ReplayCreate(h) \/ CreationFails(h) \/ CreationDies(h)
      PROVE  TabKnows'
  <2>1. ~ServingAt(h, "idle")
    BY <1>8 DEF Lookup, CountOutside, BeginCreation, CommitCreation, PutHold, PublishCreated, SendDispatch,
                ReplayCreate, CreationFails, CreationDies, ServingAt
  <2>2. serving[h].intent \in Intents
    BY <1>1, <2>1, BusyServes
  <2>3. UNCHANGED tabVars /\ UNCHANGED requests
    BY <1>8 DEF Lookup, CountOutside, BeginCreation, CommitCreation, PutHold, PublishCreated, SendDispatch,
                ReplayCreate, CreationFails, CreationDies
  <2>4. ~CommitCreation(h) => UNCHANGED made
    BY <1>8 DEF Lookup, CountOutside, BeginCreation, PutHold, PublishCreated, SendDispatch,
                ReplayCreate, CreationFails, CreationDies
  <2>5. /\ \A k \in CreateHandlers \ {h} : serving'[k] = serving[k]
        /\ serving'[h].intent \in {serving[h].intent, NoIntent}
    BY <1>2, <1>8 DEF Lookup, CountOutside, BeginCreation, CommitCreation, PutHold, PublishCreated,
                SendDispatch, ReplayCreate, ReplayAnswer, Answer, CreationFails, CreationDies, ServeNext,
                Serving, Unused
  <2>6. /\ \A j \in Intents : made'[j] >= made[j]
        /\ \A j \in Keyed : made'[j] > made[j] => serving[h].intent = j
    BY <1>2, <2>2, <2>4 DEF CommitCreation, Intents
  <2>7. serving[h].at \in {"replay"} \cup Publishing => made[serving[h].intent] > 0
    BY DEF TabInv, TabKnows
  <2>8. serving'[h].at \in {"replay"} \cup Publishing => made'[serving'[h].intent] > 0
    <3>1. CASE CommitCreation(h)
      BY <1>2, <2>2, <3>1 DEF CommitCreation, Serving
    <3>2. CASE Lookup(h)
      BY <1>2, <2>7, <3>2 DEF Lookup, ServeNext, KeyCommitted, Serving, Unused, Publishing
    <3>3. CASE BeginCreation(h)
      BY <1>2, <3>3 DEF BeginCreation, Previous, ServeNext, KeyCommitted, Serving, Publishing
    <3>4. CASE CountOutside(h) \/ CreationFails(h) \/ CreationDies(h)
      BY <1>2, <3>4 DEF CountOutside, CreationFails, CreationDies, ServeNext, Serving, Unused, Publishing
    <3>5. CASE PutHold(h) \/ PublishCreated(h)
      BY <1>2, <2>7, <3>5 DEF PutHold, PublishCreated, ServingAt, ServeNext, Serving, Publishing
    <3>6. CASE SendDispatch(h) \/ ReplayCreate(h)
      BY <1>2, <3>6 DEF SendDispatch, ReplayCreate, ReplayAnswer, Answer, Unused, Publishing
    <3> QED
      BY <1>8, <3>1, <3>2, <3>3, <3>4, <3>5, <3>6
  <2>9. \/ answers' = answers
        \/ /\ answers' = answers \cup ({serving[h].intent} \cap Keyed)
           /\ made[serving[h].intent] > 0
    <3>1. CASE SendDispatch(h) \/ ReplayCreate(h)
      BY <2>7, <3>1 DEF SendDispatch, ReplayCreate, ReplayAnswer, Answer, ServingAt, Publishing
    <3>2. CASE ~(SendDispatch(h) \/ ReplayCreate(h))
      BY <1>8, <3>2 DEF Lookup, CountOutside, BeginCreation, CommitCreation, PutHold, PublishCreated,
                  CreationFails, CreationDies
    <3> QED  BY <3>1, <3>2
  <2> QED
    BY <1>2, <2>3, <2>5, <2>6, <2>8, <2>9, ServerMoves
<1> QED
  BY <1>3, <1>4, <1>5, <1>6, <1>7, <1>8 DEF CreationNext

(* The tab knows of every order it has made until it has shown it, unless  *)
(* a logout or a lost storage took its marker, and shows none that is not  *)
(* made: resolvePendingCreate and the markers of new-order-draft.          *)
THEOREM NoSubmissionIsLost == CreationSpec => []UnknownOutcomeKept
<1>1. TabInv => UnknownOutcomeKept
  BY DEF TabInv, TabKnows, UnknownOutcomeKept
<1> QED
  BY <1>1, TabInvInit, TabInvStep, PTL DEF CreationSpec

(* Every variable of OrderCreation keeps its type.                         *)
THEOREM CreationTypeCorrect == CreationSpec => []CreationTypeOK
<1>1. CreationInv => CreationTypeOK
  BY DEF CreationInv
<1> QED
  BY <1>1, CreationInvInit, CreationInvStep, PTL DEF CreationSpec
=============================================================================
