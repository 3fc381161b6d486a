--------------------------- MODULE SecurityAlerts ---------------------------
(***************************************************************************)
(* The alerts that triggers derive from security events, what operators do *)
(* with them, and the webhook deliveries that announce them. One rule and  *)
(* one resource: an event meets the open alert of the pair or opens one.   *)
(* SecurityAlertDeliveryService claims a delivery, posts it, and writes    *)
(* the outcome; another job escalates an alert that nobody has answered.   *)
(***************************************************************************)
EXTENDS Integers, FiniteSets

CONSTANTS
    Alerts,        \* bound: how many alerts the pair may have had
    Severities,    \* severities an event of the rule may have
    Retries,       \* bound: manual retries per alert
    Senders,       \* bound: how many deliveries are posted at once
    Escalators,    \* bound: how many escalations run at once
    MaxPosts,      \* SECURITY_ALERT_DELIVERY_MAX_ATTEMPTS
    NoAlert

ASSUME AlertsAssumption ==
    /\ Severities \subseteq {"WARNING", "HIGH", "CRITICAL"}
    /\ MaxPosts \in Nat \ {0} /\ NoAlert \notin Alerts
    /\ Retries \cap {"INITIAL", "SEVERITY_UPGRADE", "ACK_SLA_BREACH", "RESOLUTION_SLA_BREACH"} = {}

VARIABLES
    alert,       \* the rows of SecurityAlert
    delivery,    \* SecurityAlertDelivery by alert and reason, which is its dedupeKey
    sender,      \* deliveries being posted
    escalator,   \* candidates that escalateOverdue has read
    posted,      \* history: severities the webhook has been told of an alert, by an answered post
    dropped      \* history: deliveries whose process died between the claim and the outcome

alertVars == <<alert, delivery, sender, escalator, posted, dropped>>

-----------------------------------------------------------------------------
Reasons == {"INITIAL", "SEVERITY_UPGRADE", "ACK_SLA_BREACH", "RESOLUTION_SLA_BREACH"} \cup Retries
Keys == Alerts \X Reasons
Rank == [s \in {"WARNING", "HIGH", "CRITICAL"} |->
            CASE s = "WARNING" -> 1 [] s = "HIGH" -> 2 [] s = "CRITICAL" -> 3]
NoDelivery == [status |-> "NONE", posts |-> 0]
NotSending == [at |-> "idle", key |-> <<NoAlert, "INITIAL">>, severity |-> "WARNING"]
NotEscalating == [alert |-> NoAlert, status |-> "OPEN"]
Unresolved == {"OPEN", "ACKNOWLEDGED"}

AlertsTypeOK ==
    /\ alert \in [Alerts -> [status : {"NONE", "RESOLVED"} \cup Unresolved,
                             severity : DOMAIN Rank, level : 0..2, late : BOOLEAN]]
    /\ delivery \in [Keys -> [status : {"NONE", "PENDING", "SENDING", "SENT", "FAILED", "EXHAUSTED"},
                              posts : 0..MaxPosts]]
    /\ sender \in [Senders -> [at : {"idle", "claimed", "post", "ok", "error"},
                               key : (Alerts \cup {NoAlert}) \X Reasons, severity : DOMAIN Rank]]
    /\ escalator \in [Escalators -> [alert : Alerts \cup {NoAlert}, status : Unresolved]]
    /\ posted \subseteq Alerts \X DOMAIN Rank
    /\ dropped \subseteq Keys

AlertsInit ==
    /\ alert = [a \in Alerts |-> [status |-> "NONE", severity |-> "WARNING", level |-> 0, late |-> FALSE]]
    /\ delivery = [k \in Keys |-> NoDelivery]
    /\ sender = [s \in Senders |-> NotSending]
    /\ escalator = [e \in Escalators |-> NotEscalating]
    /\ posted = {} /\ dropped = {}

-----------------------------------------------------------------------------
(* An event, and the triggers behind it *)

\* INSERT ... ON CONFLICT (dedupeKey) DO NOTHING
Queued(key) ==
    IF delivery[key].status = "NONE" THEN [delivery EXCEPT ![key].status = "PENDING"] ELSE delivery

OpenAlerts == {a \in Alerts : alert[a].status = "OPEN"}

\* A first event: an alert, and its delivery unless it is a warning.
OpenAlert(a, severity) ==
    /\ OpenAlerts = {} /\ alert[a].status = "NONE"
    /\ alert' = [alert EXCEPT ![a].status = "OPEN", ![a].severity = severity]
    /\ delivery' = IF severity = "WARNING" THEN delivery ELSE Queued(<<a, "INITIAL">>)
    /\ UNCHANGED <<sender, escalator, posted, dropped>>

\* queue_security_alert_delivery: an update to HIGH queues nothing.
AnnouncesUpgrade(a, severity) == severity = "CRITICAL"

\* A further event of the open alert may raise its severity.
RaiseAlert(a, severity) ==
    /\ a \in OpenAlerts /\ Rank[severity] > Rank[alert[a].severity]
    /\ alert' = [alert EXCEPT ![a].severity = severity]
    /\ delivery' = IF AnnouncesUpgrade(a, severity) THEN Queued(<<a, "SEVERITY_UPGRADE">>) ELSE delivery
    /\ UNCHANGED <<sender, escalator, posted, dropped>>

\* transition
AcknowledgeAlert(a) ==
    /\ alert[a].status = "OPEN"
    /\ alert' = [alert EXCEPT ![a].status = "ACKNOWLEDGED", ![a].late = FALSE]
    /\ UNCHANGED <<delivery, sender, escalator, posted, dropped>>

ResolveAlert(a) ==
    /\ alert[a].status \in Unresolved
    /\ alert' = [alert EXCEPT ![a].status = "RESOLVED", ![a].late = FALSE]
    /\ UNCHANGED <<delivery, sender, escalator, posted, dropped>>

\* manualRetry
RetryAlert(a, r) ==
    /\ alert[a].status # "NONE" /\ delivery[<<a, r>>].status = "NONE"
    /\ delivery' = Queued(<<a, r>>)
    /\ UNCHANGED <<alert, sender, escalator, posted, dropped>>

-----------------------------------------------------------------------------
(* Deliveries *)

SenderAt(s, statement) == sender[s].at = statement
Outcome(s, status) ==
    IF delivery[sender[s].key].status = "SENDING"
    THEN [delivery EXCEPT ![sender[s].key].status = status] ELSE delivery

BugClaimSending(key) == delivery[key].status \in {"PENDING", "FAILED", "SENDING"}
Claimed(key) == delivery[key].status \in {"PENDING", "FAILED"}

\* The sweep of each minute, a job, or a repeated job, once nextAttemptAt has come.
ClaimDelivery(s, key) ==
    /\ SenderAt(s, "idle")
    /\ Claimed(key) /\ delivery[key].posts < MaxPosts
    /\ delivery' = [delivery EXCEPT ![key] = [status |-> "SENDING", posts |-> delivery[key].posts + 1]]
    /\ sender' = [sender EXCEPT ![s].at = "claimed", ![s].key = key]
    /\ UNCHANGED <<alert, escalator, posted, dropped>>

ReadAlert(s) ==
    /\ SenderAt(s, "claimed")
    /\ sender' = [sender EXCEPT ![s].at = "post", ![s].severity = alert[sender[s].key[1]].severity]
    /\ UNCHANGED <<alert, delivery, escalator, posted, dropped>>

\* The webhook takes it and answers, takes it and the answer is lost, or refuses.
PostAlert(s) ==
    /\ SenderAt(s, "post")
    /\ \/ /\ posted' = posted \cup {<<sender[s].key[1], sender[s].severity>>}
          /\ sender' = [sender EXCEPT ![s].at = "ok"]
       \/ sender' = [sender EXCEPT ![s].at = "error"] /\ UNCHANGED posted
    /\ UNCHANGED <<alert, delivery, escalator, dropped>>

\* The mark itself may fail, and is then taken for a failed post. A failure after
\* it (the touch of the alert) would mark a row that is SENT: nothing matches.
MarkSent(s) ==
    /\ SenderAt(s, "ok")
    /\ \/ delivery' = Outcome(s, "SENT") /\ sender' = [sender EXCEPT ![s] = NotSending]
       \/ sender' = [sender EXCEPT ![s].at = "error"] /\ UNCHANGED delivery
    /\ UNCHANGED <<alert, escalator, posted, dropped>>

BugNeverExhausted(key) == delivery[key].posts > MaxPosts
Exhausted(key) == delivery[key].posts >= MaxPosts

MarkFailure(s) ==
    /\ SenderAt(s, "error")
    /\ delivery' = Outcome(s, IF Exhausted(sender[s].key) THEN "EXHAUSTED" ELSE "FAILED")
    /\ sender' = [sender EXCEPT ![s] = NotSending]
    /\ UNCHANGED <<alert, escalator, posted, dropped>>

\* Nothing claims a row in SENDING again: there is no lease.
SenderDies(s) ==
    /\ ~SenderAt(s, "idle")
    /\ sender' = [sender EXCEPT ![s] = NotSending]
    /\ dropped' = dropped \cup {sender[s].key}
    /\ UNCHANGED <<alert, delivery, escalator, posted>>

-----------------------------------------------------------------------------
(* Escalation *)

\* acknowledgeBy of an open alert, or resolveBy of an acknowledged one, is past.
DeadlinePasses(a) ==
    /\ alert[a].status \in Unresolved /\ ~alert[a].late
    /\ alert' = [alert EXCEPT ![a].late = TRUE]
    /\ UNCHANGED <<delivery, sender, escalator, posted, dropped>>

TargetLevel(status) == IF status = "OPEN" THEN 1 ELSE 2
Breach(status) == IF status = "OPEN" THEN "ACK_SLA_BREACH" ELSE "RESOLUTION_SLA_BREACH"

ReadOverdue(e, a) ==
    /\ escalator[e].alert = NoAlert
    /\ alert[a].status \in Unresolved /\ alert[a].late
    /\ alert[a].level < TargetLevel(alert[a].status)
    /\ escalator' = [escalator EXCEPT ![e] = [alert |-> a, status |-> alert[a].status]]
    /\ UNCHANGED <<alert, delivery, sender, posted, dropped>>

BugEscalatesAny(c) == alert[c.alert].level < TargetLevel(c.status)
\* The update asks for the status read and a lower level.
Escalates(c) ==
    alert[c.alert].status = c.status /\ alert[c.alert].level < TargetLevel(c.status)

EscalateOne(e) ==
    LET c == escalator[e]
    IN  /\ c.alert # NoAlert
        /\ escalator' = [escalator EXCEPT ![e] = NotEscalating]
        /\ IF Escalates(c)
           THEN /\ alert' = [alert EXCEPT ![c.alert].level = TargetLevel(c.status)]
                /\ delivery' = Queued(<<c.alert, Breach(c.status)>>)
           ELSE UNCHANGED <<alert, delivery>>
        /\ UNCHANGED <<sender, posted, dropped>>

EscalatorDies(e) ==
    /\ escalator[e].alert # NoAlert
    /\ escalator' = [escalator EXCEPT ![e] = NotEscalating]
    /\ UNCHANGED <<alert, delivery, sender, posted, dropped>>

-----------------------------------------------------------------------------
SenderStep(s) == ReadAlert(s) \/ PostAlert(s) \/ MarkSent(s) \/ MarkFailure(s)

AlertsNext ==
    \/ \E a \in Alerts :
          \/ \E severity \in Severities : OpenAlert(a, severity) \/ RaiseAlert(a, severity)
          \/ AcknowledgeAlert(a) \/ ResolveAlert(a) \/ DeadlinePasses(a)
          \/ \E r \in Retries : RetryAlert(a, r)
          \/ \E e \in Escalators : ReadOverdue(e, a)
    \/ \E s \in Senders :
          SenderStep(s) \/ SenderDies(s) \/ \E key \in Keys : ClaimDelivery(s, key)
    \/ \E e \in Escalators : EscalateOne(e) \/ EscalatorDies(e)

AlertsSpec == AlertsInit /\ [][AlertsNext]_alertVars

\* The sweeps come each minute, the job of a delivery finds a worker.
AlertsFairness ==
    /\ \A s \in Senders : WF_alertVars(SenderStep(s))
    /\ \A key \in Keys : SF_alertVars(\E s \in Senders : ClaimDelivery(s, key))
    /\ \A e \in Escalators :
          WF_alertVars(EscalateOne(e)) /\ \A a \in Alerts : WF_alertVars(ReadOverdue(e, a))

-----------------------------------------------------------------------------
(* Properties *)

\* A critical alert is announced as critical: the webhook has been told, or a
\* delivery that has not read the alert yet will tell it, unless its process died
\* or it ran out of attempts. Holds although an alert is raised while a delivery
\* that read the lower severity is under way (queue_security_alert_delivery).
CriticalIsAnnounced ==
    \A a \in Alerts : alert[a].severity = "CRITICAL" =>
        \/ <<a, "CRITICAL">> \in posted
        \/ \E r \in Reasons :
              \/ delivery[<<a, r>>].status \in {"PENDING", "FAILED", "EXHAUSTED"}
              \/ <<a, r>> \in dropped
              \/ \E s \in Senders :
                    /\ sender[s].key = <<a, r>> /\ sender[s].at # "idle"
                    /\ sender[s].at = "claimed" \/ sender[s].severity = "CRITICAL"

\* Two processes never post one delivery at once, whoever was sent the job twice.
OneSenderPerDelivery ==
    \A s, t \in Senders :
        sender[s].at # "idle" /\ sender[t].at # "idle" /\ sender[s].key = sender[t].key => s = t

\* Both: what operators learn of an alert by its deliveries.
AlertsAreTold == CriticalIsAnnounced /\ OneSenderPerDelivery

\* An alert is escalated only while it is unanswered past its deadline, to the
\* level of the deadline in force, and the breach is told in the same transaction:
\* a candidate read before an operator's answer does nothing to the answered alert.
EscalatedOnlyOnBreach ==
    [][\A a \in Alerts : alert'[a].level # alert[a].level =>
          /\ alert[a].late /\ alert[a].status \in Unresolved
          /\ alert'[a].level = TargetLevel(alert[a].status)
          /\ delivery'[<<a, Breach(alert[a].status)>>].status # "NONE"]_alertVars

\* Each delivery is answered or given up after its last attempt, though posts fail
\* and time out. One whose process dies between the claim and the outcome is not.
DeliveryEnds ==
    \A key \in Keys : delivery[key].status = "PENDING" ~>
        \/ delivery[key].status = "SENT" \/ key \in dropped
        \/ delivery[key].status = "EXHAUSTED" /\ delivery[key].posts = MaxPosts
=============================================================================
