----------------------------- MODULE WmiAlerts -----------------------------
(***************************************************************************)
(* WMI-IDS: New-AlertTrigger, New-AlertAction and Register-Alert.  An      *)
(* alert is a filter, a consumer and a binding, put into the repository by *)
(* three calls of Set-WmiInstance one after the other; each may fail and   *)
(* then ends Register-Alert (ErrorAction Stop), and what was put stays.    *)
(* Set-WmiInstance replaces an instance that has the same key: a filter's  *)
(* is its name, a consumer's its class and name.                           *)
(***************************************************************************)
EXTENDS Integers, Sequences

CONSTANTS
  Triggers,   \* the triggers defined: [object, type, name], name "" if not given
  Actions,    \* the actions: [alertType, name], name "" if not given
  MaxCalls    \* bound: calls of Register-Alert

ASSUME MaxCallsAssumption == MaxCalls \in Nat

VARIABLES
  filters,    \* __EventFilter: what a filter of each name watches
  consumers,  \* what a consumer of each class and name reports
  bindings,   \* __FilterToConsumerBinding: names of filters and consumers
  step,       \* Register-Alert is at "idle", "consumer" or "binding"
  calls       \* the calls made: the alert, what was put, and the outcome

alertVars == <<filters, consumers, bindings, step, calls>>

AlertInit ==
  /\ filters = <<>> /\ consumers = <<>> /\ bindings = {}
  /\ step = "idle" /\ calls = <<>>

(* A default name is made of the object alone: 'CommandLineEventConsumer-  *)
(* CreationEvent' is also the name for a modification or a deletion.       *)
TriggerName(trigger) == IF trigger.name # "" THEN trigger.name ELSE trigger.object

ActionName(trigger, action) == IF action.name # "" THEN action.name ELSE trigger.object

ClassName(action) ==
  CASE action.alertType = "AlertUri" -> "ActiveScript"
    [] action.alertType = "EventLog" -> "NTEventLog"

(* What the filter watches is what the consumer will report.               *)
Watches(trigger) == [object |-> trigger.object, type |-> trigger.type]

NewAlert(trigger, action) ==
  [filter   |-> TriggerName(trigger),
   consumer |-> <<ClassName(action), ActionName(trigger, action)>>,
   watches  |-> Watches(trigger)]

Set(instances, key, value) ==
  [k \in DOMAIN instances \union {key} |-> IF k = key THEN value ELSE instances[k]]

Alert == calls[Len(calls)].alert

(* The last call goes on: so many instances were put, and it is now there. *)
Went(put, outcome) ==
  calls' = [calls EXCEPT ![Len(calls)].put = put, ![Len(calls)].outcome = outcome]

-----------------------------------------------------------------------------
(* Mutant: a filter that is there is left as it is.                        *)
SetFilterOnce ==
  /\ step = "idle" /\ Len(calls) < MaxCalls
  /\ \E trigger \in Triggers, action \in Actions, ok \in BOOLEAN :
       LET alert == NewAlert(trigger, action)
       IN  /\ calls' = Append(calls, [alert |-> alert, put |-> IF ok THEN 1 ELSE 0,
                                      outcome |-> IF ok THEN "running" ELSE "stopped"])
           /\ filters' = IF ok /\ alert.filter \notin DOMAIN filters
                           THEN Set(filters, alert.filter, alert.watches) ELSE filters
           /\ step' = IF ok THEN "consumer" ELSE "idle"
  /\ UNCHANGED <<consumers, bindings>>

(* A call begins, and $Filter = Set-WmiInstance ...                        *)
SetFilter ==
  /\ step = "idle" /\ Len(calls) < MaxCalls
  /\ \E trigger \in Triggers, action \in Actions, ok \in BOOLEAN :
       LET alert == NewAlert(trigger, action)
       IN  /\ calls' = Append(calls, [alert |-> alert, put |-> IF ok THEN 1 ELSE 0,
                                      outcome |-> IF ok THEN "running" ELSE "stopped"])
           /\ filters' = IF ok THEN Set(filters, alert.filter, alert.watches) ELSE filters
           /\ step' = IF ok THEN "consumer" ELSE "idle"
  /\ UNCHANGED <<consumers, bindings>>

SetConsumer ==
  /\ step = "consumer"
  /\ \/ /\ consumers' = Set(consumers, Alert.consumer, Alert.watches)
        /\ step' = "binding" /\ Went(2, "running")
     \/ /\ UNCHANGED consumers
        /\ step' = "idle" /\ Went(1, "stopped")
  /\ UNCHANGED <<filters, bindings>>

(* Mutant: a call that cannot bind returns all the same.                   *)
SetBindingAnyway ==
  /\ step = "binding"
  /\ \/ bindings' = bindings \union {<<Alert.filter, Alert.consumer>>} /\ Went(3, "returned")
     \/ UNCHANGED bindings /\ Went(2, "returned")
  /\ step' = "idle"
  /\ UNCHANGED <<filters, consumers>>

(* The last of the three, and New-Object: the alert is returned.           *)
SetBinding ==
  /\ step = "binding"
  /\ \/ bindings' = bindings \union {<<Alert.filter, Alert.consumer>>} /\ Went(3, "returned")
     \/ UNCHANGED bindings /\ Went(2, "stopped")
  /\ step' = "idle"
  /\ UNCHANGED <<filters, consumers>>

AlertNext == SetFilter \/ SetConsumer \/ SetBinding
AlertSpec == AlertInit /\ [][AlertNext]_alertVars
-----------------------------------------------------------------------------
(* What was asked stays until its name is used again, and a name is used   *)
(* again by whatever call puts an instance of it, one that stops later     *)
(* included: an alert that was returned is bound, its filter watches what  *)
(* the last call to put a filter of its name asked for, and its consumer   *)
(* reports what the last call to put a consumer of its name did.           *)
(* (Register-Alert, the default names.)                                    *)
LastPut(P(_)) == CHOOSE k \in DOMAIN calls : P(k) /\ \A j \in DOMAIN calls : P(j) => j <= k

AlertsUntilNameReused ==
  \A k \in DOMAIN calls :
    LET alert == calls[k].alert
        filter(j)   == calls[j].put >= 1 /\ calls[j].alert.filter = alert.filter
        consumer(j) == calls[j].put >= 2 /\ calls[j].alert.consumer = alert.consumer
    IN  calls[k].outcome = "returned" =>
          /\ <<alert.filter, alert.consumer>> \in bindings
          /\ filters[alert.filter] = calls[LastPut(filter)].alert.watches
          /\ consumers[alert.consumer] = calls[LastPut(consumer)].alert.watches

(* A filter or a consumer without a binding is what a call that was        *)
(* stopped left (Register-Alert).                                          *)
OrphansOnlyOfStopped ==
  step = "idle" =>
    /\ \A f \in DOMAIN filters :
         (\A b \in bindings : b[1] # f) =>
           \E k \in DOMAIN calls : calls[k].outcome = "stopped" /\ calls[k].alert.filter = f
    /\ \A c \in DOMAIN consumers :
         (\A b \in bindings : b[2] # c) =>
           \E k \in DOMAIN calls : calls[k].outcome = "stopped" /\ calls[k].alert.consumer = c
=============================================================================
