------------------------------- MODULE Alerts -------------------------------
(***************************************************************************)
(* fth-guardian, core/alert-manager.ts, with callers of its own: the DNS   *)
(* and certificate checks of daemons/watcher.ts and the halt route.  fire  *)
(* turns an alert away while its key is in cooldown, and otherwise lists   *)
(* it, stores it and announces it on the event bus.  Nothing in the        *)
(* repository calls setWebhooks, so notifyWebhooks has no one to tell.     *)
(* The records of the last DNS answers are only displayed, like the mark   *)
(* of an acknowledged alert, and are left out.                             *)
(***************************************************************************)
EXTENDS Naturals, Sequences, SequencesExt

CONSTANTS
    Domains,     \* MONITORED_DNS
    Sites,       \* the endpoints of checkCertificates
    AlertCalls,  \* bound: checks and requests at one time
    MaxAlerts    \* 5000 in the code

ASSUME AlertConstants == MaxAlerts \in Nat \ {0}

VARIABLES
    alerts,      \* the list of the alert manager, oldest first
    cooling,     \* the keys of lastFired whose cooldown has not lapsed
    alertCall,   \* slot -> a loop of the watcher, or a request
    fired,       \* ghost: key -> alerts listed since its cooldown began
    heard        \* ghost: the keys announced since their cooldown began
alertVars == <<alerts, cooling, alertCall, fired, heard>>

\* The keys, source and title, of what is fired here.
Key(kind, name) == <<kind, name>>
Halt == Key("EMERGENCY HALT", "api")
Keys == {Halt} \cup ({"SSL"} \X Sites) \cup ({"DNS failed", "DNS error"} \X Domains)

\* A slot: the await it is at, the names its loop has left, the key it fires.
NoAlertCall == [at |-> "idle", todo |-> {}, key |-> Halt]

AlertsInit ==
    /\ alerts = << >> /\ cooling = {}
    /\ alertCall = [c \in AlertCalls |-> NoAlertCall]
    /\ fired = [k \in Keys |-> 0] /\ heard = {}

-----------------------------------------------------------------------------
(* fire *)

\* The call goes on with what its loop has left.
GoesOn(c, rest) ==
    alertCall' = [alertCall EXCEPT ![c] =
        IF rest = {} THEN NoAlertCall ELSE [NoAlertCall EXCEPT !.at = "fetch", !.todo = rest]]

InFlight(k) == \E c \in AlertCalls : alertCall[c].at = "insert" /\ alertCall[c].key = k

\* Mutant of Throttled: lastFired is written after the INSERT.
ThrottledLate(k) == k \in cooling /\ ~InFlight(k)

\* lastTime && now - lastTime < cooldown
Throttled(k) == k \in cooling

\* fire up to its await: the throttle, lastFired, the list and its bound.
Fire(c, k, rest) ==
    IF Throttled(k) THEN GoesOn(c, rest) /\ UNCHANGED <<alerts, cooling, fired, heard>>
    ELSE /\ cooling' = cooling \cup {k}
         /\ LET all == Append(alerts, [key |-> k, resolved |-> FALSE])
            IN  alerts' = IF Len(all) > MaxAlerts THEN Tail(all) ELSE all
         /\ alertCall' = [alertCall EXCEPT ![c] = [at |-> "insert", todo |-> rest, key |-> k]]
         /\ fired' = [fired EXCEPT ![k] = @ + 1]
         /\ UNCHANGED heard

\* Mutant of Announce: no catch around the INSERT, so that a failure ends fire.
AnnounceStored(c) ==
    /\ alertCall[c].at = "insert"
    /\ heard' \in {heard, heard \cup {alertCall[c].key}}
    /\ GoesOn(c, alertCall[c].todo)
    /\ UNCHANGED <<alerts, cooling, fired>>

\* The INSERT has ended, well or not; alert.fired, and emergency, are emitted.
Announce(c) ==
    /\ alertCall[c].at = "insert"
    /\ heard' = heard \cup ({alertCall[c].key} \cap cooling)
    /\ GoesOn(c, alertCall[c].todo)
    /\ UNCHANGED <<alerts, cooling, fired>>

\* A key stays in lastFired, with a time that no longer counts.
CooldownLapses(k) ==
    /\ cooling' = cooling \ {k}
    /\ fired' = [fired EXCEPT ![k] = 0] /\ heard' = heard \ {k}
    /\ UNCHANGED <<alerts, alertCall>>

-----------------------------------------------------------------------------
(* Its callers, and the routes *)

StartsCheck(c) ==
    /\ alertCall[c].at = "idle"
    /\ \E names \in {Domains, Sites} : GoesOn(c, names)
    /\ UNCHANGED <<alerts, cooling, fired, heard>>

\* One round of a loop over names ends without alert, or fires one of kinds.
LoopStep(c, names, kinds) ==
    /\ alertCall[c].at = "fetch"
    /\ \E n \in alertCall[c].todo \cap names :
          LET rest == alertCall[c].todo \ {n}
          IN  \/ \E kind \in kinds : Fire(c, Key(kind, n), rest)
              \/ GoesOn(c, rest) /\ UNCHANGED <<alerts, cooling, fired, heard>>

\* checkDns: no answer record, or an error; an answer that is not ok says nothing.
CheckDns(c) == LoopStep(c, Domains, {"DNS failed", "DNS error"})

\* checkCertificates: only an error that names the certificate is an alert.
CheckCertificates(c) == LoopStep(c, Sites, {"SSL"})

\* POST /api/commands/halt
EmergencyHalt(c) == alertCall[c].at = "idle" /\ Fire(c, Halt, {})

\* POST /api/commands/alerts/:id/resolve
Resolve(i) ==
    /\ alerts' = [alerts EXCEPT ![i].resolved = TRUE]
    /\ UNCHANGED <<cooling, alertCall, fired, heard>>

AlertsRestart ==
    /\ alerts' = << >> /\ cooling' = {}
    /\ alertCall' = [c \in AlertCalls |-> NoAlertCall]
    /\ fired' = [k \in Keys |-> 0] /\ heard' = {}

AlertsNext ==
    \/ \E c \in AlertCalls :
          \/ Announce(c) \/ StartsCheck(c)
          \/ CheckDns(c) \/ CheckCertificates(c) \/ EmergencyHalt(c)
    \/ \E k \in cooling : CooldownLapses(k)
    \/ \E i \in DOMAIN alerts : Resolve(i)
    \/ AlertsRestart

-----------------------------------------------------------------------------
(* Properties *)

\* No alert is turned away in favour of one that nobody hears: while a key is in
\* cooldown, its alert is announced or on its way, whatever becomes of its INSERT;
\* and overlapping calls list it once per cooldown (alert-manager.ts:71-126).
AlertsAreTold ==
    \A k \in cooling : (k \in heard \/ InFlight(k)) /\ fired[k] = 1
=============================================================================
