------------------------- MODULE ServerSubscription -------------------------
(***************************************************************************)
(* The publisher's side of one subscription                                *)
(* (protocol/src/interaction/ServerSubscription.ts): the initial report,   *)
(* the collection of changes, the timers that decide when a report is      *)
(* sent, its retries, and closing, together with the part of               *)
(* InteractionServer that establishes it.                                  *)
(*                                                                         *)
(* A value is the number of the change that produced it.  A report arrives *)
(* as a whole or not at all, and its sender learns the truth, an error, or *)
(* that the peer refused it.  Code between two awaits is one action; time  *)
(* is abstracted to whether the minimum interval has passed.               *)
(***************************************************************************)
EXTENDS Naturals, Sequences, FiniteSets

CONSTANTS
    Attributes,     \* the subscribed attributes
    MaxVersion,     \* bound: the value each attribute changes to at last
    MaxEvents,      \* bound: events
    OtherErrors     \* reports may fail with an error that does not mean no peer

ASSUME SubscriptionAssumption ==
    /\ MaxVersion \in [Attributes -> Nat] /\ MaxEvents \in Nat
    /\ OtherErrors \in BOOLEAN

None == 0           \* no value of the attribute

VARIABLES
    version,        \* the attributes' values
    emitted,        \* events so far
    stage,          \* initial, answering, active, abandoned or closed
    unread,         \* attributes the initial report still has to read
    initial,        \* what it read of the others
    outAttrs,       \* #outstandingAttributeUpdates
    outEvents,      \* #outstandingEventUpdates
    sending,        \* what #currentUpdatePromise is doing: no, report or self
    batchAttrs,     \* attributeUpdatesToSend
    batchEvents,    \* eventUpdatesToSend
    again,          \* #sendNextUpdateImmediately
    errors,         \* #sendUpdateErrorCounter
    delayTimer,     \* #sendDelayTimer is running
    updateTimer,    \* #updateTimer: stopped, or what it waits for
    floorPassed,    \* the minimum interval since #lastUpdateTimeMs has passed
    closeCall,      \* the close() that does the work: none, outside, inside, returned
    reported,       \* the peer's values
    received,       \* the peer's events
    lostAttrs,      \* changes given up while the subscription goes on (history)
    lostEvents      \* events given up while the subscription goes on (history)

data == <<version, emitted>>
start == <<unread, initial>>
out == <<outAttrs, outEvents>>
batch == <<batchAttrs, batchEvents>>
timers == <<delayTimer, updateTimer>>
peer == <<reported, received>>
lost == <<lostAttrs, lostEvents>>

vars == <<data, stage, start, out, sending, batch, again, errors, timers,
          floorPassed, closeCall, peer, lost>>

NoAttrs == [a \in Attributes |-> None]
HasData(attrs, events) == attrs # NoAttrs \/ events # <<>>
EventsOf(s) == {s[i] : i \in DOMAIN s}

-----------------------------------------------------------------------------
(* #prepareDataUpdate: decide when to send. *)

\* Faulty: nothing waits for the minimum interval after the timer was stopped.
PrepareWithoutFloor ==
    IF stage # "active" \/ delayTimer
    THEN UNCHANGED timers
    ELSE /\ delayTimer' = floorPassed
         /\ updateTimer' = IF floorPassed THEN "interval" ELSE "stopped"

\* Faulty: the next report is not scheduled.
PrepareOnce ==
    IF stage # "active" \/ delayTimer
    THEN UNCHANGED timers
    ELSE IF floorPassed
         THEN delayTimer' = TRUE /\ updateTimer' = "stopped"
         ELSE updateTimer' = "floor" /\ UNCHANGED delayTimer

Prepare ==
    IF stage # "active" \/ delayTimer
    THEN UNCHANGED timers
    ELSE IF floorPassed
         THEN delayTimer' = TRUE /\ updateTimer' = "interval"
         ELSE updateTimer' = "floor" /\ UNCHANGED delayTimer

\* attributeChangeHandler: only the newest value is kept.
Change(a) ==
    /\ stage # "closed" /\ version[a] < MaxVersion[a]
    /\ version' = [version EXCEPT ![a] = @ + 1]
    /\ outAttrs' = [outAttrs EXCEPT ![a] = version'[a]]
    /\ lostAttrs' = lostAttrs \ {a}
    /\ Prepare
    /\ UNCHANGED <<emitted, stage, start, outEvents, sending, batch, again, errors,
                   floorPassed, closeCall, peer, lostEvents>>

\* eventChangeListener: an event that is not urgent waits for the next report.
Emit(urgent) ==
    /\ stage # "closed" /\ emitted < MaxEvents
    /\ emitted' = emitted + 1
    /\ outEvents' = Append(outEvents, emitted')
    /\ IF urgent THEN Prepare ELSE UNCHANGED timers
    /\ UNCHANGED <<version, stage, start, outAttrs, sending, batch, again, errors,
                   floorPassed, closeCall, peer, lost>>

-----------------------------------------------------------------------------
(* Sending: at most one update runs, and it may be followed by another. *)

\* #sendUpdate takes everything outstanding and initiates the report.
TakeOutstanding(attrs, events) ==
    /\ sending' = "report"
    /\ batchAttrs' = attrs /\ batchEvents' = events
    /\ outAttrs' = NoAttrs /\ outEvents' = <<>>
    /\ floorPassed' = FALSE

\* The update ends; a close() that waits for it returns.
EndUpdate(attrs, events) ==
    /\ sending' = "no"
    /\ batchAttrs' = NoAttrs /\ batchEvents' = <<>>
    /\ outAttrs' = attrs /\ outEvents' = events
    /\ closeCall' = IF closeCall = "outside" THEN "returned" ELSE closeCall
    /\ UNCHANGED floorPassed

\* A delayed update is sent at once, if there is anything to send.
EndOrSendDelayed(attrs, events) ==
    /\ again' = FALSE
    /\ IF again /\ HasData(attrs, events)
       THEN TakeOutstanding(attrs, events) /\ UNCHANGED closeCall
       ELSE EndUpdate(attrs, events)

\* #triggerSendUpdate
Trigger ==
    IF sending # "no"
    THEN again' = TRUE /\ UNCHANGED <<sending, batch, out, floorPassed>>
    ELSE TakeOutstanding(outAttrs, outEvents) /\ UNCHANGED again

\* #sendDelayTimer
DelayElapses ==
    /\ delayTimer
    /\ delayTimer' = FALSE
    /\ Trigger
    /\ UNCHANGED <<data, stage, start, errors, updateTimer, closeCall, peer, lost>>

\* #updateTimer; it is longer than the 50 ms of #sendDelayTimer.
UpdateTimerFires ==
    /\ updateTimer # "stopped" /\ ~delayTimer
    /\ Prepare
    /\ UNCHANGED <<data, stage, start, out, sending, batch, again, errors,
                   floorPassed, closeCall, peer, lost>>

FloorPasses ==
    /\ ~floorPassed /\ stage = "active"
    /\ floorPassed' = TRUE
    /\ UNCHANGED <<data, stage, start, out, sending, batch, again, errors, timers,
                   closeCall, peer, lost>>

-----------------------------------------------------------------------------
(* Establishing (InteractionServer). *)

\* The iterator of the initial report reads an attribute, whose listener is
\* registered already.
ReadInitial(a) ==
    /\ stage = "initial" /\ a \in unread
    /\ unread' = unread \ {a}
    /\ initial' = [initial EXCEPT ![a] = version[a]]
    /\ UNCHANGED <<data, stage, out, sending, batch, again, errors, timers,
                   floorPassed, closeCall, peer, lost>>

InitialReportArrives ==
    /\ stage = "initial" /\ unread = {}
    /\ stage' = "answering"
    /\ reported' = initial
    /\ floorPassed' = FALSE
    /\ UNCHANGED <<data, start, out, sending, batch, again, errors, timers,
                   closeCall, received, lost>>

\* The initial report fails and the subscription is closed.
InitialReportFails ==
    /\ stage = "initial"
    /\ stage' = "closed"
    /\ closeCall' = "returned"
    /\ UNCHANGED <<data, start, out, sending, batch, again, errors, timers,
                   floorPassed, peer, lost>>

\* The subscribe response arrives: activate().
Activate ==
    /\ stage = "answering"
    /\ stage' = "active"
    /\ updateTimer' = "interval"
    /\ IF HasData(outAttrs, outEvents)
       THEN Trigger
       ELSE UNCHANGED <<sending, batch, out, floorPassed, again>>
    /\ UNCHANGED <<data, start, errors, delayTimer, closeCall, peer, lost>>

\* The subscribe response fails: nobody closes the subscription.
Abandon ==
    /\ stage = "answering"
    /\ stage' = "abandoned"
    /\ UNCHANGED <<data, start, out, sending, batch, again, errors, timers,
                   floorPassed, closeCall, peer, lost>>

-----------------------------------------------------------------------------
(* The outcome of a report, and closing. *)

\* destroy()
Destroy ==
    /\ stage' = "closed"
    /\ delayTimer' = FALSE /\ updateTimer' = "stopped"

\* The peer applies the report.
Arrives ==
    /\ reported' = [a \in Attributes |-> IF batchAttrs[a] # None THEN batchAttrs[a]
                                                                 ELSE reported[a]]
    /\ received' = received \cup EventsOf(batchEvents)

ReportSucceeds ==
    /\ sending = "report"
    /\ Arrives
    /\ errors' = 0
    /\ EndOrSendDelayed(outAttrs, outEvents)
    /\ UNCHANGED <<data, stage, start, timers, lost>>

\* Faulty: the older values replace the newer ones.
OldRefilled == [a \in Attributes |-> IF batchAttrs[a] # None THEN batchAttrs[a] ELSE outAttrs[a]]

\* A failed batch goes back into the queue, in front of what came meanwhile.
Refilled == [a \in Attributes |-> IF outAttrs[a] # None THEN outAttrs[a] ELSE batchAttrs[a]]

\* Faulty: behind what came meanwhile.
EventsBehind == outEvents \o batchEvents

RefilledEvents == batchEvents \o outEvents

GivesUp == errors + 1 > 2

\* sendDataReport throws, whether the report arrived or not, while the
\* subscription is open: the first two times in a row the data is kept.
ReportFails ==
    /\ sending = "report" /\ stage # "closed" /\ ~GivesUp
    /\ Arrives \/ UNCHANGED peer
    /\ errors' = errors + 1
    /\ EndOrSendDelayed(Refilled, RefilledEvents)
    /\ UNCHANGED <<data, stage, start, timers, lost>>

\* The third time, by an error that means the peer is gone: cancel.
ReportFailsForGood ==
    /\ sending = "report" /\ stage # "closed" /\ GivesUp
    /\ Arrives \/ UNCHANGED peer
    /\ errors' = 3 /\ again' = FALSE
    /\ Destroy
    /\ EndUpdate(outAttrs, outEvents)
    /\ UNCHANGED <<data, start, lost>>

\* The third time, by another error: it is thrown and logged, the data is gone.
\* (The counter goes on beyond 3, which makes no difference.)
ReportFailsOtherwise ==
    /\ OtherErrors
    /\ sending = "report" /\ stage # "closed" /\ GivesUp
    /\ Arrives \/ UNCHANGED peer
    /\ errors' = 3 /\ again' = FALSE
    /\ EndUpdate(outAttrs, outEvents)
    /\ lostAttrs' = lostAttrs \cup {a \in Attributes : batchAttrs[a] # None /\ outAttrs[a] = None}
    /\ lostEvents' = lostEvents \cup EventsOf(batchEvents)
    /\ UNCHANGED <<data, stage, start, timers>>

\* It fails while the subscription is closing: nothing is tried again, and what
\* was to follow is not sent.
ReportFailsWhenClosed ==
    /\ sending = "report" /\ stage = "closed"
    /\ Arrives \/ UNCHANGED peer
    /\ EndUpdate(outAttrs, outEvents)
    /\ UNCHANGED <<data, stage, start, again, errors, timers, lost>>

\* The peer answers with an error status: close() is called inside the update,
\* and waits for the promise of that update.
ReportRefused ==
    /\ sending = "report" /\ stage # "closed"
    /\ Destroy
    /\ sending' = "self"
    /\ closeCall' = "inside"
    /\ UNCHANGED <<data, start, out, batch, again, errors, floorPassed, peer, lost>>

\* The same when the subscription is closed already: close() returns at once and
\* the update goes on as if it had succeeded.
ReportRefusedWhenClosed ==
    /\ sending = "report" /\ stage = "closed"
    /\ errors' = 0
    /\ EndOrSendDelayed(outAttrs, outEvents)
    /\ UNCHANGED <<data, stage, start, timers, peer, lost>>

\* close(graceful) by the session or the server; a graceful one sends what is
\* outstanding.
Close(graceful) ==
    /\ stage = "active"
    /\ Destroy
    /\ IF graceful /\ HasData(outAttrs, outEvents)
       THEN Trigger
       ELSE UNCHANGED <<sending, batch, out, floorPassed, again>>
    /\ closeCall' = IF sending' = "no" THEN "returned" ELSE "outside"
    /\ UNCHANGED <<data, start, errors, peer, lost>>

-----------------------------------------------------------------------------
Init ==
    /\ version = [a \in Attributes |-> 1] /\ emitted = 0
    /\ stage = "initial" /\ unread = Attributes /\ initial = NoAttrs
    /\ outAttrs = NoAttrs /\ outEvents = <<>>
    /\ sending = "no" /\ batchAttrs = NoAttrs /\ batchEvents = <<>>
    /\ again = FALSE /\ errors = 0
    /\ delayTimer = FALSE /\ updateTimer = "stopped" /\ floorPassed = TRUE
    /\ closeCall = "none"
    /\ reported = NoAttrs /\ received = {}
    /\ lostAttrs = {} /\ lostEvents = {}

Establish ==
    \/ \E a \in Attributes : ReadInitial(a)
    \/ InitialReportArrives \/ InitialReportFails \/ Activate \/ Abandon

Outcome ==
    \/ ReportSucceeds \/ ReportFails \/ ReportFailsForGood \/ ReportFailsOtherwise
    \/ ReportFailsWhenClosed \/ ReportRefused \/ ReportRefusedWhenClosed

Next ==
    \/ \E a \in Attributes : Change(a)
    \/ \E urgent \in BOOLEAN : Emit(urgent)
    \/ Establish
    \/ DelayElapses \/ UpdateTimerFires \/ FloorPasses
    \/ Outcome
    \/ \E graceful \in BOOLEAN : Close(graceful)

Spec == Init /\ [][Next]_vars

\* Timers fire and every report has an outcome: the exchange acknowledges, gives
\* up or times out.
Fairness ==
    /\ WF_vars(DelayElapses) /\ WF_vars(UpdateTimerFires) /\ WF_vars(FloorPasses)
    /\ WF_vars(Establish) /\ WF_vars(Outcome)

FairSpec == Spec /\ Fairness

-----------------------------------------------------------------------------
(* Properties. *)

\* Types, and the limit of failures in a row.
TypeOK ==
    /\ version \in [Attributes -> Nat] /\ emitted \in Nat
    /\ stage \in {"initial", "answering", "active", "abandoned", "closed"}
    /\ unread \subseteq Attributes /\ initial \in [Attributes -> Nat]
    /\ outAttrs \in [Attributes -> Nat] /\ outEvents \in Seq(Nat)
    /\ sending \in {"no", "report", "self"}
    /\ batchAttrs \in [Attributes -> Nat] /\ batchEvents \in Seq(Nat)
    /\ again \in BOOLEAN /\ errors \in 0 .. 3
    /\ delayTimer \in BOOLEAN /\ updateTimer \in {"stopped", "floor", "interval"}
    /\ floorPassed \in BOOLEAN
    /\ closeCall \in {"none", "outside", "inside", "returned"}
    /\ reported \in [Attributes -> Nat] /\ received \subseteq Nat
    /\ lostAttrs \subseteq Attributes /\ lostEvents \subseteq Nat

\* The newest value of a is with the peer or on its way: read for the initial
\* report, outstanding, or in the running update.
OnItsWay(a) ==
    \/ reported[a] = version[a]
    \/ stage = "initial" /\ (a \in unread \/ initial[a] = version[a])
    \/ outAttrs[a] = version[a]
    \/ batchAttrs[a] = version[a]

\* While the subscription is open no change is forgotten, however changes,
\* failed reports and retries interleave: the newest value of every attribute is
\* reported or on its way, except after the third failure (#sendUpdate).
NothingLost ==
    stage # "closed" =>
        /\ \A a \in Attributes : a \in lostAttrs \/ OnItsWay(a)
        /\ \A e \in 1 .. emitted :
               e \in received \cup lostEvents \cup EventsOf(outEvents) \cup EventsOf(batchEvents)

\* Events are reported in the order they occurred: those in the running update
\* before those still outstanding (the refill in #sendUpdate).
EventsInOrder ==
    LET queue == batchEvents \o outEvents IN
    \A i, j \in DOMAIN queue : i < j => queue[i] < queue[j]

\* Every change reaches the peer, unless the subscription ends or the change was
\* thrown away by a third failure (#prepareDataUpdate and its timers).
ChangesReported ==
    \A a \in Attributes : \A v \in 2 .. MaxVersion[a] :
        (stage = "active" /\ version[a] = v)
            ~> (reported[a] >= v \/ stage = "closed" \/ a \in lostAttrs)

\* An active subscription never falls silent: the peer, which ends it when
\* reports stay away, hears from it again and again (#updateTimer).
KeepsReporting == []<>(stage = "active" => sending # "no")

\* Every close() returns (ServerSubscription.ts:954: closes the subscription and
\* flushes all outstanding data updates).
CloseReturns == (closeCall # "none") ~> (closeCall = "returned")
=============================================================================
