---------------------- MODULE ServerSubscription_proofs ----------------------
(***************************************************************************)
(* Proofs about the publisher's side of a subscription, for every set of   *)
(* attributes and however many changes, events and failed reports there    *)
(* are.                                                                    *)
(***************************************************************************)
EXTENDS ServerSubscription, TLAPS

\* What is outstanding is the newest value, and so is what is being sent, unless
\* a newer one is outstanding.
Queued ==
    \A a \in Attributes :
        /\ version[a] # None
        /\ outAttrs[a] \in {None, version[a]}
        /\ outAttrs[a] = None => batchAttrs[a] \in {None, version[a]}

\* Nothing is being sent unless an update runs, nor before the initial report.
Quiet ==
    /\ sending = "no" => batchAttrs = NoAttrs /\ batchEvents = <<>>
    /\ stage = "initial" => sending = "no" /\ ~delayTimer /\ reported = NoAttrs
    /\ sending = "self" => stage = "closed"

IInv == TypeOK /\ Queued /\ Quiet /\ NothingLost

\* What is queued afterwards is attrs and events, in one place or the other.
Holds(attrs, events) ==
    \/ /\ sending' = "no"
       /\ batchAttrs' = NoAttrs /\ batchEvents' = <<>>
       /\ outAttrs' = attrs /\ outEvents' = events
    \/ /\ sending' = "report"
       /\ batchAttrs' = attrs /\ batchEvents' = events
       /\ outAttrs' = NoAttrs /\ outEvents' = <<>>

-----------------------------------------------------------------------------
LEMMA NoAttrsTyped ==
    NoAttrs \in [Attributes -> Nat] /\ \A a \in Attributes : NoAttrs[a] = None
  BY DEF NoAttrs, None

LEMMA EventsOfEmpty == EventsOf(<<>>) = {}
  BY DEF EventsOf

LEMMA EventsOfAppend ==
    ASSUME NEW s \in Seq(Nat), NEW e \in Nat
    PROVE  EventsOf(Append(s, e)) = EventsOf(s) \cup {e}
  <1>1. /\ Append(s, e) \in Seq(Nat) /\ Len(Append(s, e)) = Len(s) + 1
        /\ \A i \in 1 .. Len(s) : Append(s, e)[i] = s[i]
        /\ Append(s, e)[Len(s) + 1] = e
    OBVIOUS
  <1>2. DOMAIN Append(s, e) = 1 .. Len(s) + 1 /\ DOMAIN s = 1 .. Len(s) /\ Len(s) \in Nat
    BY <1>1
  <1>3. 1 .. Len(s) + 1 = (1 .. Len(s)) \cup {Len(s) + 1}
    BY <1>2
  <1>4. QED  BY <1>1, <1>2, <1>3 DEF EventsOf

LEMMA EventsOfConcat ==
    ASSUME NEW s \in Seq(Nat), NEW t \in Seq(Nat)
    PROVE  EventsOf(s \o t) = EventsOf(s) \cup EventsOf(t)
  <1>1. /\ s \o t \in Seq(Nat) /\ Len(s \o t) = Len(s) + Len(t)
        /\ \A i \in 1 .. Len(s) : (s \o t)[i] = s[i]
        /\ \A i \in 1 .. Len(t) : (s \o t)[Len(s) + i] = t[i]
    OBVIOUS
  <1>2. /\ DOMAIN (s \o t) = 1 .. Len(s) + Len(t)
        /\ DOMAIN s = 1 .. Len(s) /\ DOMAIN t = 1 .. Len(t)
        /\ Len(s) \in Nat /\ Len(t) \in Nat
    BY <1>1
  <1>3. ASSUME NEW i \in 1 .. Len(s) + Len(t)
        PROVE  (s \o t)[i] \in EventsOf(s) \cup EventsOf(t)
    <2>1. CASE i <= Len(s)
      BY <1>1, <1>2, <2>1 DEF EventsOf
    <2>2. CASE i > Len(s)
      <3>1. i - Len(s) \in 1 .. Len(t) /\ Len(s) + (i - Len(s)) = i
        BY <1>2, <2>2
      <3>2. (s \o t)[i] = t[i - Len(s)]
        BY <1>1, <3>1
      <3>3. QED  BY <1>2, <3>1, <3>2 DEF EventsOf
    <2>3. QED  BY <1>2, <2>1, <2>2
  <1>4. ASSUME NEW i \in 1 .. Len(s) PROVE s[i] \in EventsOf(s \o t)
    <2>1. i \in 1 .. Len(s) + Len(t)
      BY <1>2
    <2>2. QED  BY <1>1, <1>2, <2>1 DEF EventsOf
  <1>5. ASSUME NEW i \in 1 .. Len(t) PROVE t[i] \in EventsOf(s \o t)
    <2>1. Len(s) + i \in 1 .. Len(s) + Len(t)
      BY <1>2
    <2>2. QED  BY <1>1, <1>2, <2>1 DEF EventsOf
  <1>6. EventsOf(s \o t) \subseteq EventsOf(s) \cup EventsOf(t)
    BY <1>2, <1>3 DEF EventsOf
  <1>7. EventsOf(s) \subseteq EventsOf(s \o t) /\ EventsOf(t) \subseteq EventsOf(s \o t)
    BY <1>2, <1>4, <1>5 DEF EventsOf
  <1>8. QED  BY <1>6, <1>7

-----------------------------------------------------------------------------
\* The ways in which an update starts, goes on and ends only move what is queued.
LEMMA EndHolds ==
    ASSUME NEW attrs, NEW events,
           EndUpdate(attrs, events) \/ EndOrSendDelayed(attrs, events)
    PROVE  Holds(attrs, events)
  BY DEF EndUpdate, EndOrSendDelayed, TakeOutstanding, Holds

LEMMA TriggerHolds ==
    ASSUME Trigger
    PROVE  \/ UNCHANGED <<sending, batch, out>> /\ sending # "no"
           \/ Holds(outAttrs, outEvents) /\ sending = "no"
  BY DEF Trigger, TakeOutstanding, Holds

\* Queues that hold newest values keep doing so when they are moved.
LEMMA HoldsQueued ==
    ASSUME NEW attrs \in [Attributes -> Nat], NEW events \in Seq(Nat), Holds(attrs, events),
           \A a \in Attributes : version[a] # None /\ attrs[a] \in {None, version[a]},
           version' = version
    PROVE  /\ Queued'
           /\ sending' = "no" => batchAttrs' = NoAttrs /\ batchEvents' = <<>>
           /\ sending' # "self"
           /\ \A a \in Attributes : attrs[a] = version[a] =>
                  outAttrs'[a] = version'[a] \/ batchAttrs'[a] = version'[a]
           /\ EventsOf(events) \subseteq EventsOf(outEvents') \cup EventsOf(batchEvents')
           /\ outAttrs' \in [Attributes -> Nat] /\ batchAttrs' \in [Attributes -> Nat]
           /\ outEvents' \in Seq(Nat) /\ batchEvents' \in Seq(Nat)
           /\ sending' \in {"no", "report", "self"}
  <1>1. NoAttrs \in [Attributes -> Nat] /\ \A a \in Attributes : NoAttrs[a] = None
    BY DEF NoAttrs, None
  <1>2. <<>> \in Seq(Nat)
    OBVIOUS
  <1>3. Queued'
    BY <1>1 DEF Holds, Queued
  <1>4. QED  BY <1>1, <1>2, <1>3 DEF Holds

\* The types of everything but the queues.
RestTyped ==
    /\ version \in [Attributes -> Nat] /\ emitted \in Nat
    /\ stage \in {"initial", "answering", "active", "abandoned", "closed"}
    /\ unread \subseteq Attributes /\ initial \in [Attributes -> Nat]
    /\ again \in BOOLEAN /\ errors \in 0 .. 3
    /\ delayTimer \in BOOLEAN /\ updateTimer \in {"stopped", "floor", "interval"}
    /\ floorPassed \in BOOLEAN
    /\ closeCall \in {"none", "outside", "inside", "returned"}
    /\ reported \in [Attributes -> Nat] /\ received \subseteq Nat
    /\ lostAttrs \subseteq Attributes /\ lostEvents \subseteq Nat

\* A step that moves the queues after the initial report keeps the invariant if
\* what it takes from them was reported or given up.
LEMMA MoveInv ==
    ASSUME NEW attrs \in [Attributes -> Nat], NEW events \in Seq(Nat), Holds(attrs, events),
           IInv, UNCHANGED data, RestTyped', stage' # "initial",
           \A a \in Attributes : attrs[a] \in {None, version[a]},
           stage' # "closed" =>
               /\ \A a \in Attributes : \/ a \in lostAttrs' \/ reported'[a] = version[a]
                                        \/ attrs[a] = version[a]
               /\ \A e \in 1 .. emitted : e \in received' \cup lostEvents' \cup EventsOf(events)
    PROVE  IInv'
  <1>1. version' = version /\ emitted' = emitted
    BY DEF data
  <1>2. \A a \in Attributes : version[a] # None /\ attrs[a] \in {None, version[a]}
    BY DEF IInv, Queued
  <1>3. /\ Queued'
        /\ sending' = "no" => batchAttrs' = NoAttrs /\ batchEvents' = <<>>
        /\ sending' # "self"
        /\ \A a \in Attributes : attrs[a] = version[a] =>
               outAttrs'[a] = version'[a] \/ batchAttrs'[a] = version'[a]
        /\ EventsOf(events) \subseteq EventsOf(outEvents') \cup EventsOf(batchEvents')
        /\ outAttrs' \in [Attributes -> Nat] /\ batchAttrs' \in [Attributes -> Nat]
        /\ outEvents' \in Seq(Nat) /\ batchEvents' \in Seq(Nat)
        /\ sending' \in {"no", "report", "self"}
    BY <1>1, <1>2, HoldsQueued
  <1>4. TypeOK'
    BY <1>3 DEF TypeOK, RestTyped
  <1>5. Quiet'
    BY <1>3 DEF Quiet
  <1>6. NothingLost'
    BY <1>1, <1>3 DEF NothingLost, OnItsWay
  <1>7. QED  BY <1>3, <1>4, <1>5, <1>6 DEF IInv

\* An update that starts or is asked for keeps the invariant.
LEMMA TriggerInv ==
    ASSUME IInv, stage # "initial", stage' # "initial", Trigger,
           UNCHANGED data, UNCHANGED peer, UNCHANGED lost, RestTyped',
           stage = "closed" => stage' = "closed",
           sending = "self" => stage' = "closed"
    PROVE  IInv'
  <1>1. CASE UNCHANGED <<sending, batch, out>> /\ sending # "no"
    <2>1. UNCHANGED <<sending, batchAttrs, batchEvents, outAttrs, outEvents, version, emitted,
                      reported, received, lostAttrs, lostEvents>>
      BY <1>1 DEF batch, out, data, peer, lost
    <2>2. TypeOK'
      BY <2>1 DEF IInv, TypeOK, RestTyped
    <2>3. Queued' /\ Quiet'
      BY <1>1, <2>1 DEF IInv, Queued, Quiet
    <2>4. NothingLost'
      BY <2>1 DEF IInv, NothingLost, OnItsWay
    <2>5. QED  BY <2>2, <2>3, <2>4 DEF IInv
  <1>2. CASE Holds(outAttrs, outEvents) /\ sending = "no"
    <2>1. /\ outAttrs \in [Attributes -> Nat] /\ outEvents \in Seq(Nat)
          /\ \A a \in Attributes : outAttrs[a] \in {None, version[a]} /\ version[a] # None
          /\ \A a \in Attributes : batchAttrs[a] = None
          /\ EventsOf(batchEvents) = {}
      BY <1>2, NoAttrsTyped, EventsOfEmpty DEF IInv, TypeOK, Queued, Quiet
    <2>2. stage' # "closed" => stage # "closed"
      OBVIOUS
    <2>3. stage' # "closed" =>
             /\ \A a \in Attributes : \/ a \in lostAttrs' \/ reported'[a] = version[a]
                                      \/ outAttrs[a] = version[a]
             /\ \A e \in 1 .. emitted : e \in received' \cup lostEvents' \cup EventsOf(outEvents)
      BY <2>1, <2>2 DEF IInv, NothingLost, OnItsWay, peer, lost
    <2>4. QED  BY <1>2, <2>1, <2>3, MoveInv
  <1>3. QED  BY <1>1, <1>2, TriggerHolds

-----------------------------------------------------------------------------
(* The invariant holds at the start and every action keeps it. *)

LEMMA InitInv == Init => IInv
  <1> SUFFICES ASSUME Init PROVE IInv
    OBVIOUS
  <1>1. TypeOK
    <2>1. version \in [Attributes -> Nat]
      BY DEF Init
    <2>2. outEvents \in Seq(Nat) /\ batchEvents \in Seq(Nat)
      BY DEF Init
    <2>3. /\ initial \in [Attributes -> Nat] /\ reported \in [Attributes -> Nat]
          /\ outAttrs \in [Attributes -> Nat] /\ batchAttrs \in [Attributes -> Nat]
      BY NoAttrsTyped DEF Init
    <2>4. emitted \in Nat /\ errors \in 0 .. 3
      BY DEF Init
    <2>5. again \in BOOLEAN /\ delayTimer \in BOOLEAN /\ floorPassed \in BOOLEAN
      BY DEF Init
    <2>6. /\ stage \in {"initial", "answering", "active", "abandoned", "closed"}
          /\ sending \in {"no", "report", "self"}
          /\ updateTimer \in {"stopped", "floor", "interval"}
          /\ closeCall \in {"none", "outside", "inside", "returned"}
      BY DEF Init
    <2>7. /\ unread \subseteq Attributes /\ received \subseteq Nat
          /\ lostAttrs \subseteq Attributes /\ lostEvents \subseteq Nat
      BY DEF Init
    <2>8. QED  BY <2>1, <2>2, <2>3, <2>4, <2>5, <2>6, <2>7 DEF TypeOK
  <1>2. Queued /\ Quiet
    BY NoAttrsTyped DEF Init, Queued, Quiet, None
  <1>3. NothingLost
    BY DEF Init, NothingLost, OnItsWay
  <1>4. QED  BY <1>1, <1>2, <1>3 DEF IInv

LEMMA ChangeInv ==
    ASSUME IInv, NEW a \in Attributes, Change(a)
    PROVE  IInv'
  <1> USE DEF IInv
  <1>1. delayTimer' \in BOOLEAN /\ updateTimer' \in {"stopped", "floor", "interval"}
    BY DEF Change, Prepare, TypeOK, timers
  <1>2. /\ version'[a] = version[a] + 1 /\ outAttrs'[a] = version'[a]
        /\ version' \in [Attributes -> Nat] /\ outAttrs' \in [Attributes -> Nat]
        /\ \A b \in Attributes \ {a} : version'[b] = version[b] /\ outAttrs'[b] = outAttrs[b]
    BY DEF Change, TypeOK
  <1>3. TypeOK'
    BY <1>1, <1>2 DEF Change, TypeOK, start, batch, peer
  <1>4. Queued'
    BY <1>2 DEF Change, Queued, batch, None, TypeOK
  <1>5. Quiet'
    BY DEF Change, Quiet, Prepare, batch, peer, timers
  <1>6. NothingLost'
    <2> SUFFICES ASSUME stage # "closed" PROVE NothingLost'
      BY DEF NothingLost, Change
    <2>1. ASSUME NEW b \in Attributes PROVE b \in lostAttrs' \/ OnItsWay(b)'
      <3>1. CASE b = a
        BY <1>2, <3>1 DEF OnItsWay
      <3>2. CASE b # a
        BY <1>2, <3>2 DEF NothingLost, OnItsWay, Change, start, batch, peer
      <3>3. QED  BY <3>1, <3>2
    <2>2. \A e \in 1 .. emitted' :
             e \in received' \cup lostEvents' \cup EventsOf(outEvents') \cup EventsOf(batchEvents')
      BY DEF NothingLost, Change, batch, peer
    <2>3. QED  BY <2>1, <2>2 DEF NothingLost
  <1>7. QED  BY <1>3, <1>4, <1>5, <1>6

LEMMA EmitInv ==
    ASSUME IInv, NEW urgent \in BOOLEAN, Emit(urgent)
    PROVE  IInv'
  <1> USE DEF IInv
  <1>1. delayTimer' \in BOOLEAN /\ updateTimer' \in {"stopped", "floor", "interval"}
    BY DEF Emit, Prepare, TypeOK, timers
  <1>2. /\ emitted' = emitted + 1 /\ emitted \in Nat /\ outEvents \in Seq(Nat)
        /\ outEvents' = Append(outEvents, emitted')
    BY DEF Emit, TypeOK
  <1>3. outEvents' \in Seq(Nat) /\ EventsOf(outEvents') = EventsOf(outEvents) \cup {emitted'}
    BY <1>2, EventsOfAppend
  <1>4. TypeOK'
    BY <1>1, <1>2, <1>3 DEF Emit, TypeOK, start, batch, peer, lost
  <1>5. Queued' /\ Quiet'
    BY DEF Emit, Queued, Quiet, Prepare, batch, peer, timers
  <1>6. NothingLost'
    <2> SUFFICES ASSUME stage # "closed" PROVE NothingLost'
      BY DEF NothingLost, Emit
    <2>1. \A b \in Attributes : b \in lostAttrs' \/ OnItsWay(b)'
      BY DEF NothingLost, OnItsWay, Emit, start, batch, peer, lost
    <2>2. \A e \in 1 .. emitted : e \in received' \cup lostEvents' \cup EventsOf(outEvents) \cup EventsOf(batchEvents')
      BY DEF NothingLost, Emit, batch, peer, lost
    <2>3. \A e \in 1 .. emitted' : e \in 1 .. emitted \/ e = emitted'
      BY <1>2
    <2>4. QED  BY <1>3, <2>1, <2>2, <2>3 DEF NothingLost
  <1>7. QED  BY <1>4, <1>5, <1>6

\* The steps that establish the subscription, without activate().
LEMMA EstablishInv ==
    ASSUME IInv,
           \/ \E a \in Attributes : ReadInitial(a)
           \/ InitialReportArrives \/ InitialReportFails \/ Abandon
    PROVE  IInv'
  <1> USE DEF IInv
  <1>1. ASSUME NEW a \in Attributes, ReadInitial(a) PROVE IInv'
    <2>1. TypeOK'
      BY <1>1 DEF ReadInitial, TypeOK, data, out, batch, timers, peer, lost
    <2>2. Queued' /\ Quiet'
      BY <1>1 DEF ReadInitial, Queued, Quiet, data, out, batch, timers, peer, TypeOK
    <2>3. \A b \in Attributes : b \in unread' \/ b = a \/ (b \notin unread /\ initial'[b] = initial[b])
      BY <1>1 DEF ReadInitial, TypeOK
    <2>4. initial'[a] = version[a]
      BY <1>1 DEF ReadInitial, TypeOK
    <2>5. NothingLost'
      BY <1>1, <2>3, <2>4 DEF ReadInitial, NothingLost, OnItsWay, data, out, batch, peer, lost
    <2>6. QED  BY <2>1, <2>2, <2>5
  <1>2. CASE InitialReportArrives
    <2>1. TypeOK'
      BY <1>2 DEF InitialReportArrives, TypeOK, data, start, out, batch, timers, lost
    <2>2. Queued' /\ Quiet'
      BY <1>2 DEF InitialReportArrives, Queued, Quiet, data, out, batch
    <2>3. \A a \in Attributes : reported[a] # version[a]
      BY <1>2, NoAttrsTyped DEF InitialReportArrives, Queued, Quiet
    <2>4. NothingLost'
      BY <1>2, <2>3 DEF InitialReportArrives, NothingLost, OnItsWay, data, out, batch, lost
    <2>5. QED  BY <2>1, <2>2, <2>4
  <1>3. CASE InitialReportFails
    <2>1. TypeOK'
      BY <1>3 DEF InitialReportFails, TypeOK, data, start, out, batch, timers, peer, lost
    <2>2. Queued' /\ Quiet'
      BY <1>3 DEF InitialReportFails, Queued, Quiet, data, out, batch
    <2>3. NothingLost'
      BY <1>3 DEF InitialReportFails, NothingLost
    <2>4. QED  BY <2>1, <2>2, <2>3
  <1>4. CASE Abandon
    <2>1. TypeOK'
      BY <1>4 DEF Abandon, TypeOK, data, start, out, batch, timers, peer, lost
    <2>2. Queued' /\ Quiet'
      BY <1>4 DEF Abandon, Queued, Quiet, data, out, batch
    <2>3. NothingLost'
      BY <1>4 DEF Abandon, NothingLost, OnItsWay, data, start, out, batch, peer, lost
    <2>4. QED  BY <2>1, <2>2, <2>3
  <1>5. QED  BY <1>1, <1>2, <1>3, <1>4

LEMMA ActivateInv ==
    ASSUME IInv, Activate
    PROVE  IInv'
  <1>1. RestTyped'
    <2>1. again' \in BOOLEAN /\ floorPassed' \in BOOLEAN
      BY DEF Activate, Trigger, TakeOutstanding, IInv, TypeOK
    <2>2. QED  BY <2>1 DEF Activate, RestTyped, IInv, TypeOK, data, start, peer, lost
  <1>2. stage = "answering" /\ stage' = "active" /\ sending # "self"
    BY DEF Activate, IInv, Quiet
  <1>3. CASE Trigger
    BY <1>1, <1>2, <1>3, TriggerInv DEF Activate
  <1>4. CASE UNCHANGED <<sending, batch, out>>
    <2>1. TypeOK'
      BY <1>1, <1>4 DEF TypeOK, RestTyped, IInv, batch, out
    <2>2. Queued' /\ Quiet'
      BY <1>2, <1>4 DEF Activate, IInv, Queued, Quiet, data, batch, out
    <2>3. NothingLost'
      BY <1>2, <1>4 DEF Activate, IInv, NothingLost, OnItsWay, data, peer, lost, batch, out
    <2>4. QED  BY <2>1, <2>2, <2>3 DEF IInv
  <1>5. QED  BY <1>3, <1>4 DEF Activate

LEMMA CloseInv ==
    ASSUME IInv, NEW graceful \in BOOLEAN, Close(graceful)
    PROVE  IInv'
  <1>1. RestTyped'
    <2>1. again' \in BOOLEAN /\ floorPassed' \in BOOLEAN
      BY DEF Close, Trigger, TakeOutstanding, IInv, TypeOK
    <2>2. closeCall' \in {"none", "outside", "inside", "returned"}
      BY DEF Close
    <2>3. QED  BY <2>1, <2>2 DEF Close, Destroy, RestTyped, IInv, TypeOK, data, start, peer, lost
  <1>2. stage = "active" /\ stage' = "closed"
    BY DEF Close, Destroy
  <1>3. CASE Trigger
    BY <1>1, <1>2, <1>3, TriggerInv DEF Close
  <1>4. CASE UNCHANGED <<sending, batch, out>>
    <2>1. TypeOK'
      BY <1>1, <1>4 DEF TypeOK, RestTyped, IInv, batch, out
    <2>2. Queued' /\ Quiet'
      BY <1>2, <1>4 DEF Close, IInv, Queued, Quiet, data, batch, out
    <2>3. NothingLost'
      BY <1>2 DEF NothingLost
    <2>4. QED  BY <2>1, <2>2, <2>3 DEF IInv
  <1>5. QED  BY <1>3, <1>4 DEF Close

LEMMA TimersInv ==
    ASSUME IInv, DelayElapses \/ UpdateTimerFires \/ FloorPasses
    PROVE  IInv'
  <1>1. CASE DelayElapses
    <2>1. RestTyped'
      <3>1. again' \in BOOLEAN /\ floorPassed' \in BOOLEAN
        BY <1>1 DEF DelayElapses, Trigger, TakeOutstanding, IInv, TypeOK
      <3>2. QED  BY <1>1, <3>1 DEF DelayElapses, RestTyped, IInv, TypeOK, data, start, peer, lost
    <2>2. stage # "initial" /\ stage' = stage /\ (sending = "self" => stage = "closed")
      BY <1>1 DEF DelayElapses, IInv, Quiet
    <2>3. QED  BY <1>1, <2>1, <2>2, TriggerInv DEF DelayElapses
  <1>2. CASE UpdateTimerFires
    <2>1. TypeOK'
      BY <1>2 DEF UpdateTimerFires, Prepare, IInv, TypeOK, data, start, out, batch, timers, peer, lost
    <2>2. Queued' /\ Quiet'
      BY <1>2 DEF UpdateTimerFires, Prepare, IInv, Queued, Quiet, data, out, batch, timers, peer
    <2>3. NothingLost'
      BY <1>2 DEF UpdateTimerFires, IInv, NothingLost, OnItsWay, data, start, out, batch, peer, lost
    <2>4. QED  BY <2>1, <2>2, <2>3 DEF IInv
  <1>3. CASE FloorPasses
    <2>1. TypeOK'
      BY <1>3 DEF FloorPasses, IInv, TypeOK, data, start, out, batch, timers, peer, lost
    <2>2. Queued' /\ Quiet'
      BY <1>3 DEF FloorPasses, IInv, Queued, Quiet, data, out, batch, timers, peer
    <2>3. NothingLost'
      BY <1>3 DEF FloorPasses, IInv, NothingLost, OnItsWay, data, start, out, batch, peer, lost
    <2>4. QED  BY <2>1, <2>2, <2>3 DEF IInv
  <1>4. QED  BY <1>1, <1>2, <1>3

-----------------------------------------------------------------------------
\* Whether the report that is being sent arrives or not, every newest value is
\* given up, with the peer, outstanding or in the report.
LEMMA ArrivesOrNot ==
    ASSUME IInv, sending = "report", Arrives \/ UNCHANGED peer
    PROVE  /\ reported' \in [Attributes -> Nat] /\ received' \subseteq Nat
           /\ received \subseteq received'
           /\ stage # "initial"
           /\ stage # "closed" => \A a \in Attributes :
                  \/ a \in lostAttrs \/ reported'[a] = version[a] \/ outAttrs[a] = version[a]
                  \/ outAttrs[a] = None /\ batchAttrs[a] = version[a]
           /\ Arrives => /\ \A a \in Attributes : batchAttrs[a] = version[a] => reported'[a] = version[a]
                        /\ EventsOf(batchEvents) \subseteq received'
  <1> USE DEF IInv
  <1>1. EventsOf(batchEvents) \subseteq Nat
    <2>1. \A i \in DOMAIN batchEvents : batchEvents[i] \in Nat
      BY DEF TypeOK
    <2>2. QED  BY <2>1 DEF EventsOf
  <1>2. reported' \in [Attributes -> Nat] /\ received' \subseteq Nat /\ received \subseteq received'
    BY <1>1 DEF Arrives, TypeOK, peer
  <1>3. stage # "initial"
    BY DEF Quiet
  <1>4. ASSUME stage # "closed", NEW a \in Attributes
        PROVE  \/ a \in lostAttrs \/ reported'[a] = version[a] \/ outAttrs[a] = version[a]
               \/ outAttrs[a] = None /\ batchAttrs[a] = version[a]
    <2>1. /\ version[a] # None /\ outAttrs[a] \in {None, version[a]}
          /\ outAttrs[a] = None => batchAttrs[a] \in {None, version[a]}
      BY DEF Queued
    <2>2. a \in lostAttrs \/ reported[a] = version[a] \/ outAttrs[a] = version[a] \/ batchAttrs[a] = version[a]
      BY <1>3, <1>4 DEF NothingLost, OnItsWay
    <2>3. reported'[a] \in {reported[a], batchAttrs[a]}
      BY DEF Arrives, peer
    <2>4. reported'[a] = reported[a] \/ batchAttrs[a] # None
      BY DEF Arrives, peer
    <2>5. QED  BY <2>1, <2>2, <2>3, <2>4
  <1>5. ASSUME Arrives
        PROVE  /\ \A a \in Attributes : batchAttrs[a] = version[a] => reported'[a] = version[a]
               /\ EventsOf(batchEvents) \subseteq received'
    BY <1>5 DEF Arrives, Queued
  <1>6. QED  BY <1>2, <1>3, <1>4, <1>5

\* The types after an update ended or went on.
LEMMA EndTyped ==
    ASSUME NEW attrs, NEW events, TypeOK,
           \/ EndUpdate(attrs, events) /\ again' \in BOOLEAN
           \/ EndOrSendDelayed(attrs, events)
    PROVE  /\ again' \in BOOLEAN /\ floorPassed' \in BOOLEAN
           /\ closeCall' \in {"none", "outside", "inside", "returned"}
  BY DEF EndUpdate, EndOrSendDelayed, TakeOutstanding, TypeOK

LEMMA SucceedsInv ==
    ASSUME IInv, ReportSucceeds \/ ReportRefusedWhenClosed
    PROVE  IInv'
  <1>1. /\ sending = "report" /\ EndOrSendDelayed(outAttrs, outEvents)
        /\ UNCHANGED data /\ stage' = stage /\ UNCHANGED lost
        /\ Arrives \/ (UNCHANGED peer /\ stage = "closed")
    BY DEF ReportSucceeds, ReportRefusedWhenClosed
  <1>2. Holds(outAttrs, outEvents)
    BY <1>1, EndHolds
  <1>3. RestTyped'
    <2>1. reported' \in [Attributes -> Nat] /\ received' \subseteq Nat
      BY <1>1, ArrivesOrNot
    <2>2. /\ again' \in BOOLEAN /\ floorPassed' \in BOOLEAN
          /\ closeCall' \in {"none", "outside", "inside", "returned"}
      BY <1>1, EndTyped DEF IInv
    <2>3. errors' \in 0 .. 3
      BY DEF ReportSucceeds, ReportRefusedWhenClosed
    <2>4. QED
      BY <2>1, <2>2, <2>3 DEF ReportSucceeds, ReportRefusedWhenClosed, RestTyped, IInv, TypeOK,
                              data, start, timers, lost
  <1>4. stage' # "initial"
    BY <1>1 DEF IInv, Quiet
  <1>5. stage' # "closed" =>
           /\ \A a \in Attributes : \/ a \in lostAttrs' \/ reported'[a] = version[a]
                                    \/ outAttrs[a] = version[a]
           /\ \A e \in 1 .. emitted : e \in received' \cup lostEvents' \cup EventsOf(outEvents)
    BY <1>1, ArrivesOrNot DEF IInv, NothingLost, lost
  <1>6. /\ outAttrs \in [Attributes -> Nat] /\ outEvents \in Seq(Nat)
        /\ \A a \in Attributes : outAttrs[a] \in {None, version[a]}
    BY DEF IInv, TypeOK, Queued
  <1>7. QED  BY <1>1, <1>2, <1>3, <1>4, <1>5, <1>6, MoveInv

LEMMA FailsInv ==
    ASSUME IInv, ReportFails
    PROVE  IInv'
  <1>1. /\ sending = "report" /\ EndOrSendDelayed(Refilled, RefilledEvents)
        /\ UNCHANGED data /\ stage' = stage /\ UNCHANGED lost
        /\ Arrives \/ UNCHANGED peer
    BY DEF ReportFails
  <1>2. Holds(Refilled, RefilledEvents)
    BY <1>1, EndHolds
  <1>3. RestTyped'
    <2>1. reported' \in [Attributes -> Nat] /\ received' \subseteq Nat
      BY <1>1, ArrivesOrNot
    <2>2. /\ again' \in BOOLEAN /\ floorPassed' \in BOOLEAN
          /\ closeCall' \in {"none", "outside", "inside", "returned"}
      BY <1>1, EndTyped DEF IInv
    <2>3. errors' \in 0 .. 3
      BY DEF ReportFails, GivesUp, IInv, TypeOK
    <2>4. QED
      BY <2>1, <2>2, <2>3 DEF ReportFails, RestTyped, IInv, TypeOK, data, start, timers, lost
  <1>4. stage' # "initial"
    BY <1>1 DEF IInv, Quiet
  <1>5. /\ Refilled \in [Attributes -> Nat]
        /\ \A a \in Attributes : Refilled[a] = IF outAttrs[a] # None THEN outAttrs[a] ELSE batchAttrs[a]
    BY DEF Refilled, IInv, TypeOK
  <1>6. \A a \in Attributes : Refilled[a] \in {None, version[a]}
    BY <1>5 DEF IInv, Queued
  <1>7. RefilledEvents \in Seq(Nat) /\ EventsOf(RefilledEvents) = EventsOf(batchEvents) \cup EventsOf(outEvents)
    BY EventsOfConcat DEF RefilledEvents, IInv, TypeOK
  <1>8. ASSUME stage' # "closed"
        PROVE  /\ \A a \in Attributes : \/ a \in lostAttrs' \/ reported'[a] = version[a]
                                        \/ Refilled[a] = version[a]
               /\ \A e \in 1 .. emitted :
                      e \in received' \cup lostEvents' \cup EventsOf(RefilledEvents)
    <2>1. \A a \in Attributes : version[a] # None
      BY DEF IInv, Queued
    <2>2. \A a \in Attributes : \/ a \in lostAttrs' \/ reported'[a] = version[a]
                               \/ Refilled[a] = version[a]
      BY <1>1, <1>5, <1>8, <2>1, ArrivesOrNot DEF lost
    <2>3. \A e \in 1 .. emitted : e \in received' \cup lostEvents' \cup EventsOf(RefilledEvents)
      BY <1>1, <1>7, <1>8, ArrivesOrNot DEF IInv, NothingLost, lost
    <2>4. QED  BY <2>2, <2>3
  <1>9. QED  BY <1>1, <1>2, <1>3, <1>4, <1>5, <1>6, <1>7, <1>8, MoveInv

LEMMA GivesUpInv ==
    ASSUME IInv, ReportFailsForGood \/ ReportFailsOtherwise \/ ReportFailsWhenClosed
    PROVE  IInv'
  <1>1. /\ sending = "report" /\ EndUpdate(outAttrs, outEvents)
        /\ UNCHANGED data /\ again' \in BOOLEAN
        /\ Arrives \/ UNCHANGED peer
        /\ stage' = "closed" \/ (stage' = stage /\ ReportFailsOtherwise)
    BY DEF ReportFailsForGood, ReportFailsOtherwise, ReportFailsWhenClosed, Destroy, IInv, TypeOK
  <1>2. Holds(outAttrs, outEvents)
    BY <1>1, EndHolds
  <1>3. RestTyped'
    <2>1. reported' \in [Attributes -> Nat] /\ received' \subseteq Nat
      BY <1>1, ArrivesOrNot
    <2>2. /\ again' \in BOOLEAN /\ floorPassed' \in BOOLEAN
          /\ closeCall' \in {"none", "outside", "inside", "returned"}
      BY <1>1, EndTyped DEF IInv
    <2>3. errors' \in 0 .. 3
      BY DEF ReportFailsForGood, ReportFailsOtherwise, ReportFailsWhenClosed, IInv, TypeOK
    <2>4. EventsOf(batchEvents) \subseteq Nat
      <3>1. \A i \in DOMAIN batchEvents : batchEvents[i] \in Nat
        BY DEF IInv, TypeOK
      <3>2. QED  BY <3>1 DEF EventsOf
    <2>5. lostAttrs' \subseteq Attributes /\ lostEvents' \subseteq Nat
      BY <2>4 DEF ReportFailsForGood, ReportFailsOtherwise, ReportFailsWhenClosed, IInv, TypeOK, lost
    <2>6. /\ stage' \in {"initial", "answering", "active", "abandoned", "closed"}
          /\ delayTimer' \in BOOLEAN /\ updateTimer' \in {"stopped", "floor", "interval"}
          /\ UNCHANGED data /\ UNCHANGED start
      BY DEF ReportFailsForGood, ReportFailsOtherwise, ReportFailsWhenClosed, Destroy,
             IInv, TypeOK, timers
    <2>7. QED  BY <2>1, <2>2, <2>3, <2>5, <2>6 DEF RestTyped, IInv, TypeOK, data, start
  <1>4. stage' # "initial"
    BY <1>1 DEF IInv, Quiet
  <1>5. ASSUME stage' # "closed"
        PROVE  /\ \A a \in Attributes : \/ a \in lostAttrs' \/ reported'[a] = version[a]
                                        \/ outAttrs[a] = version[a]
               /\ \A e \in 1 .. emitted : e \in received' \cup lostEvents' \cup EventsOf(outEvents)
    <2>1. /\ lostAttrs' = lostAttrs \cup {a \in Attributes : batchAttrs[a] # None /\ outAttrs[a] = None}
          /\ lostEvents' = lostEvents \cup EventsOf(batchEvents)
          /\ stage # "closed"
      BY <1>1, <1>5 DEF ReportFailsOtherwise
    <2>2. \A a \in Attributes : version[a] # None
      BY DEF IInv, Queued
    <2>3. \A a \in Attributes : \/ a \in lostAttrs' \/ reported'[a] = version[a]
                               \/ outAttrs[a] = version[a]
      BY <1>1, <2>1, <2>2, ArrivesOrNot
    <2>4. \A e \in 1 .. emitted : e \in received' \cup lostEvents' \cup EventsOf(outEvents)
      BY <1>1, <2>1, ArrivesOrNot DEF IInv, NothingLost
    <2>5. QED  BY <2>3, <2>4
  <1>6. /\ outAttrs \in [Attributes -> Nat] /\ outEvents \in Seq(Nat)
        /\ \A a \in Attributes : outAttrs[a] \in {None, version[a]}
    BY DEF IInv, TypeOK, Queued
  <1>7. QED  BY <1>1, <1>2, <1>3, <1>4, <1>5, <1>6, MoveInv

LEMMA RefusedInv ==
    ASSUME IInv, ReportRefused
    PROVE  IInv'
  <1>1. TypeOK'
    BY DEF ReportRefused, Destroy, IInv, TypeOK, data, start, out, batch, peer, lost
  <1>2. Queued' /\ Quiet'
    BY DEF ReportRefused, Destroy, IInv, Queued, Quiet, data, out, batch
  <1>3. NothingLost'
    BY DEF ReportRefused, Destroy, NothingLost
  <1>4. QED  BY <1>1, <1>2, <1>3 DEF IInv

LEMMA StutterInv ==
    ASSUME IInv, UNCHANGED vars
    PROVE  IInv'
  BY DEF IInv, TypeOK, Queued, Quiet, NothingLost, OnItsWay, vars, data, start, out, batch,
         timers, peer, lost

-----------------------------------------------------------------------------
THEOREM Invariant == Spec => []IInv
  <1>1. Init => IInv
    BY InitInv
  <1>2. IInv /\ [Next]_vars => IInv'
    <2> SUFFICES ASSUME IInv, [Next]_vars PROVE IInv'
      OBVIOUS
    <2>1. CASE \E a \in Attributes : Change(a)
      BY <2>1, ChangeInv
    <2>2. CASE \E urgent \in BOOLEAN : Emit(urgent)
      BY <2>2, EmitInv
    <2>3. CASE Establish
      BY <2>3, EstablishInv, ActivateInv DEF Establish
    <2>4. CASE DelayElapses \/ UpdateTimerFires \/ FloorPasses
      BY <2>4, TimersInv
    <2>5. CASE Outcome
      BY <2>5, SucceedsInv, FailsInv, GivesUpInv, RefusedInv DEF Outcome
    <2>6. CASE \E graceful \in BOOLEAN : Close(graceful)
      BY <2>6, CloseInv
    <2>7. CASE UNCHANGED vars
      BY <2>7, StutterInv
    <2>8. QED  BY <2>1, <2>2, <2>3, <2>4, <2>5, <2>6, <2>7 DEF Next
  <1>3. QED  BY <1>1, <1>2, PTL DEF Spec

\* Type correctness, and never more than three failures in a row are counted
\* (#sendUpdate).
THEOREM TypeCorrect == Spec => []TypeOK
  <1>1. IInv => TypeOK
    BY DEF IInv
  <1>2. QED  BY <1>1, Invariant, PTL

\* For any number of attributes, changes, events and failures: the newest value
\* of every attribute, and every event, of an open subscription is reported, on
\* its way, or given up by a third failure (#sendUpdate).
THEOREM NothingForgotten == Spec => []NothingLost
  <1>1. IInv => NothingLost
    BY DEF IInv
  <1>2. QED  BY <1>1, Invariant, PTL

-----------------------------------------------------------------------------
(* The order of events: the queue is ascending, and nothing in it is newer  *)
(* than the last event.                                                     *)

Ascending(s) == \A i, j \in DOMAIN s : i < j => s[i] < s[j]

Sorted(s, last) == Ascending(s) /\ \A i \in DOMAIN s : s[i] <= last

OrderInv == Sorted(batchEvents \o outEvents, emitted)

LEMMA SuffixSorted ==
    ASSUME NEW s \in Seq(Nat), NEW t \in Seq(Nat), NEW last \in Nat, Sorted(s \o t, last)
    PROVE  Sorted(t, last)
  <1>1. /\ DOMAIN (s \o t) = 1 .. Len(s) + Len(t) /\ DOMAIN t = 1 .. Len(t)
        /\ Len(s) \in Nat /\ Len(t) \in Nat
        /\ \A i \in 1 .. Len(t) : (s \o t)[Len(s) + i] = t[i]
    OBVIOUS
  <1>2. \A i \in 1 .. Len(t) : Len(s) + i \in 1 .. Len(s) + Len(t)
    BY <1>1
  <1>3. ASSUME NEW i \in 1 .. Len(t), NEW j \in 1 .. Len(t), i < j PROVE t[i] < t[j]
    <2>1. Len(s) + i < Len(s) + j
      BY <1>1, <1>3
    <2>2. (s \o t)[Len(s) + i] < (s \o t)[Len(s) + j]
      BY <1>1, <1>2, <2>1 DEF Sorted, Ascending
    <2>3. QED  BY <1>1, <2>2
  <1>4. \A i \in 1 .. Len(t) : t[i] <= last
    BY <1>1, <1>2 DEF Sorted
  <1>5. QED  BY <1>1, <1>3, <1>4 DEF Sorted, Ascending

LEMMA AppendSorted ==
    ASSUME NEW s \in Seq(Nat), NEW t \in Seq(Nat), NEW last \in Nat, Sorted(s \o t, last)
    PROVE  Sorted(s \o Append(t, last + 1), last + 1)
  <1> DEFINE q == s \o t
             r == s \o Append(t, last + 1)
             n == Len(s) + Len(t)
  <1>1. /\ Append(t, last + 1) \in Seq(Nat) /\ Len(Append(t, last + 1)) = Len(t) + 1
        /\ \A i \in 1 .. Len(t) : Append(t, last + 1)[i] = t[i]
        /\ Append(t, last + 1)[Len(t) + 1] = last + 1
    OBVIOUS
  <1>2. n \in Nat /\ Len(s) \in Nat /\ Len(t) \in Nat /\ DOMAIN q = 1 .. n
    OBVIOUS
  <1>3. DOMAIN r = 1 .. n + 1
    BY <1>1
  <1>4. ASSUME NEW i \in 1 .. n PROVE r[i] = q[i] /\ q[i] \in Nat
    <2>1. CASE i <= Len(s)
      BY <1>1, <1>2, <2>1
    <2>2. CASE i > Len(s)
      <3>1. i - Len(s) \in 1 .. Len(t) /\ Len(s) + (i - Len(s)) = i
        BY <1>2, <2>2
      <3>2. q[i] = t[i - Len(s)] /\ q[i] \in Nat
        BY <1>2, <3>1
      <3>3. r[i] = Append(t, last + 1)[i - Len(s)]
        BY <1>1, <1>2, <3>1
      <3>4. QED  BY <1>1, <3>1, <3>2, <3>3
    <2>3. QED  BY <1>2, <2>1, <2>2
  <1>5. r[n + 1] = last + 1
    <2>1. n + 1 = Len(s) + (Len(t) + 1)
      BY <1>2
    <2>2. QED  BY <1>1, <1>2, <2>1
  <1>6. \A i \in 1 .. n + 1 : i \in 1 .. n \/ i = n + 1
    BY <1>2
  <1>7. \A i \in 1 .. n : q[i] <= last
    BY <1>2 DEF Sorted
  <1>8. \A i \in 1 .. n + 1 : r[i] <= last + 1
    BY <1>4, <1>5, <1>6, <1>7
  <1>9. ASSUME NEW i \in 1 .. n + 1, NEW j \in 1 .. n + 1, i < j PROVE r[i] < r[j]
    <2>1. i \in 1 .. n
      BY <1>2, <1>9
    <2>2. CASE j \in 1 .. n
      <3>1. q[i] < q[j]
        BY <1>2, <1>9, <2>1, <2>2 DEF Sorted, Ascending
      <3>2. QED  BY <1>4, <2>1, <2>2, <3>1
    <2>3. CASE j = n + 1
      BY <1>4, <1>5, <1>7, <2>1, <2>3
    <2>4. QED  BY <1>6, <2>2, <2>3
  <1>10. QED  BY <1>3, <1>8, <1>9 DEF Sorted, Ascending

LEMMA ConcatEmpty ==
    ASSUME NEW s \in Seq(Nat)
    PROVE  <<>> \o s = s /\ s \o <<>> = s
  OBVIOUS

\* Every action leaves the queue alone, or moves it, possibly without what is
\* being sent; only Emit adds to it.
LEMMA QueueMoves ==
    ASSUME IInv, [Next]_vars
    PROVE  \/ UNCHANGED <<batchEvents, outEvents, emitted>>
           \/ \E attrs : Holds(attrs, outEvents) /\ emitted' = emitted
           \/ \E attrs : Holds(attrs, RefilledEvents) /\ emitted' = emitted
           \/ \E urgent \in BOOLEAN : Emit(urgent)
  <1>1. ASSUME NEW a \in Attributes, Change(a) PROVE UNCHANGED <<batchEvents, outEvents, emitted>>
    BY <1>1 DEF Change, batch
  <1>2. CASE Establish
    <2>1. CASE Activate
      BY <2>1, TriggerHolds DEF Activate, data, batch, out
    <2>2. CASE ~Activate
      BY <1>2, <2>2 DEF Establish, ReadInitial, InitialReportArrives, InitialReportFails, Abandon,
                        data, batch, out
    <2>3. QED  BY <2>1, <2>2
  <1>3. CASE DelayElapses
    BY <1>3, TriggerHolds DEF DelayElapses, data, batch, out
  <1>4. CASE UpdateTimerFires \/ FloorPasses
    BY <1>4 DEF UpdateTimerFires, FloorPasses, data, batch, out
  <1>5. CASE Outcome
    <2>1. CASE ReportSucceeds \/ ReportRefusedWhenClosed
      BY <2>1, EndHolds DEF ReportSucceeds, ReportRefusedWhenClosed, data
    <2>2. CASE ReportFails
      BY <2>2, EndHolds DEF ReportFails, data
    <2>3. CASE ReportFailsForGood \/ ReportFailsOtherwise \/ ReportFailsWhenClosed
      BY <2>3, EndHolds DEF ReportFailsForGood, ReportFailsOtherwise, ReportFailsWhenClosed, data
    <2>4. CASE ReportRefused
      BY <2>4 DEF ReportRefused, data, batch, out
    <2>5. QED  BY <1>5, <2>1, <2>2, <2>3, <2>4 DEF Outcome
  <1>6. ASSUME NEW graceful \in BOOLEAN, Close(graceful)
        PROVE  \/ UNCHANGED <<batchEvents, outEvents, emitted>>
               \/ \E attrs : Holds(attrs, outEvents) /\ emitted' = emitted
    BY <1>6, TriggerHolds DEF Close, data, batch, out
  <1>7. CASE UNCHANGED vars
    BY <1>7 DEF vars, data, batch, out
  <1>8. QED  BY <1>1, <1>2, <1>3, <1>4, <1>5, <1>6, <1>7 DEF Next

\* For any number of events and failures: what failed to be sent is queued again
\* in front of what came meanwhile, so events keep their order (#sendUpdate).
THEOREM OrderKept == Spec => []EventsInOrder
  <1>1. Init => OrderInv
    <2> SUFFICES ASSUME Init PROVE OrderInv
      OBVIOUS
    <2>1. batchEvents \o outEvents = <<>>
      BY ConcatEmpty DEF Init
    <2>2. QED  BY <2>1 DEF OrderInv, Sorted, Ascending
  <1>2. IInv /\ OrderInv /\ [Next]_vars => OrderInv'
    <2> SUFFICES ASSUME IInv, OrderInv, [Next]_vars PROVE OrderInv'
      OBVIOUS
    <2>1. batchEvents \in Seq(Nat) /\ outEvents \in Seq(Nat) /\ emitted \in Nat
      BY DEF IInv, TypeOK
    <2>2. CASE UNCHANGED <<batchEvents, outEvents, emitted>>
      BY <2>2 DEF OrderInv
    <2>3. ASSUME NEW attrs, NEW events \in Seq(Nat), Holds(attrs, events), emitted' = emitted,
                 Sorted(events, emitted)
          PROVE  OrderInv'
      <3>1. batchEvents' \o outEvents' = events
        BY <2>3, ConcatEmpty DEF Holds
      <3>2. QED  BY <2>3, <3>1 DEF OrderInv
    <2>4. Sorted(outEvents, emitted)
      BY <2>1, SuffixSorted DEF OrderInv
    <2>5. RefilledEvents \in Seq(Nat) /\ Sorted(RefilledEvents, emitted)
      BY <2>1 DEF OrderInv, RefilledEvents
    <2>6. ASSUME NEW urgent \in BOOLEAN, Emit(urgent) PROVE OrderInv'
      <3>1. /\ batchEvents' = batchEvents /\ emitted' = emitted + 1
            /\ outEvents' = Append(outEvents, emitted + 1)
        BY <2>6 DEF Emit, batch
      <3>2. QED  BY <2>1, <3>1, AppendSorted DEF OrderInv
    <2>7. QED  BY <2>1, <2>2, <2>3, <2>4, <2>5, <2>6, QueueMoves
  <1>3. OrderInv => EventsInOrder
    BY DEF OrderInv, Sorted, Ascending, EventsInOrder
  <1>4. QED  BY <1>1, <1>2, <1>3, Invariant, PTL DEF Spec
=============================================================================
