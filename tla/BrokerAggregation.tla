------------------------- MODULE BrokerAggregation -------------------------
(***************************************************************************)
(* The aggregation of the Virtual Matter Broker                            *)
(* (cs525/src/VirtualMatterBrokerNode.ts): a listener adds every reported  *)
(* value to running sums, one per interval and endpoint id, and a timer    *)
(* per interval publishes their average and resets them.                   *)
(*                                                                         *)
(* recalculateAggregatesFor is cut at its one await: RecalculateStarts     *)
(* takes the sums, RecalculateEnds resets them, and reports may come in    *)
(* between.  Time is counted in seconds.  Values are signed: temperatures  *)
(* in the unit of the cluster.                                             *)
(***************************************************************************)
EXTENDS Integers, FiniteSets, FiniteSetsExt

CONSTANTS
    Sensors,        \* the measured endpoints: records [node, endpoint]
    Values,         \* what they measure
    Intervals,      \* AggregateIntervals
    MaxTime         \* bound: seconds the broker runs

ASSUME AggregationAssumption ==
    /\ \A s \in Sensors : DOMAIN s = {"node", "endpoint"}
    /\ Values \subseteq Int
    /\ Intervals \subseteq Nat \ {0}
    /\ MaxTime \in Nat

EndpointIds == {s.endpoint : s \in Sensors}

VARIABLES
    now,
    due,                \* when the timer of each interval fires next
    lastIntervalFired,
    known,              \* endpoint ids with an entry in #aggregatorData
    sum,                \* #aggregatorData[...][endpointId][interval].sum
    snapshot,           \* sums a recalculation of the interval is publishing
    average,            \* averageMeasuredValue<interval>, as total and divisor
    measured,           \* what each sensor measures at the moment
    fresh,              \* sensors that have not reported this second
    reported,           \* area reported so far (history)
    during,             \* area reported in the recalculation under way (history)
    lost,               \* area that the resets so far cleared unpublished (history)
    published,          \* area published so far (history)
    missed              \* recalculations that failed in a row (history)

vars == <<now, due, lastIntervalFired, known, sum, snapshot, average,
          measured, fresh, reported, during, lost, published, missed>>

Zero == [i \in Intervals |-> [e \in EndpointIds |-> 0]]
NoSnapshot == [running |-> FALSE, of |-> {}, sums |-> [e \in EndpointIds |-> 0]]
NoAverage == [total |-> 0, count |-> 0]

\* value * ((timestamp - lastIntervalFired) / 1000)
Area(i, v) == v * (now - lastIntervalFired[i])

\* f with area added to the entry of e, in every interval of where.
AddArea(f, e, v, where) ==
    [i \in Intervals |->
        IF i \in where THEN [f[i] EXCEPT ![e] = @ + Area(i, v)] ELSE f[i]]

\* attributeChanged: the value of a sensor changed.
Report(s, v) ==
    /\ s \in fresh /\ v # measured[s]
    /\ measured' = [measured EXCEPT ![s] = v]
    /\ fresh' = fresh \ {s}
    /\ known' = known \cup {s.endpoint}
    /\ sum' = AddArea(sum, s.endpoint, v, Intervals)
    /\ reported' = AddArea(reported, s.endpoint, v, Intervals)
    /\ during' = AddArea(during, s.endpoint, v, {i \in Intervals : snapshot[i].running})
    /\ UNCHANGED <<now, due, lastIntervalFired, snapshot, average, lost, published, missed>>

\* The timer fires: take the sums and have the aggregator publish them.
RecalculateStarts(i) ==
    /\ now = due[i]
    /\ due' = [due EXCEPT ![i] = @ + i]
    /\ snapshot' = [snapshot EXCEPT ![i] = [running |-> TRUE, of |-> known, sums |-> sum[i]]]
    /\ UNCHANGED <<now, lastIntervalFired, known, sum, average, measured,
                   fresh, reported, during, lost, published, missed>>

\* The divisor is the number of entries, 1 if there is none.
Average(shot) ==
    [total |-> MapThenSumSet(LAMBDA e : shot.sums[e], shot.of),
     count |-> IF shot.of = {} THEN 1 ELSE Cardinality(shot.of)]

\* Faulty: the window is not restarted.
NotRestarted(i) == lastIntervalFired

Restarted(i) == [lastIntervalFired EXCEPT ![i] = now]

\* Faulty: the sums of every interval are reset.
AllReset(i) == Zero

Reset(i) == [sum EXCEPT ![i] = [e \in EndpointIds |-> 0]]

\* aggregator.set is done: restart the interval and reset its sums.  What was
\* reported meanwhile goes with them.
RecalculateEnds(i) ==
    /\ snapshot[i].running
    /\ average' = [average EXCEPT ![i] = Average(snapshot[i])]
    /\ published' = [published EXCEPT ![i] =
                        [e \in EndpointIds |-> @[e] + snapshot[i].sums[e]]]
    /\ lost' = [lost EXCEPT ![i] = [e \in EndpointIds |-> @[e] + during[i][e]]]
    /\ snapshot' = [snapshot EXCEPT ![i] = NoSnapshot]
    /\ during' = [during EXCEPT ![i] = [e \in EndpointIds |-> 0]]
    /\ lastIntervalFired' = Restarted(i) /\ sum' = Reset(i)
    /\ missed' = [missed EXCEPT ![i] = 0]
    /\ UNCHANGED <<now, due, known, measured, fresh, reported>>

\* aggregator.set is refused: the rest is not executed.  The timer does not catch
\* it: Node ends the process, unless it runs with --unhandled-rejections=warn.
RecalculateFails(i) ==
    /\ snapshot[i].running
    /\ snapshot' = [snapshot EXCEPT ![i] = NoSnapshot]
    /\ during' = [during EXCEPT ![i] = [e \in EndpointIds |-> 0]]
    /\ missed' = [missed EXCEPT ![i] = @ + 1]
    /\ UNCHANGED <<now, due, lastIntervalFired, known, sum, average, measured,
                   fresh, reported, lost, published>>

\* A second passes.  Timers are punctual, and aggregator.set takes less than an
\* interval.
Tick ==
    /\ now < MaxTime
    /\ \A i \in Intervals : now < due[i] /\ (snapshot[i].running => now + 1 < due[i])
    /\ now' = now + 1
    /\ fresh' = Sensors
    /\ UNCHANGED <<due, lastIntervalFired, known, sum, snapshot, average,
                   measured, reported, during, lost, published, missed>>

Init ==
    /\ now = 0
    /\ due = [i \in Intervals |-> i]
    /\ lastIntervalFired = [i \in Intervals |-> 0]
    /\ known = {} /\ sum = Zero
    /\ snapshot = [i \in Intervals |-> NoSnapshot]
    /\ average = [i \in Intervals |-> NoAverage]
    /\ measured \in [Sensors -> Values]
    /\ fresh = Sensors
    /\ reported = Zero /\ during = Zero /\ lost = Zero /\ published = Zero
    /\ missed = [i \in Intervals |-> 0]

Next ==
    \/ \E s \in Sensors, v \in Values : Report(s, v)
    \/ \E i \in Intervals : RecalculateStarts(i) \/ RecalculateEnds(i) \/ RecalculateFails(i)
    \/ Tick

Spec == Init /\ [][Next]_vars

-----------------------------------------------------------------------------
(* Properties. *)

\* The books balance, with reports of either sign: every reported area was
\* published once, is in the sum still, or was cleared by a reset.  A reset clears
\* exactly what was reported while its recalculation ran, and one that failed
\* clears nothing (recalculateAggregatesFor, whose reset comes after its await).
AreaAccountedFor ==
    \A i \in Intervals, e \in EndpointIds :
        /\ reported[i][e] = published[i][e] + sum[i][e] + lost[i][e]
        /\ snapshot[i].running => sum[i][e] = snapshot[i].sums[e] + during[i][e]

\* The windows of an interval follow each other: what is reported now weighs at
\* most one interval, and one more while a publication is late and for each that
\* failed since the last one that did not (the timers of start()).
WindowBounded ==
    \A i \in Intervals :
        /\ lastIntervalFired[i] <= now /\ now <= due[i] /\ due[i] <= now + i
        /\ due[i] - lastIntervalFired[i] <=
               (IF snapshot[i].running THEN missed[i] + 2 ELSE missed[i] + 1) * i
=============================================================================
