---------------------- MODULE BrokerAggregation_proofs ----------------------
(***************************************************************************)
(* Proofs about the aggregation of the broker, for every set of sensors,   *)
(* values and intervals and however long it runs.                          *)
(***************************************************************************)
EXTENDS BrokerAggregation, TLAPS

\* The types of what the counters are computed from; the published average, a
\* sum over a set, is left to the runs.
CountersTyped ==
    /\ now \in Nat /\ due \in [Intervals -> Nat] /\ lastIntervalFired \in [Intervals -> Nat]
    /\ sum \in [Intervals -> [EndpointIds -> Int]]
    /\ snapshot \in [Intervals -> [running : BOOLEAN, of : SUBSET EndpointIds,
                                   sums : [EndpointIds -> Int]]]
    /\ known \subseteq EndpointIds
    /\ reported \in [Intervals -> [EndpointIds -> Int]]
    /\ during \in [Intervals -> [EndpointIds -> Int]]
    /\ lost \in [Intervals -> [EndpointIds -> Int]]
    /\ published \in [Intervals -> [EndpointIds -> Int]]
    /\ missed \in [Intervals -> Nat]

\* Timers are punctual and recalculations end before the next one.
TimersMet ==
    \A i \in Intervals :
        /\ now <= due[i] /\ due[i] <= now + i
        /\ snapshot[i].running => now < due[i]

\* Outside a recalculation nothing counts as reported during one.
NothingDuring ==
    \A i \in Intervals, e \in EndpointIds : ~snapshot[i].running => during[i][e] = 0

Inv == CountersTyped /\ WindowBounded /\ TimersMet /\ NothingDuring /\ AreaAccountedFor

\* Reporting adds an area to the entries it should and to no others.
LEMMA AddAreaAdds ==
    ASSUME NEW f \in [Intervals -> [EndpointIds -> Int]], NEW e \in EndpointIds, NEW v \in Int,
           NEW where \in SUBSET Intervals, CountersTyped
    PROVE  /\ AddArea(f, e, v, where) \in [Intervals -> [EndpointIds -> Int]]
           /\ \A i \in Intervals, d \in EndpointIds :
                 AddArea(f, e, v, where)[i][d] =
                     IF i \in where /\ d = e THEN f[i][d] + Area(i, v) ELSE f[i][d]
  <1>1. \A i \in Intervals : Area(i, v) \in Int
    <2>1. TAKE i \in Intervals
    <2>2. now - lastIntervalFired[i] \in Int
      BY DEF CountersTyped
    <2>3. \A n \in Int : v * n \in Int
      OBVIOUS
    <2>4. QED  BY <2>2, <2>3 DEF Area
  <1>2. \A i \in Intervals : [f[i] EXCEPT ![e] = @ + Area(i, v)] \in [EndpointIds -> Int]
    BY <1>1
  <1>3. QED  BY <1>1, <1>2 DEF AddArea

\* One more interval.
LEMMA OneMore == \A m, i \in Nat : /\ (m + 2) * i = (m + 1) * i + i /\ (m + 1) * i \in Nat
                                   /\ (0 + 1) * i = i
  OBVIOUS

LEMMA InitInv == Init => Inv
  <1> SUFFICES ASSUME Init PROVE Inv
    OBVIOUS
  <1>1. CountersTyped
    BY AggregationAssumption DEF Init, CountersTyped, Zero, NoSnapshot
  <1>2. WindowBounded
    <2>1. \A i \in Intervals : i \in Nat /\ (0 + 1) * i = i
      BY AggregationAssumption
    <2>2. QED  BY <2>1 DEF Init, WindowBounded, NoSnapshot
  <1>3. TimersMet /\ NothingDuring
    BY AggregationAssumption DEF Init, TimersMet, NothingDuring, NoSnapshot, Zero
  <1>4. AreaAccountedFor
    BY DEF Init, AreaAccountedFor, NoSnapshot, Zero
  <1>5. QED  BY <1>1, <1>2, <1>3, <1>4 DEF Inv

\* A report adds the same to both sides.
LEMMA ReportInv ==
    ASSUME Inv, NEW s \in Sensors, NEW v \in Values, Report(s, v)
    PROVE  Inv'
  <1> USE DEF Inv
  <1> DEFINE e == s.endpoint
             busy == {i \in Intervals : snapshot[i].running}
  <1>1. e \in EndpointIds /\ v \in Int /\ busy \subseteq Intervals
    BY AggregationAssumption DEF EndpointIds
  <1>2. /\ sum' = AddArea(sum, e, v, Intervals)
        /\ reported' = AddArea(reported, e, v, Intervals)
        /\ during' = AddArea(during, e, v, busy)
    BY DEF Report
  <1>3. \A i \in Intervals : i \in busy <=> snapshot[i].running
    OBVIOUS
  <1> HIDE DEF e, busy
  <1>4. /\ sum \in [Intervals -> [EndpointIds -> Int]]
        /\ reported \in [Intervals -> [EndpointIds -> Int]]
        /\ during \in [Intervals -> [EndpointIds -> Int]]
        /\ busy \in SUBSET Intervals /\ Intervals \in SUBSET Intervals
    BY <1>1 DEF CountersTyped
  <1>5. /\ sum' \in [Intervals -> [EndpointIds -> Int]]
        /\ reported' \in [Intervals -> [EndpointIds -> Int]]
        /\ during' \in [Intervals -> [EndpointIds -> Int]]
    BY <1>1, <1>2, <1>4, AddAreaAdds
  <1>6. CountersTyped'
    BY <1>1, <1>5 DEF Report, CountersTyped, e
  <1>7. WindowBounded' /\ TimersMet'
    BY DEF Report, WindowBounded, TimersMet
  <1>8. ASSUME NEW i \in Intervals, NEW d \in EndpointIds
        PROVE  /\ sum'[i][d] = IF d = e THEN sum[i][d] + Area(i, v) ELSE sum[i][d]
               /\ reported'[i][d] = IF d = e THEN reported[i][d] + Area(i, v) ELSE reported[i][d]
               /\ during'[i][d] = IF i \in busy /\ d = e THEN during[i][d] + Area(i, v)
                                  ELSE during[i][d]
    <2>1. \A f \in [Intervals -> [EndpointIds -> Int]] : \A where \in SUBSET Intervals :
              AddArea(f, e, v, where)[i][d] =
                  IF i \in where /\ d = e THEN f[i][d] + Area(i, v) ELSE f[i][d]
      BY <1>1, AddAreaAdds
    <2>2. QED  BY <1>2, <1>4, <2>1
  <1>9. NothingDuring'
    BY <1>3, <1>8 DEF Report, NothingDuring
  <1>10. ASSUME NEW i \in Intervals, NEW d \in EndpointIds
         PROVE  /\ reported'[i][d] = published'[i][d] + sum'[i][d] + lost'[i][d]
                /\ snapshot'[i].running => sum'[i][d] = snapshot'[i].sums[d] + during'[i][d]
    <2>1. Area(i, v) \in Int
      <3>1. now - lastIntervalFired[i] \in Int
        BY DEF CountersTyped
      <3>2. \A n \in Int : v * n \in Int
        BY <1>1
      <3>3. QED  BY <3>1, <3>2 DEF Area
    <2>2. /\ published[i][d] \in Int /\ sum[i][d] \in Int /\ reported[i][d] \in Int
          /\ during[i][d] \in Int /\ lost[i][d] \in Int /\ snapshot[i].sums[d] \in Int
      BY DEF CountersTyped
    <2>3. published' = published /\ snapshot' = snapshot /\ lost' = lost
      BY DEF Report
    <2>4. /\ reported[i][d] = published[i][d] + sum[i][d] + lost[i][d]
          /\ snapshot[i].running => sum[i][d] = snapshot[i].sums[d] + during[i][d]
      BY DEF AreaAccountedFor
    <2>5. QED  BY <1>3, <1>8, <2>1, <2>2, <2>3, <2>4
  <1>11. QED  BY <1>6, <1>7, <1>9, <1>10 DEF AreaAccountedFor

\* A recalculation that starts takes what the sums hold.
LEMMA StartsInv ==
    ASSUME Inv, NEW i \in Intervals, RecalculateStarts(i)
    PROVE  Inv'
  <1> USE DEF Inv
  <1>1. i \in Nat \ {0}
    BY AggregationAssumption
  <1>2. ~snapshot[i].running
    BY DEF RecalculateStarts, TimersMet, CountersTyped
  <1>3. CountersTyped'
    BY <1>1 DEF RecalculateStarts, CountersTyped
  <1>4. WindowBounded'
    <2>1. due[i]' = due[i] + i /\ snapshot'[i].running /\ missed' = missed
          /\ lastIntervalFired' = lastIntervalFired /\ now' = now
      BY DEF RecalculateStarts, CountersTyped
    <2>2. \A j \in Intervals \ {i} : due'[j] = due[j] /\ snapshot'[j] = snapshot[j]
      BY DEF RecalculateStarts, CountersTyped
    <2>3. /\ due[i] - lastIntervalFired[i] <= (missed[i] + 1) * i /\ now = due[i]
          /\ lastIntervalFired[i] <= now
      BY <1>2 DEF RecalculateStarts, WindowBounded
    <2>4. (missed[i] + 2) * i = (missed[i] + 1) * i + i /\ (missed[i] + 1) * i \in Nat
      BY <1>1, OneMore DEF CountersTyped
    <2>5. due[i] \in Nat /\ lastIntervalFired[i] \in Nat /\ now \in Nat
      BY DEF CountersTyped
    <2>6. due'[i] - lastIntervalFired'[i] <= (missed'[i] + 2) * i
      BY <1>1, <2>1, <2>3, <2>4, <2>5
    <2>7. lastIntervalFired'[i] <= now' /\ now' <= due'[i] /\ due'[i] <= now' + i
      BY <1>1, <2>1, <2>3, <2>5
    <2>8. QED  BY <2>1, <2>2, <2>6, <2>7 DEF WindowBounded
  <1>5. TimersMet' /\ NothingDuring'
    BY <1>1, <1>2 DEF RecalculateStarts, TimersMet, NothingDuring, CountersTyped
  <1>6. AreaAccountedFor'
    <2>1. \A d \in EndpointIds : during[i][d] = 0 /\ sum[i][d] \in Int
      BY <1>2 DEF NothingDuring, CountersTyped
    <2>2. QED  BY <2>1 DEF RecalculateStarts, AreaAccountedFor, CountersTyped
  <1>7. QED  BY <1>3, <1>4, <1>5, <1>6

\* What is left of a recalculation that is over, either way.
LEMMA OverInv ==
    ASSUME Inv, NEW i \in Intervals, RecalculateEnds(i) \/ RecalculateFails(i)
    PROVE  TimersMet' /\ NothingDuring'
  <1> USE DEF Inv
  <1>1. /\ snapshot' = [snapshot EXCEPT ![i] = NoSnapshot]
        /\ during' = [during EXCEPT ![i] = [e \in EndpointIds |-> 0]]
        /\ now' = now /\ due' = due
    BY DEF RecalculateEnds, RecalculateFails
  <1>2. \A j \in Intervals \ {i} : snapshot'[j] = snapshot[j] /\ during'[j] = during[j]
    BY <1>1 DEF CountersTyped
  <1>3. ~snapshot'[i].running /\ \A e \in EndpointIds : during'[i][e] = 0
    BY <1>1 DEF CountersTyped, NoSnapshot
  <1>4. TimersMet'
    BY <1>1, <1>2, <1>3 DEF TimersMet
  <1>5. NothingDuring'
    BY <1>2, <1>3 DEF NothingDuring
  <1>6. QED  BY <1>4, <1>5

\* A recalculation that ends publishes its snapshot and clears the rest.
LEMMA EndsInv ==
    ASSUME Inv, NEW i \in Intervals, RecalculateEnds(i)
    PROVE  Inv'
  <1> USE DEF Inv
  <1>1. CountersTyped'
    <2>1. /\ [e \in EndpointIds |-> published[i][e] + snapshot[i].sums[e]] \in [EndpointIds -> Int]
          /\ [e \in EndpointIds |-> lost[i][e] + during[i][e]] \in [EndpointIds -> Int]
      BY DEF CountersTyped
    <2>2. QED  BY <2>1 DEF RecalculateEnds, Restarted, Reset, CountersTyped, NoSnapshot
  <1>2. WindowBounded'
    <2>1. i \in Nat \ {0} /\ (0 + 1) * i = i
      BY AggregationAssumption
    <2>2. /\ lastIntervalFired'[i] = now /\ missed'[i] = 0 /\ ~snapshot'[i].running
          /\ due' = due /\ now' = now
      BY DEF RecalculateEnds, Restarted, CountersTyped, NoSnapshot
    <2>3. \A j \in Intervals \ {i} : /\ lastIntervalFired'[j] = lastIntervalFired[j]
                                     /\ missed'[j] = missed[j] /\ snapshot'[j] = snapshot[j]
      BY DEF RecalculateEnds, Restarted, CountersTyped
    <2>4. now \in Nat /\ due[i] \in Nat /\ now <= due[i] /\ due[i] <= now + i
      BY DEF CountersTyped, WindowBounded
    <2>5. due'[i] - lastIntervalFired'[i] <= (missed'[i] + 1) * i
      BY <2>1, <2>2, <2>4
    <2>6. QED  BY <2>2, <2>3, <2>4, <2>5 DEF WindowBounded
  <1>3. ASSUME NEW j \in Intervals, NEW d \in EndpointIds
        PROVE  /\ reported'[j][d] = published'[j][d] + sum'[j][d] + lost'[j][d]
               /\ snapshot'[j].running => sum'[j][d] = snapshot'[j].sums[d] + during'[j][d]
    <2>1. /\ reported[j][d] = published[j][d] + sum[j][d] + lost[j][d]
          /\ snapshot[j].running => sum[j][d] = snapshot[j].sums[d] + during[j][d]
      BY DEF AreaAccountedFor
    <2>2. /\ reported' = reported /\ published[j][d] \in Int /\ lost[j][d] \in Int
          /\ during[j][d] \in Int /\ snapshot[j].sums[d] \in Int
      BY DEF RecalculateEnds, CountersTyped
    <2>3. CASE j = i
      <3>1. /\ published'[j][d] = published[j][d] + snapshot[j].sums[d]
            /\ lost'[j][d] = lost[j][d] + during[j][d]
            /\ sum'[j][d] = 0 /\ ~snapshot'[j].running /\ snapshot[j].running
        BY <2>3 DEF RecalculateEnds, Reset, NoSnapshot, CountersTyped
      <3>2. QED  BY <2>1, <2>2, <3>1
    <2>4. CASE j # i
      <3>1. /\ published'[j] = published[j] /\ lost'[j] = lost[j] /\ sum'[j] = sum[j]
            /\ snapshot'[j] = snapshot[j] /\ during'[j] = during[j]
        BY <2>4 DEF RecalculateEnds, Reset, CountersTyped
      <3>2. QED  BY <2>1, <2>2, <3>1
    <2>5. QED  BY <2>3, <2>4
  <1>4. QED  BY <1>1, <1>2, <1>3, OverInv DEF AreaAccountedFor

\* One that fails leaves the sums alone and lengthens the window.
LEMMA FailsInv ==
    ASSUME Inv, NEW i \in Intervals, RecalculateFails(i)
    PROVE  Inv'
  <1> USE DEF Inv
  <1>1. CountersTyped'
    BY DEF RecalculateFails, CountersTyped, NoSnapshot
  <1>2. WindowBounded'
    <2>1. missed'[i] = missed[i] + 1 /\ ~snapshot'[i].running /\ snapshot[i].running
          /\ due' = due /\ now' = now /\ lastIntervalFired' = lastIntervalFired
      BY DEF RecalculateFails, CountersTyped, NoSnapshot
    <2>2. \A j \in Intervals \ {i} : missed'[j] = missed[j] /\ snapshot'[j] = snapshot[j]
      BY DEF RecalculateFails, CountersTyped
    <2>3. missed'[i] + 1 = missed[i] + 2
      BY <2>1 DEF CountersTyped
    <2>4. due'[i] - lastIntervalFired'[i] <= (missed'[i] + 1) * i
      BY <2>1, <2>3 DEF WindowBounded
    <2>5. QED  BY <2>1, <2>2, <2>4 DEF WindowBounded
  <1>3. AreaAccountedFor'
    BY DEF RecalculateFails, AreaAccountedFor, CountersTyped, NoSnapshot
  <1>4. QED  BY <1>1, <1>2, <1>3, OverInv

LEMMA TickInv ==
    ASSUME Inv, Tick
    PROVE  Inv'
  <1> USE DEF Inv
  <1>1. CountersTyped'
    BY DEF Tick, CountersTyped
  <1>2. WindowBounded' /\ TimersMet'
    <2>1. \A i \in Intervals : i \in Nat
      BY AggregationAssumption
    <2>2. QED  BY <2>1 DEF Tick, WindowBounded, TimersMet, CountersTyped
  <1>3. AreaAccountedFor' /\ NothingDuring'
    BY DEF Tick, AreaAccountedFor, NothingDuring
  <1>4. QED  BY <1>1, <1>2, <1>3

LEMMA StepInv == Inv /\ [Next]_vars => Inv'
  <1> SUFFICES ASSUME Inv, [Next]_vars PROVE Inv'
    OBVIOUS
  <1>1. CASE UNCHANGED vars
    BY <1>1 DEF vars, Inv, CountersTyped, WindowBounded, TimersMet, NothingDuring, AreaAccountedFor
  <1>2. CASE Next
    BY <1>2, ReportInv, StartsInv, EndsInv, FailsInv, TickInv DEF Next
  <1>3. QED  BY <1>1, <1>2

LEMMA InvHolds == Spec => []Inv
  BY InitInv, StepInv, PTL DEF Spec

\* Whatever is reported, of either sign, is published, held or cleared by the reset of
\* a publication during which it came, and by nothing else.
THEOREM AggregationLosesNothingElse == Spec => []AreaAccountedFor
  <1>1. Inv => AreaAccountedFor
    BY DEF Inv
  <1>2. QED  BY <1>1, InvHolds, PTL

\* The windows of an interval follow each other, however many publications fail.
THEOREM WindowsFollow == Spec => []WindowBounded
  <1>1. Inv => WindowBounded
    BY DEF Inv
  <1>2. QED  BY <1>1, InvHolds, PTL
=============================================================================
