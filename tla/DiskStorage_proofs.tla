------------------------ MODULE DiskStorage_proofs ------------------------
(***************************************************************************)
(* Proofs about the file storage, for any keys, calls, faults and limit on *)
(* the rounds: its types, that the files are a key-value store, and that a *)
(* removal is final.                                                       *)
(***************************************************************************)
EXTENDS DiskStorage, SequenceTheorems, TLAPS

(* What the calls and the rows of writers know of each other. *)
InRow ==
    \A k \in Key : \A n \in DOMAIN writers[k] :
        LET c == writers[k][n]
        IN  c <= called /\ calls[c].kind = "set" /\ calls[c].state = "writing" /\ k \in calls[c].left

InOrder == \A k \in Key : \A n, m \in DOMAIN writers[k] : n < m => writers[k][n] < writers[k][m]

Uncalled == \A c \in Call : c > called => calls[c] = NewCall

WaitsOrFailed ==
    \A c \in Call : calls[c].state = "waiting" =>
        calls[c].rounds # MaxRounds /\ (calls[c].left # {} \/ calls[c].failed)

SetsDoNotWait ==
    \A c \in Call :
        /\ calls[c].kind = "set" => calls[c].state \notin {"waiting", "listing", "removing"}
        /\ calls[c].kind # "set" => calls[c].state # "writing"

RowInv == TypeOK /\ InRow /\ InOrder /\ Uncalled /\ WaitsOrFailed /\ SetsDoNotWait

(* The writes of file k that were called before removal c; while it waits  *)
(* they are counted down by the rounds, and none is left when it removes.  *)
NoneOlder(c, k) == \A n \in DOMAIN writers[k] : writers[k][n] > c

CountedDown(c, k) ==
    \A n \in DOMAIN writers[k] :
        writers[k][n] < c =>
            n + calls[c].rounds + (IF k \in calls[c].left THEN 0 ELSE 1) <= calls[c].ahead[k]

Gone(c, k) == files[k] = None \/ files[k] > c

FinalFor(c, k) ==
    /\ calls[c].state = "waiting" /\ ~calls[c].failed => CountedDown(c, k)
    /\ calls[c].state \in {"listing", "removing", "ok"} => NoneOlder(c, k)
    /\ calls[c].state = "removing" /\ k \notin calls[c].left => Gone(c, k)
    /\ calls[c].state = "ok" => Gone(c, k)

FinalInv ==
    \A c \in Call : calls[c].kind # "set" =>
        \A k \in calls[c].keys : calls[c].ahead[k] <= MaxRounds => FinalFor(c, k)

IInv == RowInv /\ FinalInv

-----------------------------------------------------------------------------
(* Types. *)

LEMMA NewCallType == NewCall \in CallState
  BY DiskStorageAssumption DEF NewCall, CallState

LEMMA RoundType ==
    ASSUME NEW call \in CallState, NEW busy \in SUBSET Key
    PROVE  Round(call, busy) \in CallState
  BY DEF Round, Scope, CallState

LEMMA WaitedType ==
    ASSUME NEW call \in CallState, call.rounds # MaxRounds,
           NEW k \in Key, NEW bad \in BOOLEAN, NEW busy \in SUBSET Key
    PROVE  Waited(call, k, bad, busy) \in CallState
  <1> DEFINE heard == [call EXCEPT !.left = @ \ {k}, !.failed = @ \/ bad]
             next == [heard EXCEPT !.rounds = @ + 1]
  <1>1. heard \in CallState
    BY DEF CallState
  <1>2. next \in CallState
    <2>1. heard.rounds + 1 \in 0 .. MaxRounds
      BY DiskStorageAssumption DEF CallState
    <2> HIDE DEF heard
    <2>2. QED  BY <1>1, <2>1 DEF CallState
  <1>3. Round(next, busy) \in CallState
    <2> HIDE DEF next
    <2> QED  BY <1>2, RoundType
  <1>4. QED  BY <1>1, <1>3 DEF Waited

LEMMA NotifiedType ==
    ASSUME TypeOK, WaitsOrFailed,
           NEW k \in Key, NEW done \in SUBSET Call, NEW bad \in BOOLEAN, NEW busy \in SUBSET Key
    PROVE  Notified(k, done, bad, busy) \in [Call -> CallState]
  <1> SUFFICES ASSUME NEW c \in Call PROVE Notified(k, done, bad, busy)[c] \in CallState
    BY DEF Notified
  <1>1. calls[c] \in CallState
    BY DEF TypeOK
  <1>2. CASE c \in done
    BY <1>1, <1>2 DEF Notified, CallState
  <1>3. CASE c \notin done /\ calls[c].state = "waiting" /\ k \in calls[c].left
    BY <1>1, <1>3, WaitedType DEF Notified, WaitsOrFailed
  <1>4. QED  BY <1>1, <1>2, <1>3 DEF Notified

LEMMA InitType == Init => TypeOK
  BY NewCallType, DiskStorageAssumption DEF Init, TypeOK

LEMMA SetType == ASSUME TypeOK, NEW K \in SUBSET Key, Set(K) PROVE TypeOK'
  <1>1. called + 1 \in Call
    BY DiskStorageAssumption DEF Set, TypeOK, Call
  <1>2. calls' \in [Call -> CallState]
    <2>1. [NewCall EXCEPT !.keys = K, !.state = "writing", !.left = K] \in CallState
      BY NewCallType DEF CallState
    <2>2. QED  BY <2>1 DEF Set, TypeOK
  <1>3. \A k \in Key : Queued(k, called + 1) \in Seq(Call) /\ Queued(k, called + 1) # <<>>
    BY <1>1, AppendProperties DEF Queued, TypeOK
  <1>4. QED  BY <1>1, <1>2, <1>3, DiskStorageAssumption DEF Set, TypeOK

LEMMA WriteEndsType == ASSUME TypeOK, WaitsOrFailed, NEW k \in Key, WriteEnds(k) PROVE TypeOK'
  <1>1. writers[k] \in Seq(Call) /\ writers[k] # <<>>
    BY DEF WriteEnds, TypeOK
  <1>2. Head(writers[k]) \in Call /\ Tail(writers[k]) \in Seq(Call)
    BY <1>1, HeadTailProperties
  <1>3. calls' \in [Call -> CallState]
    BY <1>2, NotifiedType DEF WriteEnds
  <1>4. QED  BY <1>2, <1>3 DEF WriteEnds, TypeOK

LEMMA WriteFailsType == ASSUME TypeOK, WaitsOrFailed, NEW k \in Key, WriteFails(k) PROVE TypeOK'
  <1>1. Writers(k) \in SUBSET Call
    <2>1. writers[k] \in Seq(Call)
      BY DEF TypeOK
    <2>2. QED  BY <2>1, ElementOfSeq DEF Writers
  <1>2. calls' \in [Call -> CallState]
    BY <1>1, NotifiedType DEF WriteFails, Busy
  <1>3. <<>> \in Seq(Call)
    OBVIOUS
  <1>4. QED  BY <1>2, <1>3 DEF WriteFails, TypeOK

LEMMA RemovesType ==
    ASSUME TypeOK, NEW kind \in {"delete", "clear"}, NEW K \in SUBSET Key, Removes(kind, K)
    PROVE  TypeOK'
  <1> DEFINE call == [NewCall EXCEPT !.kind = kind, !.keys = K,
                                     !.ahead = [k \in Key |-> Len(writers[k])]]
  <1>1. called + 1 \in Call
    BY DiskStorageAssumption DEF Removes, TypeOK, Call
  <1>2. call \in CallState
    <2>1. \A k \in Key : Len(writers[k]) \in Nat
      BY LenProperties DEF TypeOK
    <2>2. QED  BY <2>1, NewCallType DEF CallState
  <1>3. Round(call, Busy) \in CallState
    <2> HIDE DEF call
    <2> QED  BY <1>2, RoundType DEF Busy
  <1>4. calls' \in [Call -> CallState]
    BY <1>1, <1>3 DEF Removes, TypeOK
  <1>5. QED  BY <1>1, <1>4, DiskStorageAssumption DEF Removes, TypeOK

LEMMA ProceedType == ASSUME TypeOK, NEW c \in Call, Proceed(c) PROVE TypeOK'
  <1>0. calls[c] \in CallState
    BY DEF TypeOK
  <1>1. CASE List(c)
    <2> DEFINE new == [calls[c] EXCEPT !.state = "removing",
                           !.left = {k \in calls[c].keys : files[k] # None},
                           !.temps = temps \cap calls[c].keys]
    <2>1. new \in CallState
      BY <1>0 DEF CallState
    <2>2. calls' = [calls EXCEPT ![c] = new]
      BY <1>0, <1>1 DEF List, TypeOK
    <2> HIDE DEF new
    <2>3. QED  BY <1>1, <2>1, <2>2 DEF List, TypeOK
  <1>2. CASE Return(c)
    <2> DEFINE new == [calls[c] EXCEPT !.state = IF calls[c].failed THEN "failed" ELSE "ok"]
    <2>1. new \in CallState
      BY <1>0 DEF CallState
    <2>2. calls' = [calls EXCEPT ![c] = new]
      BY <1>0, <1>2 DEF Return, TypeOK
    <2> HIDE DEF new
    <2>3. QED  BY <1>2, <2>1, <2>2 DEF Return, TypeOK
  <1>3. CASE \E k \in Key : RemoveFile(c, k)
    <2> PICK k \in Key : RemoveFile(c, k)
      BY <1>3
    <2> DEFINE new == [calls[c] EXCEPT !.left = @ \ {k}]
    <2>1. new \in CallState
      BY <1>0 DEF CallState
    <2>2. calls' = [calls EXCEPT ![c] = new]
      BY <1>0 DEF RemoveFile, TypeOK
    <2> HIDE DEF new
    <2>3. QED  BY <2>1, <2>2 DEF RemoveFile, TypeOK
  <1>4. CASE \E k \in Key : RemoveTemp(c, k)
    <2> PICK k \in Key : RemoveTemp(c, k)
      BY <1>4
    <2> DEFINE new == [calls[c] EXCEPT !.temps = @ \ {k}]
    <2>1. new \in CallState
      BY <1>0 DEF CallState
    <2>2. calls' = [calls EXCEPT ![c] = new]
      BY <1>0 DEF RemoveTemp, TypeOK
    <2> HIDE DEF new
    <2>3. QED  BY <2>1, <2>2 DEF RemoveTemp, TypeOK
  <1>5. QED  BY <1>1, <1>2, <1>3, <1>4 DEF Proceed

LEMMA CrashType == ASSUME TypeOK, Crash PROVE TypeOK'
  <1>1. \A c \in Call : [calls[c] EXCEPT !.state = "lost"] \in CallState
    BY DEF TypeOK, CallState
  <1>2. <<>> \in Seq(Call)
    OBVIOUS
  <1>3. QED  BY <1>1, <1>2, DiskStorageAssumption DEF Crash, Fault, TypeOK

LEMMA NextType == ASSUME TypeOK, WaitsOrFailed, [Next]_vars PROVE TypeOK'
  <1>1. CASE \E K \in SUBSET Key \ {{}} : Set(K)
    BY <1>1, SetType
  <1>2. CASE \E K \in SUBSET Key \ {{}} : ClearAll(K)
    BY <1>2, RemovesType DEF ClearAll
  <1>3. CASE \E k \in Key : Delete(k)
    BY <1>3, RemovesType DEF Delete
  <1>4. CASE \E k \in Key : TempWritten(k)
    BY <1>4 DEF TempWritten, TypeOK
  <1>5. CASE \E k \in Key : Renamed(k)
    <2> PICK k \in Key : Renamed(k)
      BY <1>5
    <2>1. Head(writers[k]) \in Call
      BY HeadTailProperties DEF Renamed, TypeOK
    <2>2. QED  BY <2>1 DEF Renamed, TypeOK
  <1>6. CASE \E k \in Key : WriteEnds(k)
    BY <1>6, WriteEndsType
  <1>7. CASE \E k \in Key : WriteFails(k)
    BY <1>7, WriteFailsType
  <1>8. CASE \E k \in Key : WriteRefused(k)
    BY <1>8, DiskStorageAssumption DEF WriteRefused, Fault, TypeOK
  <1>9. CASE \E c \in Call : Proceed(c)
    BY <1>9, ProceedType
  <1>10. CASE Crash
    BY <1>10, CrashType
  <1>11. CASE UNCHANGED vars
    BY <1>11 DEF vars, TypeOK
  <1>12. QED
    BY <1>1, <1>2, <1>3, <1>4, <1>5, <1>6, <1>7, <1>8, <1>9, <1>10, <1>11 DEF Next, Write

-----------------------------------------------------------------------------
(* What the end of a write makes of the calls. *)

(* A removal looks for writes under way: it waits for them or goes on. *)
Looked(old, new, busy) ==
    /\ new.kind = old.kind /\ new.keys = old.keys /\ new.ahead = old.ahead
    /\ new.failed = old.failed /\ new.rounds = old.rounds
    /\ \/ /\ new.state = "waiting" /\ new.left = Scope(old) \cap busy
          /\ new.left # {} /\ old.rounds # MaxRounds
       \/ /\ Scope(old) \cap busy = {} \/ old.rounds = MaxRounds
          /\ \/ old.kind = "delete" /\ new.state = "removing" /\ new.left = old.keys
             \/ old.kind # "delete" /\ new.state = "listing"

LEMMA RoundLooks ==
    ASSUME NEW call \in CallState, NEW busy \in SUBSET Key
    PROVE  Looked(call, Round(call, busy), busy)
  BY DEF Round, Looked, GivesUp, CallState, Scope

Hears(c, k) == calls[c].state = "waiting" /\ k \in calls[c].left

(* A waiting removal hears of the end of a write of file k. *)
Heard(old, new, k, bad, busy) ==
    \/ /\ new.kind = old.kind /\ new.keys = old.keys /\ new.ahead = old.ahead
       /\ new.rounds = old.rounds
       /\ new.state = old.state /\ new.left = old.left \ {k} /\ new.failed = (old.failed \/ bad)
       /\ new.left # {} \/ new.failed
    \/ /\ old.left \subseteq {k} /\ ~old.failed /\ ~bad
       /\ \E mid \in CallState :
             /\ mid.kind = old.kind /\ mid.keys = old.keys /\ mid.ahead = old.ahead
             /\ ~mid.failed /\ mid.rounds = old.rounds + 1
             /\ Looked(mid, new, busy)

LEMMA WaitedHears ==
    ASSUME NEW call \in CallState, call.rounds # MaxRounds,
           NEW k \in Key, NEW bad \in BOOLEAN, NEW busy \in SUBSET Key
    PROVE  Heard(call, Waited(call, k, bad, busy), k, bad, busy)
  <1> DEFINE heard == [call EXCEPT !.left = @ \ {k}, !.failed = @ \/ bad]
             mid == [heard EXCEPT !.rounds = @ + 1]
  <1>1. heard \in CallState
    BY DEF CallState
  <1>2. CASE heard.left # {} \/ heard.failed
    <2>1. Waited(call, k, bad, busy) = heard
      BY <1>2 DEF Waited
    <2>2. /\ heard.kind = call.kind /\ heard.keys = call.keys /\ heard.ahead = call.ahead
          /\ heard.rounds = call.rounds /\ heard.state = call.state
          /\ heard.left = call.left \ {k} /\ heard.failed = (call.failed \/ bad)
      BY DEF CallState
    <2> HIDE DEF heard
    <2>3. QED  BY <1>2, <2>1, <2>2 DEF Heard
  <1>3. CASE heard.left = {} /\ ~heard.failed
    <2>1. Waited(call, k, bad, busy) = Round(mid, busy)
      BY <1>3 DEF Waited
    <2>2. call.left \subseteq {k} /\ ~call.failed /\ ~bad
      BY <1>3 DEF CallState
    <2>3. heard.rounds + 1 \in 0 .. MaxRounds
      BY DiskStorageAssumption DEF CallState
    <2>4. mid \in CallState
      <3> HIDE DEF heard
      <3> QED  BY <1>1, <2>3 DEF CallState
    <2>5. /\ mid.kind = call.kind /\ mid.keys = call.keys /\ mid.ahead = call.ahead
          /\ ~mid.failed /\ mid.rounds = call.rounds + 1
      BY <1>3 DEF CallState
    <2> HIDE DEF mid
    <2>6. Looked(mid, Round(mid, busy), busy)
      BY <2>4, RoundLooks
    <2>7. QED  BY <2>1, <2>2, <2>4, <2>5, <2>6 DEF Heard
  <1>4. QED  BY <1>2, <1>3

Ended(old, new, k, bad) ==
    /\ new.kind = old.kind /\ new.keys = old.keys /\ new.ahead = old.ahead
    /\ new.state = old.state /\ new.left = old.left \ {k} /\ new.failed = (old.failed \/ bad)

LEMMA NotifiedHears ==
    ASSUME TypeOK, WaitsOrFailed,
           NEW k \in Key, NEW done \in SUBSET Call, NEW bad \in BOOLEAN, NEW busy \in SUBSET Key,
           NEW c \in Call
    PROVE  LET new == Notified(k, done, bad, busy)[c]
           IN  /\ c \in done => Ended(calls[c], new, k, bad)
               /\ c \notin done /\ Hears(c, k) => Heard(calls[c], new, k, bad, busy)
               /\ c \notin done /\ ~Hears(c, k) => new = calls[c]
  <1>1. calls[c] \in CallState
    BY DEF TypeOK
  <1>2. CASE c \in done
    BY <1>1, <1>2 DEF Notified, Ended, CallState
  <1>3. CASE c \notin done /\ Hears(c, k)
    BY <1>1, <1>3, WaitedHears DEF Notified, Hears, WaitsOrFailed
  <1>4. CASE c \notin done /\ ~Hears(c, k)
    BY <1>4 DEF Notified, Hears
  <1>5. QED  BY <1>2, <1>3, <1>4

-----------------------------------------------------------------------------
(* Rows and calls. *)

LEMMA InitRow == Init => RowInv
  BY InitType DEF Init, RowInv, InRow, InOrder, Uncalled, WaitsOrFailed, SetsDoNotWait, NewCall

LEMMA SetRow == ASSUME RowInv, NEW K \in SUBSET Key, Set(K) PROVE RowInv'
  <1> DEFINE c == called + 1
             new == [NewCall EXCEPT !.keys = K, !.state = "writing", !.left = K]
  <1>1. TypeOK' /\ c \in Call /\ called \in Nat
    <2>1. TypeOK /\ TypeOK'
      BY SetType DEF RowInv
    <2>2. QED  BY <2>1, DiskStorageAssumption DEF Set, TypeOK, Call
  <1>2. /\ new.kind = "set" /\ new.state = "writing" /\ new.left = K /\ new.keys = K
    BY DEF NewCall
  <1>3. calls' = [calls EXCEPT ![c] = new] /\ called' = c
    BY DEF Set
  <1>4. \A d \in Call : calls'[d] = IF d = c THEN new ELSE calls[d]
    BY <1>1, <1>3 DEF RowInv, TypeOK
  <1>5. \A k \in Key : \A n \in DOMAIN writers'[k] :
            \/ n \in DOMAIN writers[k] /\ writers'[k][n] = writers[k][n]
            \/ k \in K /\ n = Len(writers[k]) + 1 /\ writers'[k][n] = c
    <2> SUFFICES ASSUME NEW k \in Key, k \in K
                 PROVE \A n \in DOMAIN Append(writers[k], c) :
                          \/ n \in DOMAIN writers[k] /\ Append(writers[k], c)[n] = writers[k][n]
                          \/ n = Len(writers[k]) + 1 /\ Append(writers[k], c)[n] = c
      BY DEF Set, Queued
    <2>1. writers[k] \in Seq(Call)
      BY DEF RowInv, TypeOK
    <2> HIDE DEF c
    <2>2. QED  BY <1>1, <2>1, AppendProperties, LenProperties
  <1>6. \A k \in Key : writers[k] \in Seq(Call) /\ DOMAIN writers[k] = 1 .. Len(writers[k])
                       /\ Len(writers[k]) \in Nat
    BY LenProperties DEF RowInv, TypeOK
  <1>7. \A k \in Key : \A n \in DOMAIN writers[k] : writers[k][n] \in Call /\ writers[k][n] <= called
    BY <1>6, ElementOfSeq DEF RowInv, InRow
  <1> HIDE DEF new
  <1>8. InRow'
    <2> SUFFICES ASSUME NEW k \in Key, NEW n \in DOMAIN writers'[k]
                 PROVE LET d == writers'[k][n]
                       IN  d <= called' /\ calls'[d].kind = "set" /\ calls'[d].state = "writing"
                           /\ k \in calls'[d].left
      BY DEF InRow
    <2>1. CASE k \in K /\ writers'[k][n] = c
      BY <1>1, <1>2, <1>3, <1>4, <2>1
    <2>2. CASE n \in DOMAIN writers[k] /\ writers'[k][n] = writers[k][n]
      <3>1. writers[k][n] \in Call /\ writers[k][n] <= called /\ writers[k][n] # c
        BY <1>1, <1>7, <2>2 DEF Call
      <3>2. calls'[writers[k][n]] = calls[writers[k][n]]
        BY <1>4, <3>1
      <3>3. writers[k][n] <= called + 1
        BY <1>1, <3>1 DEF Call
      <3>4. QED  BY <1>3, <2>2, <3>2, <3>3 DEF RowInv, InRow
    <2>3. QED  BY <1>5, <2>1, <2>2
  <1>9. InOrder'
    <2> SUFFICES ASSUME NEW k \in Key, NEW n \in DOMAIN writers'[k], NEW m \in DOMAIN writers'[k],
                        n < m
                 PROVE writers'[k][n] < writers'[k][m]
      BY DEF InOrder
    <2>1. CASE n \in DOMAIN writers[k] /\ m \in DOMAIN writers[k]
      BY <1>5, <1>6, <2>1 DEF RowInv, InOrder
    <2>2. CASE n \in DOMAIN writers[k] /\ m \notin DOMAIN writers[k]
      <3>1. writers'[k][n] = writers[k][n] /\ writers'[k][m] = c
        BY <1>5, <1>6, <2>2
      <3>2. QED  BY <1>1, <1>7, <2>2, <3>1 DEF Call
    <2>3. CASE n \notin DOMAIN writers[k]
      BY <1>5, <1>6, <2>3
    <2>4. QED  BY <2>1, <2>2, <2>3
  <1>10. Uncalled'
    BY <1>1, <1>3, <1>4 DEF RowInv, Uncalled, Call
  <1>11. WaitsOrFailed' /\ SetsDoNotWait'
    BY <1>2, <1>4 DEF RowInv, WaitsOrFailed, SetsDoNotWait
  <1>12. QED  BY <1>1, <1>8, <1>9, <1>10, <1>11 DEF RowInv

LEMMA NotifiedRow ==
    ASSUME RowInv, NEW k \in Key, NEW done \in SUBSET Call, NEW bad \in BOOLEAN,
           NEW busy \in SUBSET Key,
           \A c \in done : calls[c].kind = "set" /\ calls[c].state = "writing",
           calls' = Notified(k, done, bad, busy), called' = called
    PROVE  /\ Uncalled' /\ WaitsOrFailed' /\ SetsDoNotWait'
           /\ \A c \in Call : calls[c].state = "writing" =>
                 /\ calls'[c].kind = calls[c].kind /\ calls'[c].state = "writing"
                 /\ calls'[c].left = IF c \in done THEN calls[c].left \ {k} ELSE calls[c].left
  <1> USE DEF RowInv
  <1>1. \A c \in Call :
           /\ c \in done => Ended(calls[c], calls'[c], k, bad)
           /\ c \notin done /\ Hears(c, k) => Heard(calls[c], calls'[c], k, bad, busy)
           /\ c \notin done /\ ~Hears(c, k) => calls'[c] = calls[c]
    <2> SUFFICES ASSUME NEW c \in Call
                 PROVE /\ c \in done => Ended(calls[c], calls'[c], k, bad)
                       /\ c \notin done /\ Hears(c, k) => Heard(calls[c], calls'[c], k, bad, busy)
                       /\ c \notin done /\ ~Hears(c, k) => calls'[c] = calls[c]
      OBVIOUS
    <2>1. calls'[c] = Notified(k, done, bad, busy)[c]
      OBVIOUS
    <2> DEFINE new == Notified(k, done, bad, busy)[c]
    <2>2. /\ c \in done => Ended(calls[c], new, k, bad)
          /\ c \notin done /\ Hears(c, k) => Heard(calls[c], new, k, bad, busy)
          /\ c \notin done /\ ~Hears(c, k) => new = calls[c]
      BY NotifiedHears
    <2> HIDE DEF new
    <2>3. calls'[c] = new
      BY <2>1 DEF new
    <2>4. QED  BY <2>2, <2>3
  <1>2. Uncalled'
    <2> SUFFICES ASSUME NEW c \in Call, c > called PROVE calls'[c] = NewCall
      BY DEF Uncalled
    <2>1. calls[c] = NewCall /\ NewCall.state = "new"
      BY DEF Uncalled, NewCall
    <2>2. c \notin done /\ ~Hears(c, k)
      BY <2>1 DEF Hears
    <2>3. QED  BY <1>1, <2>1, <2>2
  <1>3. WaitsOrFailed'
    <2> SUFFICES ASSUME NEW c \in Call, calls'[c].state = "waiting"
                 PROVE calls'[c].rounds # MaxRounds /\ (calls'[c].left # {} \/ calls'[c].failed)
      BY DEF WaitsOrFailed
    <2>1. CASE c \in done
      BY <1>1, <2>1 DEF Ended
    <2>2. CASE c \notin done /\ Hears(c, k)
      BY <1>1, <2>2 DEF Heard, Looked, Hears, WaitsOrFailed
    <2>3. CASE c \notin done /\ ~Hears(c, k)
      BY <1>1, <2>3 DEF WaitsOrFailed
    <2>4. QED  BY <2>1, <2>2, <2>3
  <1>4. SetsDoNotWait'
    <2> SUFFICES ASSUME NEW c \in Call
                 PROVE /\ calls'[c].kind = "set" => calls'[c].state \notin {"waiting", "listing", "removing"}
                       /\ calls'[c].kind # "set" => calls'[c].state # "writing"
      BY DEF SetsDoNotWait
    <2>1. CASE c \in done
      BY <1>1, <2>1 DEF Ended
    <2>2. CASE c \notin done /\ Hears(c, k)
      <3>1. calls[c].kind # "set" /\ calls[c].state = "waiting"
        BY <2>2 DEF SetsDoNotWait, Hears
      <3>2. QED  BY <1>1, <2>2, <3>1 DEF Heard, Looked
    <2>3. CASE c \notin done /\ ~Hears(c, k)
      BY <1>1, <2>3 DEF SetsDoNotWait
    <2>4. QED  BY <2>1, <2>2, <2>3
  <1>5. QED  BY <1>1, <1>2, <1>3, <1>4 DEF Hears, Ended

LEMMA InWriters ==
    ASSUME TypeOK, NEW k \in Key
    PROVE  /\ writers[k] \in Seq(Call) /\ Len(writers[k]) \in Nat
           /\ DOMAIN writers[k] = 1 .. Len(writers[k])
           /\ \A n \in DOMAIN writers[k] : writers[k][n] \in Call
  BY LenProperties, ElementOfSeq DEF TypeOK

LEMMA FirstWriter ==
    ASSUME TypeOK, NEW k \in Key, writers[k] # <<>>
    PROVE  /\ 1 \in DOMAIN writers[k] /\ Head(writers[k]) = writers[k][1]
           /\ Tail(writers[k]) \in Seq(Call)
           /\ \A n \in DOMAIN Tail(writers[k]) :
                 n \in Nat /\ n + 1 \in DOMAIN writers[k] /\ Tail(writers[k])[n] = writers[k][n + 1]
  <1>1. writers[k] \in Seq(Call) /\ Len(writers[k]) \in Nat \ {0} /\ DOMAIN writers[k] = 1 .. Len(writers[k])
    BY InWriters, EmptySeq
  <1>2. Tail(writers[k]) \in Seq(Call) /\ Len(Tail(writers[k])) = Len(writers[k]) - 1
        /\ \A n \in 1 .. Len(Tail(writers[k])) : Tail(writers[k])[n] = writers[k][n + 1]
    BY <1>1, HeadTailProperties
  <1>3. DOMAIN Tail(writers[k]) = 1 .. Len(writers[k]) - 1
    BY <1>2, LenProperties
  <1>4. Head(writers[k]) = writers[k][1]
    BY <1>1
  <1>5. QED  BY <1>1, <1>2, <1>3, <1>4

LEMMA WriteEndsRow == ASSUME RowInv, NEW k \in Key, WriteEnds(k) PROVE RowInv'
  <1> DEFINE phases == [phase EXCEPT ![k] = IF Tail(writers[k]) = <<>> THEN "idle" ELSE "temp"]
             busy == {j \in Key : phases[j] # "idle"}
             h == Head(writers[k])
  <1>1. TypeOK /\ TypeOK' /\ writers[k] # <<>>
    BY WriteEndsType DEF RowInv, WriteEnds, TypeOK
  <1>2. 1 \in DOMAIN writers[k] /\ h = writers[k][1] /\ h \in Call
    BY <1>1, FirstWriter, InWriters
  <1>3. calls[h].kind = "set" /\ calls[h].state = "writing"
    BY <1>2 DEF RowInv, InRow
  <1>4. calls' = Notified(k, {h}, FALSE, busy) /\ called' = called
    BY DEF WriteEnds
  <1>5. writers' = [writers EXCEPT ![k] = Tail(writers[k])]
    BY DEF WriteEnds
  <1> HIDE DEF busy, h
  <1>6. /\ Uncalled' /\ WaitsOrFailed' /\ SetsDoNotWait'
        /\ \A c \in Call : calls[c].state = "writing" =>
              /\ calls'[c].kind = calls[c].kind /\ calls'[c].state = "writing"
              /\ calls'[c].left = IF c \in {h} THEN calls[c].left \ {k} ELSE calls[c].left
    <2>1. busy \in SUBSET Key
      BY DEF busy
    <2>2. {h} \in SUBSET Call /\ \A c \in {h} : calls[c].kind = "set" /\ calls[c].state = "writing"
      BY <1>2, <1>3
    <2>3. QED  BY <1>4, <2>1, <2>2, NotifiedRow
  <1>7. \A n \in DOMAIN Tail(writers[k]) :
           n \in Nat /\ n + 1 \in DOMAIN writers[k] /\ Tail(writers[k])[n] = writers[k][n + 1]
    BY <1>1, FirstWriter
  <1>8. \A j \in Key : j # k => writers'[j] = writers[j]
    BY <1>1, <1>5 DEF TypeOK
  <1>9. writers'[k] = Tail(writers[k])
    BY <1>1, <1>5 DEF TypeOK
  <1>10. InRow'
    <2> SUFFICES ASSUME NEW j \in Key, NEW n \in DOMAIN writers'[j]
                 PROVE LET d == writers'[j][n]
                       IN  d <= called' /\ calls'[d].kind = "set" /\ calls'[d].state = "writing"
                           /\ j \in calls'[d].left
      BY DEF InRow
    <2>1. CASE j # k
      <3>1. n \in DOMAIN writers[j] /\ writers'[j][n] = writers[j][n]
        BY <1>8, <2>1
      <3>2. writers[j][n] \in Call
        BY <1>1, <3>1, InWriters
      <3>3. /\ writers[j][n] <= called /\ calls[writers[j][n]].kind = "set"
            /\ calls[writers[j][n]].state = "writing" /\ j \in calls[writers[j][n]].left
        BY <3>1 DEF RowInv, InRow
      <3>4. QED  BY <1>4, <1>6, <2>1, <3>1, <3>2, <3>3
    <2>2. CASE j = k
      <3>1. n \in Nat /\ n + 1 \in DOMAIN writers[k] /\ writers'[k][n] = writers[k][n + 1]
        BY <1>7, <1>9, <2>2
      <3>2. writers[k][n + 1] \in Call
        BY <1>1, <3>1, InWriters
      <3>3. writers[k][1] < writers[k][n + 1]
        <4>1. 1 < n + 1
          BY <1>1, <1>9, <2>2, <3>1, FirstWriter, LenProperties DEF TypeOK
        <4>2. QED  BY <1>2, <3>1, <4>1 DEF RowInv, InOrder
      <3>4. writers[k][n + 1] # h
        BY <1>2, <3>2, <3>3 DEF Call
      <3>5. /\ writers[k][n + 1] <= called /\ calls[writers[k][n + 1]].kind = "set"
            /\ calls[writers[k][n + 1]].state = "writing" /\ k \in calls[writers[k][n + 1]].left
        BY <3>1 DEF RowInv, InRow
      <3>6. QED  BY <1>4, <1>6, <2>2, <3>1, <3>2, <3>4, <3>5
    <2>3. QED  BY <2>1, <2>2
  <1>11. InOrder'
    <2> SUFFICES ASSUME NEW j \in Key, NEW n \in DOMAIN writers'[j], NEW m \in DOMAIN writers'[j],
                        n < m
                 PROVE writers'[j][n] < writers'[j][m]
      BY DEF InOrder
    <2>1. CASE j # k
      BY <1>8, <2>1 DEF RowInv, InOrder
    <2>2. CASE j = k
      <3>1. n + 1 < m + 1
        BY <1>7, <1>9, <2>2
      <3>2. QED  BY <1>7, <1>9, <2>2, <3>1 DEF RowInv, InOrder
    <2>3. QED  BY <2>1, <2>2
  <1>12. QED  BY <1>1, <1>6, <1>10, <1>11 DEF RowInv

LEMMA WriteFailsRow == ASSUME RowInv, NEW k \in Key, WriteFails(k) PROVE RowInv'
  <1>1. TypeOK /\ TypeOK'
    BY WriteFailsType DEF RowInv
  <1>2. Writers(k) \in SUBSET Call /\ \A c \in Writers(k) : calls[c].kind = "set" /\ calls[c].state = "writing"
    BY <1>1, InWriters DEF Writers, RowInv, InRow
  <1>3. /\ Uncalled' /\ WaitsOrFailed' /\ SetsDoNotWait'
        /\ \A c \in Call : calls[c].state = "writing" =>
              /\ calls'[c].kind = calls[c].kind /\ calls'[c].state = "writing"
              /\ calls'[c].left = IF c \in Writers(k) THEN calls[c].left \ {k} ELSE calls[c].left
    <2>1. calls' = Notified(k, Writers(k), TRUE, Busy \ {k}) /\ called' = called
      BY DEF WriteFails
    <2>2. Busy \ {k} \in SUBSET Key
      BY DEF Busy
    <2>3. QED  BY <1>2, <2>1, <2>2, NotifiedRow
  <1>4. \A j \in Key : \A n \in DOMAIN writers'[j] :
           j # k /\ writers'[j] = writers[j] /\ n \in DOMAIN writers[j] /\ writers[j][n] \in Call
    BY <1>1, InWriters DEF WriteFails, TypeOK
  <1>5. InRow'
    <2> SUFFICES ASSUME NEW j \in Key, NEW n \in DOMAIN writers'[j]
                 PROVE LET d == writers'[j][n]
                       IN  d <= called' /\ calls'[d].kind = "set" /\ calls'[d].state = "writing"
                           /\ j \in calls'[d].left
      BY DEF InRow
    <2>1. /\ writers[j][n] <= called /\ calls[writers[j][n]].kind = "set"
          /\ calls[writers[j][n]].state = "writing" /\ j \in calls[writers[j][n]].left
      BY <1>4 DEF RowInv, InRow
    <2>2. called' = called
      BY DEF WriteFails
    <2>3. QED  BY <1>3, <1>4, <2>1, <2>2
  <1>6. InOrder'
    BY <1>4 DEF RowInv, InOrder
  <1>7. QED  BY <1>1, <1>3, <1>5, <1>6 DEF RowInv

(* The other steps leave the rows alone, and the sets in them. *)
LEMMA RowsStay ==
    ASSUME RowInv, TypeOK', writers' = writers, called <= called',
           \A c \in Call : calls[c].state = "writing" =>
               calls'[c].kind = calls[c].kind /\
               (calls[c].left # {} => calls'[c].state = "writing" /\ calls'[c].left = calls[c].left)
    PROVE  InRow' /\ InOrder'
  <1>1. InOrder'
    BY DEF RowInv, InOrder
  <1>2. InRow'
    <2> SUFFICES ASSUME NEW k \in Key, NEW n \in DOMAIN writers[k]
                 PROVE LET d == writers[k][n]
                       IN  d <= called' /\ calls'[d].kind = "set" /\ calls'[d].state = "writing"
                           /\ k \in calls'[d].left
      BY DEF InRow
    <2>1. writers[k][n] \in Call
      BY InWriters DEF RowInv
    <2>2. /\ writers[k][n] <= called /\ calls[writers[k][n]].kind = "set"
          /\ calls[writers[k][n]].state = "writing" /\ k \in calls[writers[k][n]].left
      BY DEF RowInv, InRow
    <2>3. writers[k][n] <= called'
      BY <2>1, <2>2, DiskStorageAssumption DEF RowInv, TypeOK, Call
    <2>4. QED  BY <2>1, <2>2, <2>3
  <1>3. QED  BY <1>1, <1>2

LEMMA RemovesRow ==
    ASSUME RowInv, NEW kind \in {"delete", "clear"}, NEW K \in SUBSET Key, Removes(kind, K)
    PROVE  RowInv'
  <1> DEFINE call == [NewCall EXCEPT !.kind = kind, !.keys = K,
                                     !.ahead = [k \in Key |-> Len(writers[k])]]
             new == Round(call, Busy)
             c == called + 1
  <1>1. TypeOK /\ TypeOK' /\ c \in Call /\ called \in Nat /\ called' \in Nat
    <2>1. TypeOK /\ TypeOK'
      BY RemovesType DEF RowInv
    <2>2. QED  BY <2>1, DiskStorageAssumption DEF Removes, TypeOK, Call
  <1>2. call \in CallState /\ call.kind = kind
    <2>1. \A k \in Key : Len(writers[k]) \in Nat
      BY <1>1, InWriters
    <2>2. QED  BY <2>1, NewCallType DEF CallState
  <1>3. Looked(call, new, Busy)
    <2> HIDE DEF call
    <2> QED  BY <1>2, RoundLooks DEF Busy
  <1>4. new.kind = kind /\ new.kind # "set" /\ new.state # "writing"
        /\ (new.state = "waiting" => new.left # {} /\ new.rounds # MaxRounds)
    <2> HIDE DEF call, new
    <2> QED  BY <1>2, <1>3 DEF Looked
  <1>5. calls' = [calls EXCEPT ![c] = new]
    BY DEF Removes
  <1> HIDE DEF new
  <1>6. \A d \in Call : calls'[d] = IF d = c THEN new ELSE calls[d]
    BY <1>1, <1>5 DEF TypeOK
  <1>7. calls[c] = NewCall /\ NewCall.state = "new"
    <2>1. c > called
      BY <1>1
    <2>2. calls[c] = NewCall
      BY <1>1, <2>1 DEF RowInv, Uncalled
    <2>3. QED  BY <2>2 DEF NewCall
  <1>8. InRow' /\ InOrder'
    <2>1. writers' = writers /\ called <= called'
      BY <1>1 DEF Removes
    <2>2. QED  BY <1>1, <1>6, <1>7, <2>1, RowsStay
  <1>9. Uncalled'
    <2> SUFFICES ASSUME NEW d \in Call, d > called' PROVE calls'[d] = NewCall
      BY DEF Uncalled
    <2>1. d > called /\ d # c
      BY <1>1 DEF Removes, Call
    <2>2. QED  BY <1>6, <2>1 DEF RowInv, Uncalled
  <1>10. WaitsOrFailed' /\ SetsDoNotWait'
    BY <1>4, <1>6 DEF RowInv, WaitsOrFailed, SetsDoNotWait
  <1>11. QED  BY <1>1, <1>8, <1>9, <1>10 DEF RowInv

(* Steps of one call. *)
LEMMA ProceedRow == ASSUME RowInv, NEW c \in Call, Proceed(c) PROVE RowInv'
  <1>1. TypeOK /\ TypeOK'
    BY ProceedType DEF RowInv
  <1>2. writers' = writers /\ called' = called /\ called \in Nat
    <2>1. writers' = writers /\ called' = called
      BY DEF Proceed, List, Return, RemoveFile, RemoveTemp
    <2>2. QED  BY <1>1, <2>1, DiskStorageAssumption DEF TypeOK
  <1>3. /\ \A d \in Call : d # c => calls'[d] = calls[d]
        /\ calls'[c].kind = calls[c].kind /\ calls[c].state # "new"
        /\ calls'[c].state \in {"removing", "ok", "failed"}
        /\ calls[c].state = "writing" => calls[c].left = {} /\ calls'[c].state # "removing"
    <2>1. calls[c] \in CallState /\ calls \in [Call -> CallState]
      BY <1>1 DEF TypeOK
    <2>2. CASE List(c)
      BY <2>1, <2>2 DEF List, CallState
    <2>3. CASE Return(c)
      BY <2>1, <2>3 DEF Return, CallState
    <2>4. CASE \E k \in Key : RemoveFile(c, k)
      BY <2>1, <2>4 DEF RemoveFile, CallState
    <2>5. CASE \E k \in Key : RemoveTemp(c, k)
      BY <2>1, <2>5 DEF RemoveTemp, CallState
    <2>6. QED  BY <2>2, <2>3, <2>4, <2>5 DEF Proceed
  <1>4. InRow' /\ InOrder'
    BY <1>1, <1>2, <1>3, RowsStay
  <1>5. calls[c] # NewCall
    BY <1>3 DEF NewCall
  <1>6. Uncalled'
    BY <1>2, <1>3, <1>5 DEF RowInv, Uncalled
  <1>7. WaitsOrFailed'
    BY <1>3 DEF RowInv, WaitsOrFailed
  <1>8. SetsDoNotWait'
    <2>1. calls'[c].state = "removing" => calls'[c].kind # "set"
      <3>1. calls'[c].state = "removing" => calls[c].state \in {"listing", "removing"}
        <4>1. calls[c] \in CallState /\ calls \in [Call -> CallState]
          BY <1>1 DEF TypeOK
        <4>2. CASE List(c)
          BY <4>2 DEF List
        <4>3. CASE Return(c)
          BY <4>1, <4>3 DEF Return, CallState
        <4>4. CASE \E k \in Key : RemoveFile(c, k) \/ RemoveTemp(c, k)
          BY <4>4 DEF RemoveFile, RemoveTemp
        <4>5. QED  BY <4>2, <4>3, <4>4 DEF Proceed
      <3>2. QED  BY <1>3, <3>1 DEF RowInv, SetsDoNotWait
    <2>2. QED  BY <1>3, <2>1 DEF RowInv, SetsDoNotWait
  <1>9. QED  BY <1>1, <1>4, <1>6, <1>7, <1>8 DEF RowInv

LEMMA CrashRow == ASSUME RowInv, Crash PROVE RowInv'
  <1>1. TypeOK /\ TypeOK'
    BY CrashType DEF RowInv
  <1>2. \A c \in Call : /\ calls'[c].kind = calls[c].kind
                        /\ calls'[c].state \notin {"waiting", "listing", "removing", "writing"}
                        /\ calls[c].state = "new" => calls'[c] = calls[c]
    <2> SUFFICES ASSUME NEW c \in Call
                 PROVE /\ calls'[c].kind = calls[c].kind
                       /\ calls'[c].state \notin {"waiting", "listing", "removing", "writing"}
                       /\ calls[c].state = "new" => calls'[c] = calls[c]
      OBVIOUS
    <2>1. calls[c] \in CallState
      BY <1>1 DEF TypeOK
    <2>2. QED  BY <2>1 DEF Crash, Open, CallState
  <1>3. InRow' /\ InOrder'
    BY DEF Crash, InRow, InOrder
  <1>4. Uncalled'
    <2> SUFFICES ASSUME NEW c \in Call, c > called PROVE calls'[c] = NewCall
      BY DEF Uncalled, Crash
    <2>1. calls[c] = NewCall
      BY DEF RowInv, Uncalled
    <2>2. calls[c].state = "new"
      BY <2>1 DEF NewCall
    <2>3. QED  BY <1>2, <2>1, <2>2
  <1>5. WaitsOrFailed' /\ SetsDoNotWait'
    BY <1>2 DEF WaitsOrFailed, SetsDoNotWait
  <1>6. QED  BY <1>1, <1>3, <1>4, <1>5 DEF RowInv

LEMMA NextRow == ASSUME RowInv, [Next]_vars PROVE RowInv'
  <1>0. TypeOK /\ TypeOK'
    BY NextType DEF RowInv
  <1>1. CASE \E K \in SUBSET Key \ {{}} : Set(K)
    BY <1>1, SetRow
  <1>2. CASE \E K \in SUBSET Key \ {{}} : ClearAll(K)
    BY <1>2, RemovesRow DEF ClearAll
  <1>3. CASE \E k \in Key : Delete(k)
    BY <1>3, RemovesRow DEF Delete
  <1>4. CASE UNCHANGED <<writers, called, calls>>
    BY <1>0, <1>4 DEF RowInv, InRow, InOrder, Uncalled, WaitsOrFailed, SetsDoNotWait
  <1>5. CASE \E k \in Key : TempWritten(k) \/ Renamed(k) \/ WriteRefused(k)
    BY <1>4, <1>5 DEF TempWritten, Renamed, WriteRefused
  <1>6. CASE \E k \in Key : WriteEnds(k)
    BY <1>6, WriteEndsRow
  <1>7. CASE \E k \in Key : WriteFails(k)
    BY <1>7, WriteFailsRow
  <1>8. CASE \E c \in Call : Proceed(c)
    BY <1>8, ProceedRow
  <1>9. CASE Crash
    BY <1>9, CrashRow
  <1>10. CASE UNCHANGED vars
    BY <1>4, <1>10 DEF vars
  <1>11. QED
    BY <1>1, <1>2, <1>3, <1>5, <1>6, <1>7, <1>8, <1>9, <1>10 DEF Next, Write

LEMMA RowInvariant == Spec => []RowInv
  <1>1. Init => RowInv
    BY InitRow
  <1>2. RowInv /\ [Next]_vars => RowInv'
    BY NextRow
  <1>3. QED  BY <1>1, <1>2, PTL DEF Spec

(* The types of the file storage, whatever is called and whatever fails.   *)
THEOREM TypeCorrect == Spec => []TypeOK
  <1>1. RowInv => TypeOK
    BY DEF RowInv
  <1>2. QED  BY <1>1, RowInvariant, PTL

-----------------------------------------------------------------------------
(* The files are a key-value store. *)

(* One call changes its state for the store. *)
LEMMA OneCall ==
    ASSUME TypeOK, NEW c \in Call,
           \A d \in Call : d # c => calls'[d] = calls[d]
    PROVE  /\ Kind' = [Kind EXCEPT ![c] = calls'[c].kind]
           /\ State' = [State EXCEPT ![c] = State'[c]]
           /\ Todo' = [Todo EXCEPT ![c] = Todo'[c]]
           /\ \A d \in Call : d # c => (d \in Refused <=> d \in Refused')
  <1>1. \A d \in Call : d # c => Kind'[d] = Kind[d] /\ State'[d] = State[d] /\ Todo'[d] = Todo[d]
    BY DEF Kind, State, Todo, Open
  <1>2. Kind = [d \in Call |-> Kind[d]] /\ Kind' = [d \in Call |-> Kind'[d]] /\ Kind'[c] = calls'[c].kind
    BY DEF Kind
  <1>3. State = [d \in Call |-> State[d]] /\ State' = [d \in Call |-> State'[d]]
    BY DEF State
  <1>4. Todo = [d \in Call |-> Todo[d]] /\ Todo' = [d \in Call |-> Todo'[d]]
    BY DEF Todo
  <1>5. \A d \in Call : d # c => (d \in Refused <=> d \in Refused')
    BY DEF Refused
  <1>6. QED  BY <1>1, <1>2, <1>3, <1>4, <1>5

LEMMA InitStore == Init => Store!Init
  <1> SUFFICES ASSUME Init PROVE Store!Init
    OBVIOUS
  <1>1. \A c \in Call : calls[c] = NewCall /\ ~Open(c)
    BY DEF Init, NewCall, Open
  <1>2. Pending = [k \in Key |-> <<>>] /\ files = [k \in Key |-> Store!None]
    BY DEF Init, Pending, None, Store!None
  <1>3. Kind = [c \in Call |-> "set"] /\ State = [c \in Call |-> "new"] /\ Todo = [c \in Call |-> {}]
        /\ Refused = {}
    BY <1>1 DEF Kind, State, Todo, Refused, NewCall
  <1>4. called = 0
    BY DEF Init
  <1>5. QED  BY <1>2, <1>3, <1>4 DEF Store!Init, Store!Call, Call

(* The row that the key-value store sees grows with the row of writers.    *)
LEMMA SetPending ==
    ASSUME RowInv, NEW K \in SUBSET Key, Set(K)
    PROVE  Pending' = [k \in Key |-> IF k \in K THEN Append(Pending[k], called + 1) ELSE Pending[k]]
  <1> SUFFICES ASSUME NEW k \in Key
               PROVE Pending'[k] = IF k \in K THEN Append(Pending[k], called + 1) ELSE Pending[k]
    BY DEF Pending
  <1>1. TypeOK /\ called + 1 \in Call
    <2>1. TypeOK
      BY DEF RowInv
    <2>2. QED  BY <2>1, DiskStorageAssumption DEF Set, TypeOK, Call
  <1>2. CASE k \notin K
    BY <1>2 DEF Pending, Set
  <1>3. CASE k \in K /\ phase[k] = "written"
    <2>1. writers[k] \in Seq(Call) /\ writers[k] # <<>>
      BY <1>1, <1>3 DEF TypeOK
    <2>2. Tail(Append(writers[k], called + 1)) = Append(Tail(writers[k]), called + 1)
      BY <1>1, <2>1
    <2>3. writers'[k] = Append(writers[k], called + 1) /\ phase'[k] = "written"
      BY <1>3 DEF Set, Queued
    <2>4. QED  BY <1>3, <2>2, <2>3 DEF Pending
  <1>4. CASE k \in K /\ phase[k] # "written"
    BY <1>4 DEF Pending, Set, Queued
  <1>5. QED  BY <1>2, <1>3, <1>4

LEMMA SetStore == ASSUME RowInv, NEW K \in SUBSET Key, Set(K) PROVE Store!Invoke("set", K)
  <1> DEFINE c == called + 1
             new == [NewCall EXCEPT !.keys = K, !.state = "writing", !.left = K]
  <1>1. TypeOK /\ c \in Call /\ called < MaxCalls /\ called' = c /\ files' = files
    <2>1. TypeOK
      BY DEF RowInv
    <2>2. QED  BY <2>1, DiskStorageAssumption DEF Set, TypeOK, Call
  <1>2. new.kind = "set" /\ new.state = "writing" /\ ~new.failed
    BY DEF NewCall
  <1>3. calls' = [calls EXCEPT ![c] = new]
    BY DEF Set
  <1> HIDE DEF new
  <1>4. \A d \in Call : calls'[d] = IF d = c THEN new ELSE calls[d]
    BY <1>1, <1>3 DEF TypeOK
  <1>5. calls[c] = NewCall
    <2>1. c > called
      BY <1>1, DiskStorageAssumption DEF TypeOK
    <2>2. QED  BY <1>1, <2>1 DEF RowInv, Uncalled
  <1>6. /\ Kind' = [Kind EXCEPT ![c] = "set"] /\ State' = [State EXCEPT ![c] = "open"]
        /\ Todo' = [Todo EXCEPT ![c] = {}] /\ Refused' = Refused
    <2>1. calls'[c].kind = "set" /\ State'[c] = "open" /\ Todo'[c] = {}
      BY <1>1, <1>2, <1>4 DEF State, Todo, Open
    <2>2. c \notin Refused /\ c \notin Refused'
      BY <1>1, <1>2, <1>4, <1>5 DEF Refused, NewCall
    <2>3. Refused' = Refused
      BY <1>1, <1>4, <2>2, OneCall DEF Refused
    <2>4. QED  BY <1>1, <1>4, <2>1, <2>3, OneCall
  <1>7. Pending' = [k \in Key |-> IF k \in K THEN Append(Pending[k], c) ELSE Pending[k]]
    BY SetPending
  <1>8. QED  BY <1>1, <1>6, <1>7 DEF Store!Invoke

(* Pending follows writers and phase, file by file. *)
LEMMA PendingStays ==
    ASSUME writers' = writers, \A k \in Key : phase'[k] = "written" <=> phase[k] = "written"
    PROVE  Pending' = Pending
  BY DEF Pending

LEMMA CallsStay ==
    ASSUME calls' = calls
    PROVE  Kind' = Kind /\ State' = State /\ Todo' = Todo /\ Refused' = Refused
  BY DEF Kind, State, Todo, Refused, Open

LEMMA RenamedStore ==
    ASSUME RowInv, NEW k \in Key, Renamed(k)
    PROVE  Store!TakeEffect(k) \/ UNCHANGED Store!kvars
  <1>1. TypeOK /\ phase[k] = "rename" /\ writers[k] # <<>> /\ calls' = calls /\ called' = called
        /\ writers' = writers
    BY DEF RowInv, TypeOK, Renamed
  <1>2. Kind' = Kind /\ State' = State /\ Todo' = Todo /\ Refused' = Refused
    BY <1>1, CallsStay
  <1>3. CASE k \in temps
    <2>1. Pending[k] = writers[k]
      BY <1>1 DEF Pending
    <2>2. Pending' = [Pending EXCEPT ![k] = Tail(Pending[k])]
      <3>1. phase' = [phase EXCEPT ![k] = "written"]
        BY <1>3 DEF Renamed
      <3>2. QED  BY <1>1, <2>1, <3>1 DEF Pending, TypeOK
    <2>3. files' = [files EXCEPT ![k] = Head(Pending[k])]
      BY <1>3, <2>1 DEF Renamed
    <2>4. QED  BY <1>1, <1>2, <2>1, <2>2, <2>3 DEF Store!TakeEffect
  <1>4. CASE k \notin temps
    <2>1. phase' = [phase EXCEPT ![k] = "refused"] /\ files' = files
      BY <1>4 DEF Renamed
    <2>2. Pending' = Pending
      BY <1>1, <2>1, PendingStays DEF TypeOK
    <2>3. QED  BY <1>1, <1>2, <2>1, <2>2 DEF Store!kvars
  <1>5. QED  BY <1>3, <1>4

(* Calls that hear of the end of a write are the same for the store, but   *)
(* for those that will fail.                                               *)
LEMMA NotifiedStore ==
    ASSUME RowInv, NEW k \in Key, NEW done \in SUBSET Call, NEW bad \in BOOLEAN,
           NEW busy \in SUBSET Key,
           \A c \in done : calls[c].kind = "set" /\ calls[c].state = "writing",
           calls' = Notified(k, done, bad, busy)
    PROVE  /\ Kind' = Kind /\ State' = State /\ Todo' = Todo
           /\ ~bad => Refused' = Refused
           /\ bad => Refused' = Refused \cup done \cup {c \in Call : c \notin done /\ Hears(c, k)}
  <1> SUFFICES ASSUME NEW c \in Call
               PROVE /\ Kind'[c] = Kind[c] /\ State'[c] = State[c] /\ Todo'[c] = Todo[c]
                     /\ calls'[c].failed <=> calls[c].failed \/ (bad /\ (c \in done \/ Hears(c, k)))
    <2>1. \A d \in Call : /\ Kind'[d] = Kind[d] /\ State'[d] = State[d] /\ Todo'[d] = Todo[d]
                          /\ calls'[d].failed <=> calls[d].failed \/ (bad /\ (d \in done \/ Hears(d, k)))
      OBVIOUS
    <2>2. Kind' = Kind /\ State' = State /\ Todo' = Todo
      BY <2>1 DEF Kind, State, Todo
    <2>3. /\ ~bad => Refused' = Refused
          /\ bad => Refused' = Refused \cup done \cup {d \in Call : d \notin done /\ Hears(d, k)}
      BY <2>1 DEF Refused
    <2>4. QED  BY <2>2, <2>3
  <1> DEFINE new == Notified(k, done, bad, busy)[c]
  <1>0. TypeOK /\ WaitsOrFailed
    BY DEF RowInv
  <1>1. /\ c \in done => Ended(calls[c], new, k, bad)
        /\ c \notin done /\ Hears(c, k) => Heard(calls[c], new, k, bad, busy)
        /\ c \notin done /\ ~Hears(c, k) => new = calls[c]
    BY <1>0, NotifiedHears
  <1>2. calls'[c] = new /\ calls[c] \in CallState
    BY DEF RowInv, TypeOK
  <1> HIDE DEF new
  <1>3. CASE c \in done
    BY <1>1, <1>2, <1>3 DEF Ended, Kind, State, Todo, Open, CallState
  <1>4. CASE c \notin done /\ ~Hears(c, k)
    BY <1>1, <1>2, <1>4 DEF Kind, State, Todo, Open
  <1>5. CASE c \notin done /\ Hears(c, k)
    <2>1. calls[c].state = "waiting" /\ calls[c].kind # "set"
      BY <1>5 DEF Hears, RowInv, SetsDoNotWait
    <2>2. Heard(calls[c], calls'[c], k, bad, busy)
      BY <1>1, <1>2, <1>5
    <2>3. /\ calls'[c].kind = calls[c].kind /\ calls'[c].keys = calls[c].keys
          /\ \/ calls'[c].state = "waiting" \/ calls'[c].state = "listing"
             \/ calls'[c].state = "removing" /\ calls'[c].left = calls'[c].keys
      BY <2>1, <2>2 DEF Heard, Looked
    <2>4. calls'[c].failed <=> calls[c].failed \/ bad
      BY <2>2, <1>2 DEF Heard, Looked, CallState
    <2>5. QED  BY <1>5, <2>1, <2>3, <2>4 DEF Kind, State, Todo, Open
  <1>6. QED  BY <1>3, <1>4, <1>5

LEMMA WriteEndsStore ==
    ASSUME RowInv, NEW k \in Key, WriteEnds(k) PROVE UNCHANGED Store!kvars
  <1> DEFINE phases == [phase EXCEPT ![k] = IF Tail(writers[k]) = <<>> THEN "idle" ELSE "temp"]
             busy == {j \in Key : phases[j] # "idle"}
             h == Head(writers[k])
  <1>1. TypeOK /\ writers[k] # <<>> /\ phase[k] = "written"
    BY DEF RowInv, WriteEnds, TypeOK
  <1>2. h \in Call /\ calls[h].kind = "set" /\ calls[h].state = "writing"
    BY <1>1, FirstWriter, InWriters DEF RowInv, InRow
  <1>3. calls' = Notified(k, {h}, FALSE, busy) /\ called' = called /\ files' = files
    BY DEF WriteEnds
  <1>4. writers' = [writers EXCEPT ![k] = Tail(writers[k])] /\ phase' = phases
    BY DEF WriteEnds
  <1>5. Pending' = Pending
    BY <1>1, <1>4 DEF Pending, TypeOK
  <1> HIDE DEF busy, h
  <1>6. Kind' = Kind /\ State' = State /\ Todo' = Todo /\ Refused' = Refused
    <2>1. {h} \in SUBSET Call /\ busy \in SUBSET Key
          /\ \A c \in {h} : calls[c].kind = "set" /\ calls[c].state = "writing"
      BY <1>2 DEF busy
    <2>2. QED  BY <1>3, <2>1, NotifiedStore
  <1>7. QED  BY <1>3, <1>5, <1>6 DEF Store!kvars

LEMMA WriteFailsStore ==
    ASSUME RowInv, NEW k \in Key, WriteFails(k) PROVE Store!Refuse(k)
  <1> DEFINE R == {c \in Call : c \notin Writers(k) /\ Hears(c, k)}
  <1>1. TypeOK /\ writers[k] # <<>> /\ phase[k] = "refused"
    BY DEF RowInv, WriteFails, TypeOK
  <1>2. Writers(k) \in SUBSET Call /\ \A c \in Writers(k) : calls[c].kind = "set" /\ calls[c].state = "writing"
    BY <1>1, InWriters DEF Writers, RowInv, InRow
  <1>3. calls' = Notified(k, Writers(k), TRUE, Busy \ {k}) /\ called' = called /\ files' = files
    BY DEF WriteFails
  <1>4. Kind' = Kind /\ State' = State /\ Todo' = Todo /\ Refused' = Refused \cup Writers(k) \cup R
    <2>1. Busy \ {k} \in SUBSET Key
      BY DEF Busy
    <2>2. QED  BY <1>2, <1>3, <2>1, NotifiedStore
  <1>5. Pending[k] = writers[k] /\ Store!Waiting(k) = Writers(k)
    BY <1>1 DEF Pending, Store!Waiting, Writers
  <1>6. Pending' = [Pending EXCEPT ![k] = <<>>]
    BY <1>1 DEF WriteFails, Pending, TypeOK
  <1>7. R \in SUBSET {c \in Store!Call : Kind[c] \in Store!Removal /\ State[c] = "open"}
    <2> SUFFICES ASSUME NEW c \in Call, Hears(c, k)
                 PROVE Kind[c] \in {"delete", "clear"} /\ State[c] = "open"
      BY DEF Store!Call, Call, Store!Removal
    <2>1. calls[c] \in CallState /\ calls[c].state = "waiting" /\ calls[c].kind # "set"
      BY <1>1 DEF Hears, RowInv, SetsDoNotWait, TypeOK
    <2>2. QED  BY <2>1 DEF Kind, State, Open, CallState
  <1> HIDE DEF R
  <1>8. QED  BY <1>1, <1>3, <1>4, <1>5, <1>6, <1>7 DEF Store!Refuse

LEMMA RemovesStore ==
    ASSUME RowInv, NEW kind \in {"delete", "clear"}, NEW K \in SUBSET Key, Removes(kind, K)
    PROVE  Store!Invoke(kind, K)
  <1> DEFINE call == [NewCall EXCEPT !.kind = kind, !.keys = K,
                                     !.ahead = [k \in Key |-> Len(writers[k])]]
             new == Round(call, Busy)
             c == called + 1
  <1>1. TypeOK /\ c \in Call /\ called < MaxCalls /\ called' = c /\ files' = files /\ c > called
    <2>1. TypeOK
      BY DEF RowInv
    <2>2. QED  BY <2>1, DiskStorageAssumption DEF Removes, TypeOK, Call
  <1>2. call \in CallState /\ call.kind = kind /\ call.keys = K /\ ~call.failed
    <2>1. \A k \in Key : Len(writers[k]) \in Nat
      BY <1>1, InWriters
    <2>2. QED  BY <2>1, NewCallType DEF CallState, NewCall
  <1>3. Looked(call, new, Busy)
    <2> HIDE DEF call
    <2> QED  BY <1>2, RoundLooks DEF Busy
  <1>4. /\ new.kind = kind /\ new.keys = K /\ ~new.failed
        /\ new.state \in {"waiting", "listing"} \/ (new.state = "removing" /\ new.left = K)
    <2> HIDE DEF call, new
    <2>1. new.kind = kind /\ new.keys = K /\ new.failed = call.failed
      BY <1>2, <1>3 DEF Looked
    <2>2. new.state \in {"waiting", "listing"} \/ (new.state = "removing" /\ new.left = K)
      BY <1>2, <1>3 DEF Looked
    <2>3. QED  BY <1>2, <2>1, <2>2
  <1>5. calls' = [calls EXCEPT ![c] = new]
    BY DEF Removes
  <1> HIDE DEF new
  <1>6. \A d \in Call : calls'[d] = IF d = c THEN new ELSE calls[d]
    BY <1>1, <1>5 DEF TypeOK
  <1>7. calls[c] = NewCall
    BY <1>1 DEF RowInv, Uncalled
  <1>8. /\ Kind' = [Kind EXCEPT ![c] = kind] /\ State' = [State EXCEPT ![c] = "open"]
        /\ Todo' = [Todo EXCEPT ![c] = K] /\ Refused' = Refused
    <2>1. calls'[c].kind = kind /\ State'[c] = "open" /\ Todo'[c] = K
      BY <1>1, <1>4, <1>6 DEF State, Todo, Open
    <2>2. c \notin Refused /\ c \notin Refused'
      BY <1>1, <1>4, <1>6, <1>7 DEF Refused, NewCall
    <2>3. Refused' = Refused
      BY <1>1, <1>6, <2>2, OneCall DEF Refused
    <2>4. QED  BY <1>1, <1>6, <2>1, <2>3, OneCall
  <1>9. Pending' = [k \in Key |-> Pending[k]]
    BY DEF Removes, Pending
  <1>10. kind # "set"
    OBVIOUS
  <1>11. QED  BY <1>1, <1>8, <1>9, <1>10 DEF Store!Invoke

LEMMA CrashStore == ASSUME RowInv, Crash PROVE Store!Crash
  <1>1. Pending' = [k \in Key |-> <<>>]
    BY DEF Crash, Pending
  <1>2. \A c \in Call : /\ calls'[c].kind = calls[c].kind /\ calls'[c].failed = calls[c].failed
                        /\ calls'[c].state = IF Open(c) THEN "lost" ELSE calls[c].state
    <2> SUFFICES ASSUME NEW c \in Call
                 PROVE /\ calls'[c].kind = calls[c].kind /\ calls'[c].failed = calls[c].failed
                       /\ calls'[c].state = IF Open(c) THEN "lost" ELSE calls[c].state
      OBVIOUS
    <2>1. calls[c] \in CallState
      BY DEF RowInv, TypeOK
    <2>2. QED  BY <2>1 DEF Crash, CallState
  <1>3. Kind' = Kind /\ Refused' = Refused
    BY <1>2 DEF Kind, Refused
  <1>4. State' = [c \in Store!Call |-> IF State[c] = "open" THEN "lost" ELSE State[c]]
    <2>1. \A c \in Call : State'[c] = IF State[c] = "open" THEN "lost" ELSE State[c]
      <3> SUFFICES ASSUME NEW c \in Call
                   PROVE State'[c] = IF State[c] = "open" THEN "lost" ELSE State[c]
        OBVIOUS
      <3>1. calls[c].state # "open"
        BY DEF RowInv, TypeOK, CallState
      <3>2. QED  BY <1>2, <3>1 DEF State, Open
    <2>2. State' = [c \in Call |-> State'[c]]
      BY DEF State
    <2>3. QED  BY <2>1, <2>2 DEF Store!Call, Call
  <1>5. Todo' = [c \in Store!Call |-> {}]
    <2>1. \A c \in Call : ~Open(c)'
      BY <1>2 DEF Open
    <2>2. QED  BY <2>1 DEF Todo, Store!Call, Call
  <1>6. QED  BY <1>1, <1>3, <1>4, <1>5 DEF Store!Crash, Crash

LEMMA ProceedStore ==
    ASSUME RowInv, NEW c \in Call, Proceed(c)
    PROVE  Store!Answer(c) \/ (\E K \in SUBSET Key : Store!Remove(c, K)) \/ UNCHANGED Store!kvars
  <1>1. TypeOK /\ calls[c] \in CallState /\ calls \in [Call -> CallState] /\ c \in Store!Call
    BY DEF RowInv, TypeOK, Store!Call, Call
  <1>2. writers' = writers /\ phase' = phase /\ called' = called
    BY DEF Proceed, List, Return, RemoveFile, RemoveTemp
  <1>3. Pending' = Pending
    BY <1>2, PendingStays
  <1>4. \A d \in Call : d # c => calls'[d] = calls[d]
    <2>1. CASE List(c)
      BY <1>1, <2>1 DEF List
    <2>2. CASE Return(c)
      BY <1>1, <2>2 DEF Return
    <2>3. CASE \E k \in Key : RemoveFile(c, k)
      BY <1>1, <2>3 DEF RemoveFile
    <2>4. CASE \E k \in Key : RemoveTemp(c, k)
      BY <1>1, <2>4 DEF RemoveTemp
    <2>5. QED  BY <2>1, <2>2, <2>3, <2>4 DEF Proceed
  <1>5. /\ Kind' = [Kind EXCEPT ![c] = calls'[c].kind]
        /\ State' = [State EXCEPT ![c] = State'[c]]
        /\ Todo' = [Todo EXCEPT ![c] = Todo'[c]]
        /\ \A d \in Call : d # c => (d \in Refused <=> d \in Refused')
    BY <1>1, <1>4, OneCall
  <1>6. ASSUME calls'[c].kind = calls[c].kind, calls'[c].failed = calls[c].failed
        PROVE  Kind' = Kind /\ Refused' = Refused
    BY <1>1, <1>5, <1>6 DEF Kind, Refused
  <1>7. ASSUME calls[c].state \in {"listing", "removing"}
        PROVE  State[c] = "open" /\ Kind[c] \in Store!Removal /\ Kind[c] # "set"
    BY <1>1, <1>7 DEF State, Kind, Open, Store!Removal, CallState, RowInv, SetsDoNotWait
  <1>8. CASE List(c)
    <2> DEFINE listed == {k \in calls[c].keys : files[k] # None}
               K == calls[c].keys \ listed
    <2>1. /\ calls'[c].kind = calls[c].kind /\ calls'[c].failed = calls[c].failed
          /\ calls[c].state = "listing" /\ calls'[c].state = "removing" /\ calls'[c].left = listed
      BY <1>1, <1>8 DEF List, CallState
    <2>2. Todo[c] = calls[c].keys /\ Todo'[c] = listed /\ State'[c] = "open"
      BY <1>7, <2>1 DEF Todo, State, Open, Kind
    <2>3. K \in SUBSET Key /\ K \subseteq Todo[c] /\ Todo'[c] = Todo[c] \ K
      BY <1>1, <2>2 DEF CallState
    <2>4. files' = [k \in Key |-> IF k \in K THEN Store!None ELSE files[k]]
      BY <1>1, <1>8 DEF List, TypeOK, Store!None, None
    <2>5. State' = State
      BY <1>5, <1>7, <2>1, <2>2 DEF State
    <2> HIDE DEF K
    <2>6. Store!Remove(c, K)
      BY <1>2, <1>3, <1>5, <1>6, <1>7, <2>1, <2>3, <2>4, <2>5 DEF Store!Remove
    <2>7. QED  BY <2>3, <2>6
  <1>9. CASE \E k \in Key : RemoveFile(c, k)
    <2> PICK k \in Key : RemoveFile(c, k)
      BY <1>9
    <2>1. /\ calls'[c].kind = calls[c].kind /\ calls'[c].failed = calls[c].failed
          /\ calls[c].state = "removing" /\ calls'[c].state = "removing"
          /\ calls'[c].left = calls[c].left \ {k} /\ k \in calls[c].left
      BY <1>1 DEF RemoveFile, CallState
    <2>2. Todo[c] = calls[c].left /\ Todo'[c] = calls[c].left \ {k} /\ State'[c] = "open"
      BY <1>7, <2>1 DEF Todo, State, Open, Kind
    <2>3. files' = [j \in Key |-> IF j \in {k} THEN Store!None ELSE files[j]]
      BY <1>1 DEF RemoveFile, TypeOK, Store!None, None
    <2>4. State' = State
      BY <1>5, <1>7, <2>1, <2>2 DEF State
    <2>5. Store!Remove(c, {k})
      BY <1>2, <1>3, <1>5, <1>6, <1>7, <2>1, <2>2, <2>3, <2>4 DEF Store!Remove
    <2>6. QED  BY <2>5
  <1>10. CASE \E k \in Key : RemoveTemp(c, k)
    <2>1. /\ calls'[c].kind = calls[c].kind /\ calls'[c].failed = calls[c].failed
          /\ calls'[c].state = calls[c].state /\ calls'[c].left = calls[c].left
          /\ calls'[c].keys = calls[c].keys
      BY <1>1, <1>10 DEF RemoveTemp, CallState
    <2>2. State'[c] = State[c] /\ Todo'[c] = Todo[c]
      BY <2>1 DEF State, Todo, Open
    <2>3. State' = State /\ Todo' = Todo
      BY <1>5, <2>2 DEF State, Todo
    <2>4. files' = files
      BY <1>10 DEF RemoveTemp
    <2>5. QED  BY <1>2, <1>3, <1>6, <2>1, <2>3, <2>4 DEF Store!kvars
  <1>11. CASE Return(c)
    <2>1. /\ calls'[c].kind = calls[c].kind /\ calls'[c].failed = calls[c].failed
          /\ calls[c].state \in {"writing", "waiting", "removing"} /\ calls[c].left = {}
          /\ calls'[c].state = IF calls[c].failed THEN "failed" ELSE "ok"
      BY <1>1, <1>11 DEF Return, CallState
    <2>2. State[c] = "open" /\ State'[c] = calls'[c].state /\ Todo'[c] = {}
      BY <2>1 DEF State, Todo, Open
    <2>3. \A k \in Key : c \notin Store!Waiting(k)
      <3> SUFFICES ASSUME NEW k \in Key, NEW n \in DOMAIN Pending[k], Pending[k][n] = c PROVE FALSE
        BY DEF Store!Waiting
      <3>1. \E m \in DOMAIN writers[k] : writers[k][m] = c
        <4>1. CASE phase[k] = "written"
          BY <1>1, <4>1, FirstWriter DEF Pending, TypeOK
        <4>2. CASE phase[k] # "written"
          BY <4>2 DEF Pending
        <4>3. QED  BY <4>1, <4>2
      <3>2. k \in calls[c].left
        BY <3>1 DEF RowInv, InRow
      <3>3. QED  BY <2>1, <3>2
    <2>4. ~calls[c].failed => Todo[c] = {}
      <3>1. ~calls[c].failed => calls[c].state # "waiting"
        BY <2>1 DEF RowInv, WaitsOrFailed
      <3>2. calls[c].state = "writing" => calls[c].kind = "set"
        BY DEF RowInv, SetsDoNotWait
      <3>3. QED  BY <2>1, <3>1, <3>2 DEF Todo
    <2>5. (c \in Refused <=> calls[c].failed) /\ files' = files
      BY <1>11 DEF Refused, Return
    <2>6. State' = [State EXCEPT ![c] = IF calls[c].failed THEN "failed" ELSE "ok"]
          /\ Todo' = [Todo EXCEPT ![c] = {}]
      BY <1>5, <2>1, <2>2
    <2>7. Store!Answer(c)
      BY <1>2, <1>3, <1>6, <2>1, <2>2, <2>3, <2>4, <2>5, <2>6 DEF Store!Answer
    <2>8. QED  BY <2>7
  <1>12. QED  BY <1>8, <1>9, <1>10, <1>11 DEF Proceed

LEMMA NextStore == ASSUME RowInv, [Next]_vars PROVE [Store!Next]_(Store!kvars)
  <1>0. TypeOK
    BY DEF RowInv
  <1>1. CASE \E K \in SUBSET Key \ {{}} : Set(K)
    BY <1>1, SetStore DEF Store!Next
  <1>2. CASE \E K \in SUBSET Key \ {{}} : ClearAll(K)
    <2> PICK K \in SUBSET Key : Removes("clear", K)
      BY <1>2 DEF ClearAll
    <2>1. Store!Invoke("clear", K)
      BY RemovesStore
    <2>2. QED  BY <2>1 DEF Store!Next
  <1>3. CASE \E k \in Key : Delete(k)
    <2> PICK k \in Key : Removes("delete", {k})
      BY <1>3 DEF Delete
    <2>1. Store!Invoke("delete", {k})
      BY RemovesStore
    <2>2. QED  BY <2>1 DEF Store!Next
  <1>4. CASE \E k \in Key : TempWritten(k) \/ WriteRefused(k)
    <2>1. UNCHANGED <<files, writers, called, calls>>
          /\ \A j \in Key : phase'[j] = "written" <=> phase[j] = "written"
      BY <1>0, <1>4 DEF TempWritten, WriteRefused, TypeOK
    <2>2. QED  BY <2>1, PendingStays, CallsStay DEF Store!kvars
  <1>5. CASE \E k \in Key : Renamed(k)
    BY <1>5, RenamedStore DEF Store!Next
  <1>6. CASE \E k \in Key : WriteEnds(k)
    BY <1>6, WriteEndsStore
  <1>7. CASE \E k \in Key : WriteFails(k)
    BY <1>7, WriteFailsStore DEF Store!Next
  <1>8. CASE \E c \in Call : Proceed(c)
    BY <1>8, ProceedStore DEF Store!Next, Store!Call, Call
  <1>9. CASE Crash
    BY <1>9, CrashStore DEF Store!Next
  <1>10. CASE UNCHANGED vars
    <2>1. UNCHANGED <<files, writers, called, calls, phase>>
      BY <1>10 DEF vars
    <2>2. QED  BY <2>1, PendingStays, CallsStay DEF Store!kvars
  <1>11. QED
    BY <1>1, <1>2, <1>3, <1>4, <1>5, <1>6, <1>7, <1>8, <1>9, <1>10 DEF Next, Write

(* Overlapping writes and removals of files take effect one at a time and  *)
(* in order: the file storage is a key-value store.                        *)
THEOREM FilesAreAStore == Spec => ImplementsStore
  <1>1. Init => Store!Init
    BY InitStore
  <1>2. RowInv /\ [Next]_vars => [Store!Next]_(Store!kvars)
    BY NextStore
  <1>3. QED  BY <1>1, <1>2, RowInvariant, PTL DEF Spec, ImplementsStore, Store!Spec

-----------------------------------------------------------------------------
(* Removals are final. *)

(* A removal that begins its round with at most so many older writes ahead *)
(* of it as rounds are left finds none of them when it goes on.            *)
LEMMA RoundFinal ==
    ASSUME TypeOK', NEW c \in Call, NEW k \in Key, NEW mid \in CallState,
           NEW busy \in SUBSET Key,
           k \in mid.keys, mid.ahead[k] <= MaxRounds,
           Looked(mid, calls'[c], busy), k \notin busy => writers'[k] = <<>>,
           \A n \in DOMAIN writers'[k] :
               writers'[k][n] # c /\ (writers'[k][n] < c => n + mid.rounds <= mid.ahead[k])
    PROVE  FinalFor(c, k)'
  <1>1. /\ DOMAIN writers'[k] \subseteq Nat \ {0}
        /\ \A n \in DOMAIN writers'[k] : writers'[k][n] \in Nat
    <2>1. writers'[k] \in Seq(Call) /\ Len(writers'[k]) \in Nat
      BY LenProperties DEF TypeOK
    <2>2. DOMAIN writers'[k] = 1 .. Len(writers'[k])
      BY <2>1, LenProperties
    <2>3. \A n \in DOMAIN writers'[k] : writers'[k][n] \in Call
      BY <2>1, <2>2, ElementOfSeq
    <2>4. QED  BY <2>1, <2>2, <2>3, DiskStorageAssumption DEF Call
  <1>2. /\ c \in Nat /\ mid.rounds \in Nat /\ mid.ahead[k] \in Nat /\ k \in Scope(mid)
        /\ calls'[c].ahead = mid.ahead /\ calls'[c].rounds = mid.rounds
        /\ MaxRounds \in Nat
    BY DiskStorageAssumption DEF CallState, Call, Scope, Looked
  <1>3. CASE calls'[c].state = "waiting" /\ calls'[c].left = Scope(mid) \cap busy
    <2>1. CASE k \in busy
      <3>1. k \in calls'[c].left
        BY <1>2, <1>3, <2>1
      <3>2. CountedDown(c, k)'
        BY <1>1, <1>2, <3>1 DEF CountedDown
      <3>3. QED  BY <1>3, <3>2 DEF FinalFor
    <2>2. CASE k \notin busy
      BY <1>3, <2>2 DEF FinalFor, CountedDown
    <2>3. QED  BY <2>1, <2>2
  <1>4. CASE /\ Scope(mid) \cap busy = {} \/ mid.rounds = MaxRounds
             /\ calls'[c].state = "listing"
                \/ (calls'[c].state = "removing" /\ calls'[c].left = mid.keys)
    <2>1. NoneOlder(c, k)'
      <3>1. CASE k \notin busy
        BY <3>1 DEF NoneOlder
      <3>2. CASE mid.rounds = MaxRounds
        BY <1>1, <1>2, <3>2 DEF NoneOlder
      <3>3. QED  BY <1>2, <1>4, <3>1, <3>2
    <2>2. QED  BY <1>4, <2>1 DEF FinalFor
  <1>5. QED  BY <1>3, <1>4 DEF Looked

(* A removal is not the write of a file. *)
LEMMA NotWriting ==
    ASSUME RowInv, NEW c \in Call, calls[c].kind # "set", NEW k \in Key, NEW n \in DOMAIN writers[k]
    PROVE  /\ n \in Nat \ {0} /\ writers[k][n] \in Nat /\ writers[k][n] # c
           /\ c \in Nat /\ calls[c].rounds \in Nat /\ calls[c].ahead[k] \in Nat
  <1>1. TypeOK
    BY DEF RowInv
  <1>2. writers[k][n] \in Call /\ n \in Nat \ {0} /\ calls[c] \in CallState
    BY <1>1, InWriters DEF TypeOK
  <1>3. QED  BY <1>2, DiskStorageAssumption DEF RowInv, InRow, CallState, Call

LEMMA InitFinal == Init => FinalInv
  BY DEF Init, FinalInv, NewCall

(* What leaves a call alone, and only removes or appends newer writes of   *)
(* its files, keeps what is known of it.                                   *)
LEMMA FinalStays ==
    ASSUME RowInv, TypeOK', NEW c \in Call, NEW k \in Key, calls[c].kind # "set",
           FinalFor(c, k), calls'[c] = calls[c],
           Gone(c, k) => Gone(c, k)',
           \A n \in DOMAIN writers'[k] :
               \/ n \in DOMAIN writers[k] /\ writers'[k][n] = writers[k][n]
               \/ writers'[k][n] > c /\ writers'[k][n] \in Nat
    PROVE  FinalFor(c, k)'
  <1>1. CountedDown(c, k) => CountedDown(c, k)'
    <2> SUFFICES ASSUME CountedDown(c, k), NEW n \in DOMAIN writers'[k], writers'[k][n] < c
                 PROVE n + calls[c].rounds + (IF k \in calls[c].left THEN 0 ELSE 1)
                           <= calls[c].ahead[k]
      BY DEF CountedDown
    <2>1. c \in Nat
      BY DiskStorageAssumption DEF Call
    <2>2. n \in DOMAIN writers[k] /\ writers'[k][n] = writers[k][n]
      BY <2>1
    <2>3. QED  BY <2>2 DEF CountedDown
  <1>2. NoneOlder(c, k) => NoneOlder(c, k)'
    BY DEF NoneOlder
  <1>3. QED  BY <1>1, <1>2 DEF FinalFor

LEMMA SetFinal == ASSUME IInv, NEW K \in SUBSET Key, Set(K) PROVE FinalInv'
  <1>1. RowInv /\ FinalInv /\ TypeOK /\ TypeOK' /\ called \in Nat /\ called + 1 \in Call
    <2>1. RowInv /\ FinalInv /\ TypeOK /\ TypeOK'
      BY SetType DEF IInv, RowInv
    <2>2. QED  BY <2>1, DiskStorageAssumption DEF Set, TypeOK, Call
  <1> SUFFICES ASSUME NEW c \in Call, calls'[c].kind # "set", NEW k \in calls'[c].keys,
                      calls'[c].ahead[k] <= MaxRounds
               PROVE FinalFor(c, k)'
    BY DEF FinalInv
  <1>2. c # called + 1 /\ calls'[c] = calls[c]
    <2>1. calls'[called + 1].kind = "set"
      BY <1>1 DEF Set, NewCall, TypeOK
    <2>2. QED  BY <1>1, <2>1 DEF Set, TypeOK
  <1>3. k \in Key /\ FinalFor(c, k) /\ calls[c].kind # "set"
    BY <1>1, <1>2 DEF FinalInv, TypeOK, CallState
  <1>4. c < called + 1
    <2>1. calls[c] # NewCall
      BY <1>3 DEF NewCall
    <2>2. ~(c > called) /\ c \in Nat
      BY <1>1, <2>1, DiskStorageAssumption DEF RowInv, Uncalled, Call
    <2>3. QED  BY <1>1, <2>2
  <1>5. \A n \in DOMAIN writers'[k] :
               \/ n \in DOMAIN writers[k] /\ writers'[k][n] = writers[k][n]
               \/ writers'[k][n] > c /\ writers'[k][n] \in Nat
    <2>1. CASE k \notin K
      BY <1>3, <2>1 DEF Set
    <2>2. CASE k \in K
      <3>1. writers'[k] = Append(writers[k], called + 1)
        BY <1>3, <2>2 DEF Set, Queued
      <3>2. \A n \in DOMAIN Append(writers[k], called + 1) :
                \/ n \in DOMAIN writers[k] /\ Append(writers[k], called + 1)[n] = writers[k][n]
                \/ Append(writers[k], called + 1)[n] = called + 1
        BY <1>1, <1>3, InWriters, AppendProperties
      <3>3. QED  BY <1>1, <1>4, <3>1, <3>2
    <2>3. QED  BY <2>1, <2>2
  <1>6. files' = files
    BY DEF Set
  <1>7. Gone(c, k) => Gone(c, k)'
    BY <1>6 DEF Gone
  <1>8. QED  BY <1>1, <1>2, <1>3, <1>5, <1>7, FinalStays

(* Steps that write files, or none. *)
LEMMA FilesFinal ==
    ASSUME IInv, TypeOK', calls' = calls, writers' = writers,
           \A k \in Key : \/ files'[k] = files[k]
                          \/ writers[k] # <<>> /\ files'[k] = Head(writers[k])
    PROVE  FinalInv'
  <1>1. RowInv /\ FinalInv /\ TypeOK
    BY DEF IInv, RowInv
  <1> SUFFICES ASSUME NEW c \in Call, calls[c].kind # "set", NEW k \in calls[c].keys,
                      calls[c].ahead[k] <= MaxRounds
               PROVE FinalFor(c, k)'
    BY DEF FinalInv
  <1>2. k \in Key /\ FinalFor(c, k)
    BY <1>1 DEF FinalInv, TypeOK, CallState
  <1>3. NoneOlder(c, k) /\ Gone(c, k) => Gone(c, k)'
    <2>1. CASE files'[k] = files[k]
      BY <2>1 DEF Gone
    <2>2. CASE writers[k] # <<>> /\ files'[k] = Head(writers[k])
      <3>1. \E n \in DOMAIN writers[k] : writers[k][n] = Head(writers[k])
        BY <1>1, <1>2, <2>2, FirstWriter
      <3>2. QED  BY <2>2, <3>1 DEF Gone, NoneOlder
    <2>3. QED  BY <1>2, <2>1, <2>2
  <1>4. QED  BY <1>2, <1>3 DEF FinalFor, CountedDown, NoneOlder

(* The end of a write moves the row of its file up, or empties it. *)
LEMMA NotifiedFinal ==
    ASSUME IInv, TypeOK', NEW k \in Key, NEW done \in SUBSET Call, NEW bad \in BOOLEAN,
           \A c \in done : calls[c].kind = "set",
           calls' = Notified(k, done, bad, {j \in Key : phase'[j] # "idle"}),
           files' = files,
           \A j \in Key : j # k => writers'[j] = writers[j],
           \A n \in DOMAIN writers'[k] :
               n \in Nat /\ n + 1 \in DOMAIN writers[k] /\ writers'[k][n] = writers[k][n + 1]
    PROVE  FinalInv'
  <1> DEFINE busy == {j \in Key : phase'[j] # "idle"}
  <1>1. RowInv /\ FinalInv /\ TypeOK /\ WaitsOrFailed /\ busy \in SUBSET Key
    BY DEF IInv, RowInv
  <1>2. \A j \in Key : j \notin busy => writers'[j] = <<>>
    BY DEF TypeOK
  <1> SUFFICES ASSUME NEW c \in Call, calls'[c].kind # "set", NEW j \in calls'[c].keys,
                      calls'[c].ahead[j] <= MaxRounds
               PROVE FinalFor(c, j)'
    BY DEF FinalInv
  <1>3. calls'[c] = Notified(k, done, bad, busy)[c]
    OBVIOUS
  <1> HIDE DEF busy
  <1>4. /\ c \in done => Ended(calls[c], calls'[c], k, bad)
        /\ c \notin done /\ Hears(c, k) => Heard(calls[c], calls'[c], k, bad, busy)
        /\ c \notin done /\ ~Hears(c, k) => calls'[c] = calls[c]
    BY <1>1, <1>3, NotifiedHears
  <1>5. /\ calls[c] \in CallState /\ c \notin done
        /\ calls'[c].kind = calls[c].kind /\ calls'[c].keys = calls[c].keys
        /\ calls'[c].ahead = calls[c].ahead
    BY <1>1, <1>4 DEF TypeOK, Ended, Heard, Looked
  <1>6. j \in Key /\ FinalFor(c, j) /\ calls[c].kind # "set"
    BY <1>1, <1>5 DEF FinalInv, CallState
  <1>7. /\ c \in Nat /\ calls[c].rounds \in Nat /\ calls[c].ahead[j] \in Nat
        /\ \A n \in DOMAIN writers[j] : n \in Nat \ {0} /\ writers[j][n] \in Nat /\ writers[j][n] # c
    BY <1>1, <1>5, <1>6, NotWriting, DiskStorageAssumption DEF Call, CallState
  <1>8. Gone(c, j) => Gone(c, j)'
    BY DEF Gone
  <1>9. CASE ~Hears(c, k)
    <2>1. calls'[c] = calls[c]
      BY <1>4, <1>5, <1>9
    <2>2. CASE j # k
      <3>1. \A n \in DOMAIN writers'[j] : n \in DOMAIN writers[j] /\ writers'[j][n] = writers[j][n]
        BY <1>6, <2>2
      <3>2. QED  BY <1>1, <1>6, <1>8, <2>1, <3>1, FinalStays
    <2>3. CASE j = k
      <3>1. calls[c].state = "waiting" => k \notin calls[c].left
        BY <1>9 DEF Hears
      <3>2. CountedDown(c, k) /\ k \notin calls[c].left => CountedDown(c, k)'
        <4> SUFFICES ASSUME CountedDown(c, k), k \notin calls[c].left,
                            NEW n \in DOMAIN writers'[k], writers'[k][n] < c
                     PROVE n + calls[c].rounds + 1 <= calls[c].ahead[k]
          BY <2>1 DEF CountedDown
        <4>1. n \in Nat /\ n + 1 \in DOMAIN writers[k] /\ writers[k][n + 1] < c
          OBVIOUS
        <4>2. n + 1 + calls[c].rounds + 1 <= calls[c].ahead[k]
          BY <4>1 DEF CountedDown
        <4>3. QED  BY <1>7, <2>3, <4>1, <4>2
      <3>3. NoneOlder(c, k) => NoneOlder(c, k)'
        BY DEF NoneOlder
      <3>4. QED  BY <1>6, <1>8, <2>1, <2>3, <3>1, <3>2, <3>3 DEF FinalFor
    <2>4. QED  BY <2>2, <2>3
  <1>10. CASE Hears(c, k)
    <2>1. calls[c].state = "waiting" /\ k \in calls[c].left /\ Heard(calls[c], calls'[c], k, bad, busy)
      BY <1>4, <1>5, <1>10 DEF Hears
    <2>2. CASE /\ calls'[c].rounds = calls[c].rounds
               /\ calls'[c].state = calls[c].state /\ calls'[c].left = calls[c].left \ {k}
               /\ calls'[c].failed = (calls[c].failed \/ bad)
      <3>1. CASE calls'[c].failed
        BY <2>1, <2>2, <3>1 DEF FinalFor
      <3>2. CASE ~calls'[c].failed
        <4>1. CountedDown(c, j)
          BY <1>6, <2>1, <2>2, <3>2 DEF FinalFor
        <4>2. CountedDown(c, j)'
          <5> SUFFICES ASSUME NEW n \in DOMAIN writers'[j], writers'[j][n] < c
                       PROVE n + calls[c].rounds + (IF j \in calls[c].left \ {k} THEN 0 ELSE 1)
                                 <= calls[c].ahead[j]
            BY <1>5, <2>2 DEF CountedDown
          <5>1. CASE j # k
            <6>1. n \in DOMAIN writers[j] /\ writers[j][n] < c
              BY <1>6, <5>1
            <6>2. n + calls[c].rounds + (IF j \in calls[c].left THEN 0 ELSE 1) <= calls[c].ahead[j]
              BY <4>1, <6>1 DEF CountedDown
            <6>3. QED  BY <5>1, <6>2
          <5>2. CASE j = k
            <6>1. n \in Nat /\ n + 1 \in DOMAIN writers[k] /\ writers[k][n + 1] < c
              BY <5>2
            <6>2. n + 1 + calls[c].rounds + 0 <= calls[c].ahead[k]
              BY <2>1, <4>1, <5>2, <6>1 DEF CountedDown
            <6>3. QED  BY <1>7, <5>2, <6>1, <6>2
          <5>3. QED  BY <5>1, <5>2
        <4>3. QED  BY <2>1, <2>2, <4>2 DEF FinalFor
      <3>3. QED  BY <3>1, <3>2
    <2>3. ASSUME calls[c].left \subseteq {k}, ~calls[c].failed,
                 NEW mid \in CallState, mid.kind = calls[c].kind, mid.keys = calls[c].keys,
                 mid.ahead = calls[c].ahead, mid.rounds = calls[c].rounds + 1,
                 Looked(mid, calls'[c], busy)
          PROVE  FinalFor(c, j)'
      <3>1. CountedDown(c, j)
        BY <1>6, <2>1, <2>3 DEF FinalFor
      <3>2. \A n \in DOMAIN writers'[j] :
                writers'[j][n] # c /\ (writers'[j][n] < c => n + mid.rounds <= mid.ahead[j])
        <4> SUFFICES ASSUME NEW n \in DOMAIN writers'[j]
                     PROVE /\ writers'[j][n] # c
                           /\ writers'[j][n] < c => n + (calls[c].rounds + 1) <= calls[c].ahead[j]
          BY <2>3
        <4>1. CASE j # k
          <5>1. n \in DOMAIN writers[j] /\ writers[j][n] = writers'[j][n] /\ j \notin calls[c].left
            BY <1>6, <2>3, <4>1
          <5>2. writers[j][n] < c => n + calls[c].rounds + 1 <= calls[c].ahead[j]
            BY <3>1, <5>1 DEF CountedDown
          <5>3. QED  BY <1>7, <5>1, <5>2
        <4>2. CASE j = k
          <5>1. n \in Nat /\ n + 1 \in DOMAIN writers[k] /\ writers'[k][n] = writers[k][n + 1]
            BY <4>2
          <5>2. writers[k][n + 1] < c => n + 1 + calls[c].rounds + 0 <= calls[c].ahead[k]
            BY <2>1, <3>1, <4>2, <5>1 DEF CountedDown
          <5>3. QED  BY <1>7, <4>2, <5>1, <5>2
        <4>3. QED  BY <4>1, <4>2
      <3>3. busy \in SUBSET Key /\ (j \notin busy => writers'[j] = <<>>)
        BY <1>1, <1>2, <1>6
      <3>4. j \in mid.keys /\ mid.ahead[j] <= MaxRounds
        BY <1>5, <2>3
      <3>5. QED  BY <1>6, <2>3, <3>2, <3>3, <3>4, RoundFinal
    <2>4. QED  BY <2>1, <2>2, <2>3 DEF Heard
  <1>11. QED  BY <1>9, <1>10

LEMMA WriteEndsFinal == ASSUME IInv, NEW k \in Key, WriteEnds(k) PROVE FinalInv'
  <1> DEFINE h == Head(writers[k])
  <1>1. RowInv /\ TypeOK /\ TypeOK' /\ writers[k] # <<>>
    BY WriteEndsType DEF IInv, RowInv, WriteEnds, TypeOK
  <1>2. h \in Call /\ calls[h].kind = "set"
    BY <1>1, FirstWriter, InWriters DEF RowInv, InRow
  <1>3. \A n \in DOMAIN Tail(writers[k]) :
            n \in Nat /\ n + 1 \in DOMAIN writers[k] /\ Tail(writers[k])[n] = writers[k][n + 1]
    BY <1>1, FirstWriter
  <1>4. /\ writers' = [writers EXCEPT ![k] = Tail(writers[k])] /\ files' = files
        /\ phase' = [phase EXCEPT ![k] = IF Tail(writers[k]) = <<>> THEN "idle" ELSE "temp"]
    BY DEF WriteEnds
  <1>5. calls' = Notified(k, {h}, FALSE, {j \in Key : phase'[j] # "idle"})
    BY DEF WriteEnds
  <1> HIDE DEF h
  <1>6. /\ writers'[k] = Tail(writers[k])
        /\ \A j \in Key : j # k => writers'[j] = writers[j]
    BY <1>1, <1>4 DEF TypeOK
  <1>7. {h} \in SUBSET Call /\ \A c \in {h} : calls[c].kind = "set"
    BY <1>2
  <1>8. \A n \in DOMAIN writers'[k] :
            n \in Nat /\ n + 1 \in DOMAIN writers[k] /\ writers'[k][n] = writers[k][n + 1]
    BY <1>3, <1>6
  <1>9. files' = files
    BY <1>4
  <1>10. QED  BY <1>1, <1>5, <1>6, <1>7, <1>8, <1>9, NotifiedFinal

LEMMA WriteFailsFinal == ASSUME IInv, NEW k \in Key, WriteFails(k) PROVE FinalInv'
  <1>1. RowInv /\ TypeOK /\ TypeOK'
    BY WriteFailsType DEF IInv, RowInv
  <1>2. Writers(k) \in SUBSET Call /\ \A c \in Writers(k) : calls[c].kind = "set"
    BY <1>1, InWriters DEF Writers, RowInv, InRow
  <1>3. /\ writers' = [writers EXCEPT ![k] = <<>>] /\ phase' = [phase EXCEPT ![k] = "idle"]
        /\ calls' = Notified(k, Writers(k), TRUE, Busy \ {k}) /\ files' = files
    BY DEF WriteFails
  <1>4. Busy \ {k} = {j \in Key : phase'[j] # "idle"}
    BY <1>1, <1>3 DEF Busy, TypeOK
  <1>5. /\ writers'[k] = <<>> /\ DOMAIN writers'[k] = {}
        /\ \A j \in Key : j # k => writers'[j] = writers[j]
    BY <1>1, <1>3 DEF TypeOK
  <1>6. QED  BY <1>1, <1>2, <1>3, <1>4, <1>5, NotifiedFinal

LEMMA RemovesFinal ==
    ASSUME IInv, NEW kind \in {"delete", "clear"}, NEW K \in SUBSET Key, Removes(kind, K)
    PROVE  FinalInv'
  <1> DEFINE call == [NewCall EXCEPT !.kind = kind, !.keys = K,
                                     !.ahead = [k \in Key |-> Len(writers[k])]]
             new == Round(call, Busy)
  <1>1. /\ RowInv /\ FinalInv /\ TypeOK /\ TypeOK' /\ called + 1 \in Call
        /\ called \in Nat
    <2>1. RowInv /\ FinalInv /\ TypeOK /\ TypeOK'
      BY RemovesType DEF IInv, RowInv
    <2>2. QED  BY <2>1, DiskStorageAssumption DEF Removes, TypeOK, Call
  <1>2. /\ call \in CallState /\ call.kind = kind /\ call.keys = K /\ call.rounds = 0
        /\ \A k \in Key : call.ahead[k] = Len(writers[k])
    <2>1. \A k \in Key : Len(writers[k]) \in Nat
      BY <1>1, InWriters
    <2>2. QED  BY <2>1, NewCallType DEF CallState, NewCall
  <1>3. Looked(call, new, Busy) /\ Busy \in SUBSET Key
    <2> HIDE DEF call
    <2> QED  BY <1>2, RoundLooks DEF Busy
  <1>4. calls' = [calls EXCEPT ![called + 1] = new]
    BY DEF Removes
  <1> HIDE DEF new, call
  <1>5. \A d \in Call : calls'[d] = IF d = called + 1 THEN new ELSE calls[d]
    BY <1>1, <1>4 DEF TypeOK
  <1>6. writers' = writers /\ files' = files
    BY DEF Removes
  <1> SUFFICES ASSUME NEW c \in Call, calls'[c].kind # "set", NEW k \in calls'[c].keys,
                      calls'[c].ahead[k] <= MaxRounds
               PROVE FinalFor(c, k)'
    BY DEF FinalInv
  <1>7. CASE c # called + 1
    <2>1. calls'[c] = calls[c]
      BY <1>5, <1>7
    <2>2. k \in Key /\ FinalFor(c, k)
      BY <1>1, <2>1 DEF FinalInv, TypeOK, CallState
    <2>3. QED  BY <1>6, <2>1, <2>2 DEF FinalFor, CountedDown, NoneOlder, Gone
  <1>8. CASE c = called + 1
    <2>1. calls'[c] = new /\ k \in K /\ call.ahead[k] <= MaxRounds
      BY <1>2, <1>3, <1>5, <1>8 DEF Looked
    <2>2. k \notin Busy => writers'[k] = <<>>
      BY <1>1, <1>6, <2>1 DEF Busy, TypeOK
    <2>3. \A n \in DOMAIN writers'[k] :
              writers'[k][n] # c /\ (writers'[k][n] < c => n + call.rounds <= call.ahead[k])
      <3> SUFFICES ASSUME NEW n \in DOMAIN writers[k]
                   PROVE writers[k][n] # c /\ n + 0 <= Len(writers[k])
        BY <1>2, <1>6, <2>1
      <3>1. writers[k][n] <= called /\ writers[k][n] \in Nat
        BY <1>1, <2>1, InWriters, DiskStorageAssumption DEF RowInv, InRow, Call
      <3>2. n \in 1 .. Len(writers[k]) /\ Len(writers[k]) \in Nat
        BY <1>1, <2>1, InWriters
      <3>3. QED  BY <1>1, <1>8, <3>1, <3>2
    <2>4. k \in call.keys /\ Looked(call, calls'[c], Busy)
      BY <1>2, <1>3, <2>1
    <2>5. QED  BY <1>1, <1>2, <1>3, <2>1, <2>2, <2>3, <2>4, RoundFinal
  <1>9. QED  BY <1>7, <1>8

LEMMA ProceedFinal == ASSUME IInv, NEW c \in Call, Proceed(c) PROVE FinalInv'
  <1>1. RowInv /\ FinalInv /\ TypeOK /\ TypeOK'
    BY ProceedType DEF IInv, RowInv
  <1>2. calls[c] \in CallState /\ calls \in [Call -> CallState] /\ files \in [Key -> Call \cup {None}]
    BY <1>1 DEF TypeOK
  <1>3. writers' = writers
    BY DEF Proceed, List, Return, RemoveFile, RemoveTemp
  <1>4. \A k \in Key : files'[k] = files[k] \/ files'[k] = None
    <2>1. CASE \E k \in Key : RemoveFile(c, k)
      BY <1>2, <2>1 DEF RemoveFile
    <2>2. CASE List(c) \/ Return(c) \/ \E k \in Key : RemoveTemp(c, k)
      BY <2>2 DEF List, Return, RemoveTemp
    <2>3. QED  BY <2>1, <2>2 DEF Proceed
  <1> SUFFICES ASSUME NEW d \in Call, calls'[d].kind # "set", NEW k \in calls'[d].keys,
                      calls'[d].ahead[k] <= MaxRounds
               PROVE FinalFor(d, k)'
    BY DEF FinalInv
  <1>5. calls'[d].kind = calls[d].kind /\ calls'[d].keys = calls[d].keys /\ calls'[d].ahead = calls[d].ahead
        /\ (d # c => calls'[d] = calls[d])
    <2>1. CASE List(c)
      BY <1>2, <2>1 DEF List, CallState
    <2>2. CASE Return(c)
      BY <1>2, <2>2 DEF Return, CallState
    <2>3. CASE \E j \in Key : RemoveFile(c, j)
      BY <1>2, <2>3 DEF RemoveFile, CallState
    <2>4. CASE \E j \in Key : RemoveTemp(c, j)
      BY <1>2, <2>4 DEF RemoveTemp, CallState
    <2>5. QED  BY <2>1, <2>2, <2>3, <2>4 DEF Proceed
  <1>6. k \in Key /\ FinalFor(d, k) /\ calls[d].kind # "set"
    <2>1. calls[d] \in CallState
      BY <1>2
    <2>2. QED  BY <1>1, <1>5, <2>1 DEF FinalInv, CallState
  <1>7. /\ Gone(d, k) => Gone(d, k)'
        /\ NoneOlder(d, k) => NoneOlder(d, k)'
    BY <1>3, <1>4, <1>6 DEF Gone, NoneOlder
  <1>8. CASE d # c
    <2>1. CountedDown(d, k) => CountedDown(d, k)'
      BY <1>3, <1>5, <1>8 DEF CountedDown
    <2>2. QED  BY <1>5, <1>6, <1>7, <1>8, <2>1 DEF FinalFor
  <1>9. CASE d = c
    <2>1. CASE List(c)
      <3>1. /\ calls[c].state = "listing" /\ calls'[c].state = "removing"
            /\ calls'[c].left = {j \in calls[c].keys : files[j] # None} /\ files' = files
        BY <1>2, <2>1 DEF List, CallState
      <3>2. k \notin calls'[c].left => Gone(c, k)'
        BY <1>5, <1>9, <3>1 DEF Gone
      <3>3. QED  BY <1>6, <1>7, <1>9, <3>1, <3>2 DEF FinalFor
    <2>2. CASE Return(c)
      <3>1. /\ calls[c].state \in {"writing", "waiting", "removing"} /\ calls[c].left = {}
            /\ calls'[c].state = IF calls[c].failed THEN "failed" ELSE "ok"
        BY <1>2, <2>2 DEF Return, CallState
      <3>2. CASE calls[c].failed
        BY <1>9, <3>1, <3>2 DEF FinalFor
      <3>3. CASE ~calls[c].failed
        <4>1. calls[c].state = "removing"
          BY <1>1, <1>6, <1>9, <3>1, <3>3 DEF RowInv, WaitsOrFailed, SetsDoNotWait
        <4>2. QED  BY <1>6, <1>7, <1>9, <3>1, <3>3, <4>1 DEF FinalFor
      <3>4. QED  BY <3>2, <3>3
    <2>3. CASE \E j \in Key : RemoveFile(c, j)
      <3> PICK j \in Key : RemoveFile(c, j)
        BY <2>3
      <3>1. /\ calls[c].state = "removing" /\ calls'[c].state = "removing"
            /\ calls'[c].left = calls[c].left \ {j} /\ files'[j] = None
        BY <1>2 DEF RemoveFile, CallState
      <3>2. k \notin calls'[c].left => Gone(c, k)'
        <4>1. CASE j = k
          BY <3>1, <4>1 DEF Gone
        <4>2. CASE j # k
          BY <1>6, <1>7, <1>9, <3>1, <4>2 DEF FinalFor
        <4>3. QED  BY <4>1, <4>2
      <3>3. QED  BY <1>6, <1>7, <1>9, <3>1, <3>2 DEF FinalFor
    <2>4. CASE \E j \in Key : RemoveTemp(c, j)
      <3>1. calls[c].state = "removing" /\ calls'[c].state = "removing" /\ calls'[c].left = calls[c].left
        BY <1>2, <2>4 DEF RemoveTemp, CallState
      <3>2. QED  BY <1>6, <1>7, <1>9, <3>1 DEF FinalFor
    <2>5. QED  BY <2>1, <2>2, <2>3, <2>4 DEF Proceed
  <1>10. QED  BY <1>8, <1>9

LEMMA CrashFinal == ASSUME IInv, Crash PROVE FinalInv'
  <1>1. RowInv /\ FinalInv /\ TypeOK
    BY DEF IInv, RowInv
  <1> SUFFICES ASSUME NEW c \in Call, calls'[c].kind # "set", NEW k \in calls'[c].keys,
                      calls'[c].ahead[k] <= MaxRounds
               PROVE FinalFor(c, k)'
    BY DEF FinalInv
  <1>2. calls[c] \in CallState
    BY <1>1 DEF TypeOK
  <1>3. calls'[c] = IF Open(c) THEN [calls[c] EXCEPT !.state = "lost"] ELSE calls[c]
    BY DEF Crash
  <1>4. calls'[c].kind = calls[c].kind /\ calls'[c].keys = calls[c].keys /\ calls'[c].ahead = calls[c].ahead
    BY <1>2, <1>3 DEF CallState
  <1>5. k \in Key /\ FinalFor(c, k)
    BY <1>1, <1>2, <1>4 DEF FinalInv, CallState
  <1>6. NoneOlder(c, k)' /\ files' = files
    BY <1>5 DEF Crash, NoneOlder
  <1>7. /\ calls'[c].state \notin {"waiting", "listing", "removing"}
        /\ calls'[c].state = "ok" => calls[c].state = "ok"
    BY <1>2, <1>3 DEF Open, CallState
  <1>8. QED  BY <1>5, <1>6, <1>7 DEF FinalFor, Gone

LEMMA NextFinal == ASSUME IInv, [Next]_vars PROVE FinalInv'
  <1>0. RowInv /\ TypeOK /\ TypeOK'
    BY NextType DEF IInv, RowInv
  <1>1. CASE \E K \in SUBSET Key \ {{}} : Set(K)
    BY <1>1, SetFinal
  <1>2. CASE \E K \in SUBSET Key \ {{}} : ClearAll(K)
    BY <1>2, RemovesFinal DEF ClearAll
  <1>3. CASE \E k \in Key : Delete(k)
    BY <1>3, RemovesFinal DEF Delete
  <1>4. CASE \E k \in Key : TempWritten(k) \/ WriteRefused(k)
    <2>1. UNCHANGED <<files, writers, calls>>
      BY <1>4 DEF TempWritten, WriteRefused
    <2>2. QED  BY <1>0, <2>1, FilesFinal
  <1>5. CASE \E k \in Key : Renamed(k)
    <2> PICK k \in Key : Renamed(k)
      BY <1>5
    <2>1. writers' = writers /\ calls' = calls /\ writers[k] # <<>>
          /\ (files' = files \/ files' = [files EXCEPT ![k] = Head(writers[k])])
      BY <1>0 DEF Renamed, TypeOK
    <2>2. \A j \in Key : \/ files'[j] = files[j]
                         \/ writers[j] # <<>> /\ files'[j] = Head(writers[j])
      BY <1>0, <2>1 DEF TypeOK
    <2>3. QED  BY <1>0, <2>1, <2>2, FilesFinal
  <1>6. CASE \E k \in Key : WriteEnds(k)
    BY <1>6, WriteEndsFinal
  <1>7. CASE \E k \in Key : WriteFails(k)
    BY <1>7, WriteFailsFinal
  <1>8. CASE \E c \in Call : Proceed(c)
    BY <1>8, ProceedFinal
  <1>9. CASE Crash
    BY <1>9, CrashFinal
  <1>10. CASE UNCHANGED vars
    <2>1. UNCHANGED <<files, writers, calls>>
      BY <1>10 DEF vars
    <2>2. QED  BY <1>0, <2>1, FilesFinal
  <1>11. QED
    BY <1>1, <1>2, <1>3, <1>4, <1>5, <1>6, <1>7, <1>8, <1>9, <1>10 DEF Next, Write

(* After delete() or clearAll() was answered nothing stays that was set    *)
(* before it, as long as no more than ten writes of a file were ahead.     *)
THEOREM RemovalsAreFinal == Spec => []RemovalIsFinal
  <1>1. Init => IInv
    BY InitRow, InitFinal DEF IInv
  <1>2. IInv /\ [Next]_vars => IInv'
    BY NextRow, NextFinal DEF IInv
  <1>3. IInv => RemovalIsFinal
    BY DEF IInv, FinalInv, FinalFor, Gone, RemovalIsFinal
  <1>4. QED  BY <1>1, <1>2, <1>3, PTL DEF Spec

-----------------------------------------------------------------------------
(* Calls fail for a reason, as long as the operating system refuses        *)
(* nothing and the process does not end.                                   *)

Waits(c) == calls[c].state = "waiting" /\ ~calls[c].failed

LeftBusy == \A c \in Call : calls[c].state = "waiting" => calls[c].left \subseteq Busy

(* Only clearAll() lists files, and it removes only temporary files of its *)
(* own keys.                                                               *)
Listed ==
    \A c \in Call :
        /\ calls[c].state = "listing" => calls[c].kind = "clear"
        /\ calls[c].temps \subseteq calls[c].keys
        /\ calls[c].temps # {} => calls[c].kind = "clear"

(* A clearAll() waits for every write: it is not done with a round before  *)
(* a removal that was called before it, and goes on no earlier.            *)
NotOvertaken ==
    \A c, d \in Call : c < d /\ Waits(c) /\ calls[d].kind = "clear" =>
        /\ calls[d].state \notin {"listing", "removing"}
        /\ Waits(d) => /\ calls[c].rounds >= calls[d].rounds
                       /\ calls[c].rounds = calls[d].rounds => calls[c].left \subseteq calls[d].left

(* A write that lost its temporary file has somebody to blame: a clearAll() *)
(* with too many writes ahead of it, or called before all that will fail.  *)
Damaged(k) == (phase[k] = "rename" /\ k \notin temps) \/ phase[k] = "refused"
Over(d) == \E k \in Key : calls[d].ahead[k] > MaxRounds
Before(d, k) ==
    /\ \A n \in DOMAIN writers[k] : d < writers[k][n]
    /\ \A c \in Call : Waits(c) => d < c
Blamed ==
    \A k \in Key : Damaged(k) => \E d \in Call : calls[d].kind = "clear" /\ (Over(d) \/ Before(d, k))

HasCause(c) ==
    \E d \in Call : calls[d].kind = "clear" /\ (d < c \/ \E k \in Key : calls[d].ahead[k] > MaxRounds)

Undisturbed ==
    LeftBusy /\ Listed /\ NotOvertaken /\ Blamed /\ \A c \in Call : calls[c].failed => HasCause(c)

CauseInv == faults = 0 => Undisturbed

(* The end of a write leaves the temporary files to be removed alone. *)
LEMMA NotifiedTemps ==
    ASSUME TypeOK, NEW k, NEW done, NEW bad, NEW busy, NEW c \in Call
    PROVE  Notified(k, done, bad, busy)[c].temps = calls[c].temps
  <1>1. calls[c] \in CallState
    BY DEF TypeOK
  <1>2. \A call \in CallState : Round([call EXCEPT !.rounds = @ + 1], busy).temps = call.temps
    BY DEF Round, CallState
  <1> DEFINE heard == [calls[c] EXCEPT !.left = @ \ {k}, !.failed = @ \/ bad]
  <1>3. heard.temps = calls[c].temps
    BY <1>1 DEF CallState
  <1>4. Waited(calls[c], k, bad, busy).temps = calls[c].temps
    <2>1. Round([heard EXCEPT !.rounds = @ + 1], busy).temps = heard.temps
      BY <1>1 DEF Round, CallState
    <2> HIDE DEF heard
    <2>2. Waited(calls[c], k, bad, busy) \in {heard, Round([heard EXCEPT !.rounds = @ + 1], busy)}
      BY DEF Waited, heard
    <2> QED  BY <1>3, <2>1, <2>2
  <1> QED  BY <1>3, <1>4 DEF Notified

(* What does not add to those who wait, nor to their rounds, keeps all.    *)
LEMMA CauseKept ==
    ASSUME Undisturbed, TypeOK,
           \A c \in Call :
               /\ Waits(c)' => calls'[c] = calls[c]
               /\ calls'[c].state = "waiting" => calls'[c].state = calls[c].state
                                                 /\ calls'[c].left = calls[c].left
               /\ calls'[c].kind = calls[c].kind /\ calls'[c].ahead = calls[c].ahead
               /\ calls'[c].failed <=> calls[c].failed
               /\ calls'[c].state \in {"listing", "removing"} => calls[c].state \in {"listing", "removing"},
           Busy \subseteq Busy', Listed',
           \A k \in Key : Damaged(k)' =>
               /\ writers'[k] = writers[k]
               /\ \E d \in Call : calls[d].kind = "clear" /\ (Over(d) \/ Before(d, k))
    PROVE  Undisturbed'
  <1>1. LeftBusy'
    BY DEF Undisturbed, LeftBusy
  <1>2. NotOvertaken'
    <2> SUFFICES ASSUME NEW c \in Call, NEW d \in Call, c < d, Waits(c)', calls'[d].kind = "clear"
                 PROVE  /\ calls'[d].state \notin {"listing", "removing"}
                        /\ Waits(d)' => /\ calls'[c].rounds >= calls'[d].rounds
                                        /\ calls'[c].rounds = calls'[d].rounds =>
                                              calls'[c].left \subseteq calls'[d].left
      BY DEF NotOvertaken
    <2>1. calls'[c] = calls[c] /\ Waits(c) /\ calls[d].kind = "clear"
      BY DEF Waits
    <2>2. Waits(d)' => calls'[d] = calls[d] /\ Waits(d)
      BY DEF Waits
    <2> QED  BY <2>1, <2>2 DEF Undisturbed, NotOvertaken
  <1>3. Blamed'
    <2> SUFFICES ASSUME NEW k \in Key, Damaged(k)'
                 PROVE  \E d \in Call : calls'[d].kind = "clear" /\ (Over(d)' \/ Before(d, k)')
      BY DEF Blamed
    <2>1. PICK d \in Call : calls[d].kind = "clear" /\ (Over(d) \/ Before(d, k))
      OBVIOUS
    <2>2. calls'[d].kind = "clear"
      BY <2>1
    <2>3. Over(d) => Over(d)'
      BY DEF Over
    <2>4. Before(d, k) => Before(d, k)'
      BY DEF Before, Waits
    <2> QED  BY <2>1, <2>2, <2>3, <2>4
  <1>4. \A c \in Call : calls'[c].failed => HasCause(c)'
    BY DEF Undisturbed, HasCause
  <1> QED  BY <1>1, <1>2, <1>3, <1>4 DEF Undisturbed

LEMMA InitCause == Init => CauseInv
  <1> SUFFICES ASSUME Init PROVE Undisturbed
    BY DEF CauseInv
  <1>1. /\ \A c \in Call : /\ calls[c].state = "new" /\ calls[c].kind = "set"
                           /\ calls[c].temps = {} /\ calls[c].keys = {} /\ ~calls[c].failed
        /\ \A k \in Key : phase[k] = "idle"
    BY DEF Init, NewCall
  <1> QED
    BY <1>1 DEF Undisturbed, LeftBusy, Listed, NotOvertaken, Waits, Blamed, Damaged

(* The steps of a write before it ends.                                    *)
LEMMA WriteCause ==
    ASSUME RowInv, Undisturbed, TypeOK', NEW k \in Key, TempWritten(k) \/ Renamed(k)
    PROVE  Undisturbed'
  <1>0. TypeOK
    BY DEF RowInv
  <1>1. calls' = calls /\ writers' = writers
    BY DEF TempWritten, Renamed
  <1>2. \A c \in Call : Waits(c)' <=> Waits(c)
    BY <1>1 DEF Waits
  <1>3. Listed' /\ Busy \subseteq Busy'
    BY <1>0, <1>1 DEF Undisturbed, Listed, Busy, TempWritten, Renamed, TypeOK
  <1>4. \A j \in Key : Damaged(j)' => Damaged(j)
    BY <1>0 DEF Damaged, TempWritten, Renamed, TypeOK
  <1>5. \A j \in Key : Damaged(j)' =>
            \E d \in Call : calls[d].kind = "clear" /\ (Over(d) \/ Before(d, j))
    BY <1>4 DEF Undisturbed, Blamed
  <1> QED  BY <1>0, <1>1, <1>2, <1>3, <1>5, CauseKept

(* A removal that takes away the temporary file of a write under way was   *)
(* called before all that still wait for it.                               *)
LEMMA ProceedCause ==
    ASSUME RowInv, FinalInv, Undisturbed, TypeOK', NEW x \in Call, Proceed(x)
    PROVE  Undisturbed'
  <1>0. TypeOK /\ calls[x] \in CallState /\ calls \in [Call -> CallState]
    BY DEF RowInv, TypeOK
  <1>1. /\ \A c \in Call : c # x => calls'[c] = calls[c]
        /\ calls'[x].kind = calls[x].kind /\ calls'[x].ahead = calls[x].ahead
        /\ (calls'[x].failed <=> calls[x].failed) /\ calls'[x].keys = calls[x].keys
        /\ calls'[x].state # "waiting" /\ calls'[x].state # "listing"
        /\ calls'[x].state = "removing" => calls[x].state \in {"listing", "removing"}
        /\ \/ calls'[x].temps \subseteq calls[x].temps
           \/ calls[x].state = "listing" /\ calls'[x].temps \subseteq calls[x].keys
    <2>1. CASE List(x)
      BY <1>0, <2>1 DEF List, CallState
    <2>2. CASE Return(x)
      BY <1>0, <2>2 DEF Return, CallState
    <2>3. CASE \E k \in Key : RemoveFile(x, k)
      BY <1>0, <2>3 DEF RemoveFile, CallState
    <2>4. CASE \E k \in Key : RemoveTemp(x, k)
      BY <1>0, <2>4 DEF RemoveTemp, CallState
    <2> QED  BY <2>1, <2>2, <2>3, <2>4 DEF Proceed
  <1>2. writers' = writers /\ phase' = phase
    BY DEF Proceed, List, Return, RemoveFile, RemoveTemp
  <1>3. \A c \in Call : Waits(c)' => c # x /\ calls'[c] = calls[c]
    BY <1>1 DEF Waits
  <1>4. Listed'
    <2> SUFFICES ASSUME NEW c \in Call
                 PROVE  /\ calls'[c].state = "listing" => calls'[c].kind = "clear"
                        /\ calls'[c].temps \subseteq calls'[c].keys
                        /\ calls'[c].temps # {} => calls'[c].kind = "clear"
      BY DEF Listed
    <2>1. /\ calls[c].state = "listing" => calls[c].kind = "clear"
          /\ calls[c].temps \subseteq calls[c].keys
          /\ calls[c].temps # {} => calls[c].kind = "clear"
      BY DEF Undisturbed, Listed
    <2>2. CASE c # x
      BY <1>1, <2>1, <2>2
    <2>3. CASE c = x
      BY <1>1, <2>1, <2>3
    <2> QED  BY <2>2, <2>3
  <1>5. ASSUME NEW k \in Key, Damaged(k)'
        PROVE  \E d \in Call : calls[d].kind = "clear" /\ (Over(d) \/ Before(d, k))
    <2>1. CASE Damaged(k)
      BY <2>1 DEF Undisturbed, Blamed
    <2>2. CASE ~Damaged(k)
      <3>1. phase[k] = "rename" /\ k \in temps /\ k \notin temps'
        BY <1>2, <1>5, <2>2 DEF Damaged
      <3>2. RemoveTemp(x, k)
        <4>1. temps' # temps
          BY <3>1
        <4>2. PICK j \in Key : RemoveTemp(x, j)
          BY <4>1 DEF Proceed, List, Return, RemoveFile
        <4>3. j = k
          BY <3>1, <4>2 DEF RemoveTemp
        <4> QED  BY <4>2, <4>3
      <3>3. calls[x].state = "removing" /\ calls[x].kind = "clear" /\ k \in calls[x].keys
        BY <3>2 DEF RemoveTemp, Undisturbed, Listed
      <3>4. calls[x].ahead[k] \in Nat /\ MaxRounds \in Nat
        BY <1>0, DiskStorageAssumption DEF CallState
      <3>5. CASE calls[x].ahead[k] > MaxRounds
        BY <3>3, <3>5 DEF Over
      <3>6. CASE calls[x].ahead[k] <= MaxRounds
        <4>1. NoneOlder(x, k)
          BY <3>3, <3>6 DEF FinalInv, FinalFor
        <4>2. \A n \in DOMAIN writers[k] : x < writers[k][n]
          <5> SUFFICES ASSUME NEW n \in DOMAIN writers[k] PROVE x < writers[k][n]
            OBVIOUS
          <5>1. writers[k][n] > x /\ writers[k][n] \in Call
            BY <1>0, <4>1, InWriters DEF NoneOlder
          <5> QED  BY <5>1, DiskStorageAssumption DEF Call
        <4>3. ASSUME NEW c \in Call, Waits(c) PROVE x < c
          <5>1. ~(c < x)
            BY <3>3, <4>3 DEF Undisturbed, NotOvertaken
          <5>2. c # x
            BY <3>3, <4>3 DEF Waits
          <5> QED  BY <5>1, <5>2, DiskStorageAssumption DEF Call
        <4> QED  BY <3>3, <4>2, <4>3 DEF Before
      <3> QED  BY <3>4, <3>5, <3>6
    <2> QED  BY <2>1, <2>2
  <1>6. \A c \in Call :
            /\ Waits(c)' => calls'[c] = calls[c]
            /\ calls'[c].state = "waiting" => calls'[c].state = calls[c].state
                                              /\ calls'[c].left = calls[c].left
            /\ calls'[c].kind = calls[c].kind /\ calls'[c].ahead = calls[c].ahead
            /\ calls'[c].failed <=> calls[c].failed
            /\ calls'[c].state \in {"listing", "removing"} => calls[c].state \in {"listing", "removing"}
    <2> SUFFICES ASSUME NEW c \in Call
                 PROVE  /\ Waits(c)' => calls'[c] = calls[c]
                        /\ calls'[c].state = "waiting" => calls'[c].state = calls[c].state
                                                          /\ calls'[c].left = calls[c].left
                        /\ calls'[c].kind = calls[c].kind /\ calls'[c].ahead = calls[c].ahead
                        /\ calls'[c].failed <=> calls[c].failed
                        /\ calls'[c].state \in {"listing", "removing"} =>
                              calls[c].state \in {"listing", "removing"}
      OBVIOUS
    <2>1. CASE c # x
      BY <1>1, <1>3, <2>1
    <2>2. CASE c = x
      BY <1>1, <1>3, <2>2
    <2> QED  BY <2>1, <2>2
  <1>7. Busy \subseteq Busy'
    BY <1>2 DEF Busy
  <1> QED  BY <1>0, <1>2, <1>4, <1>5, <1>6, <1>7, CauseKept

(* A new call comes after all others, and a clearAll() among them waits    *)
(* for at least what the removals before it wait for.                      *)
LEMMA NewCallCause ==
    ASSUME RowInv, Undisturbed, TypeOK', called + 1 \in Call, NEW new \in CallState,
           \A c \in Call : calls'[c] = IF c = called + 1 THEN new ELSE calls[c],
           ~new.failed, new.temps = {}, new.rounds = 0,
           new.state = "listing" => new.kind = "clear",
           new.state = "waiting" => new.left \subseteq Busy,
           new.kind = "clear" => \/ new.state = "waiting" /\ new.left = Busy
                                 \/ new.state = "listing" /\ (Busy = {} \/ MaxRounds = 0),
           Busy \subseteq Busy',
           \A k \in Key : Damaged(k)' => Damaged(k),
           \A k \in Key : \A n \in DOMAIN writers'[k] :
               \/ n \in DOMAIN writers[k] /\ writers'[k][n] = writers[k][n]
               \/ writers'[k][n] = called + 1
    PROVE  Undisturbed'
  <1>0. TypeOK /\ called \in Nat /\ Call \subseteq Nat
    BY DiskStorageAssumption DEF RowInv, TypeOK, Call
  <1>1. \A c \in Call : c > called => calls[c].kind = "set" /\ ~Waits(c)
    <2>1. NewCall.kind = "set" /\ NewCall.state = "new"
      BY DEF NewCall
    <2> QED  BY <2>1 DEF RowInv, Uncalled, Waits
  <1>2. \A c \in Call : calls'[c].kind = "clear" /\ c # called + 1 =>
            calls[c].kind = "clear" /\ c <= called
    BY <1>0, <1>1
  <1>3. LeftBusy' /\ Listed'
    <2>1. LeftBusy'
      BY DEF LeftBusy, Undisturbed
    <2>2. Listed'
      BY DEF Listed, Undisturbed
    <2> QED  BY <2>1, <2>2
  <1>4. NotOvertaken'
    <2> SUFFICES ASSUME NEW c \in Call, NEW d \in Call, c < d, Waits(c)', calls'[d].kind = "clear"
                 PROVE  /\ calls'[d].state \notin {"listing", "removing"}
                        /\ Waits(d)' => /\ calls'[c].rounds >= calls'[d].rounds
                                        /\ calls'[c].rounds = calls'[d].rounds =>
                                              calls'[c].left \subseteq calls'[d].left
      BY DEF NotOvertaken
    <2>1. CASE d # called + 1
      <3>1. d <= called /\ calls'[d] = calls[d] /\ calls[d].kind = "clear"
        BY <1>2, <2>1
      <3>2. c # called + 1
        BY <1>0, <3>1
      <3>3. calls'[c] = calls[c] /\ Waits(c) /\ (Waits(d)' => Waits(d))
        BY <3>1, <3>2 DEF Waits
      <3> QED  BY <3>1, <3>3 DEF Undisturbed, NotOvertaken
    <2>2. CASE d = called + 1
      <3>1. c # called + 1 /\ calls'[d] = new
        BY <1>0, <2>2
      <3>2. calls'[c] = calls[c] /\ Waits(c)
        BY <3>1 DEF Waits
      <3>3. calls[c].left # {} /\ calls[c].left \subseteq Busy /\ calls[c].rounds # MaxRounds
        BY <3>2 DEF Waits, RowInv, WaitsOrFailed, Undisturbed, LeftBusy
      <3>4. calls[c].rounds \in 0 .. MaxRounds /\ MaxRounds \in Nat
        BY <1>0, DiskStorageAssumption DEF TypeOK, CallState
      <3>5. new.state = "waiting" /\ new.left = Busy
        BY <3>1, <3>3, <3>4
      <3> QED  BY <3>1, <3>2, <3>3, <3>4, <3>5
    <2> QED  BY <2>1, <2>2
  <1>5. Blamed'
    <2> SUFFICES ASSUME NEW k \in Key, Damaged(k)'
                 PROVE  \E d \in Call : calls'[d].kind = "clear" /\ (Over(d)' \/ Before(d, k)')
      BY DEF Blamed
    <2>1. PICK d \in Call : calls[d].kind = "clear" /\ (Over(d) \/ Before(d, k))
      BY DEF Undisturbed, Blamed
    <2>2. d <= called /\ d # called + 1
      BY <1>0, <1>1, <2>1
    <2>3. calls'[d] = calls[d]
      BY <2>2
    <2>4. Over(d) => Over(d)'
      BY <2>3 DEF Over
    <2>5. Before(d, k) => Before(d, k)'
      <3> SUFFICES ASSUME Before(d, k) PROVE Before(d, k)'
        OBVIOUS
      <3>1. d < called + 1
        BY <1>0, <2>2
      <3>2. \A n \in DOMAIN writers'[k] : d < writers'[k][n]
        BY <3>1 DEF Before
      <3>3. \A c \in Call : Waits(c)' => d < c
        BY <3>1 DEF Before, Waits
      <3> QED  BY <3>2, <3>3 DEF Before
    <2> QED  BY <2>1, <2>3, <2>4, <2>5
  <1>6. ASSUME NEW c \in Call, calls'[c].failed PROVE HasCause(c)'
    <2>1. c # called + 1 /\ calls[c].failed
      BY <1>6
    <2>2. PICK d \in Call : calls[d].kind = "clear" /\ (d < c \/ \E k \in Key : calls[d].ahead[k] > MaxRounds)
      BY <2>1 DEF Undisturbed, HasCause
    <2>3. calls'[d] = calls[d]
      BY <1>0, <1>1, <2>2
    <2> QED  BY <2>2, <2>3 DEF HasCause
  <1> QED  BY <1>3, <1>4, <1>5, <1>6 DEF Undisturbed

LEMMA SetCause ==
    ASSUME RowInv, Undisturbed, TypeOK', NEW K \in SUBSET Key, Set(K) PROVE Undisturbed'
  <1> DEFINE new == [NewCall EXCEPT !.keys = K, !.state = "writing", !.left = K]
  <1>0. TypeOK /\ called \in Nat /\ called + 1 \in Call
    <2>1. TypeOK
      BY DEF RowInv
    <2> QED  BY <2>1, DiskStorageAssumption DEF Set, TypeOK, Call
  <1>1. /\ new \in CallState /\ ~new.failed /\ new.temps = {} /\ new.rounds = 0
        /\ new.state = "writing" /\ new.kind = "set"
    BY NewCallType DEF NewCall, CallState
  <1> HIDE DEF new
  <1>2. calls' = [calls EXCEPT ![called + 1] = new]
    BY DEF Set, new
  <1>3. \A c \in Call : calls'[c] = IF c = called + 1 THEN new ELSE calls[c]
    BY <1>0, <1>2 DEF TypeOK
  <1>4. Busy \subseteq Busy' /\ \A k \in Key : Damaged(k)' => Damaged(k)
    BY <1>0 DEF Set, Busy, Damaged, TypeOK
  <1>5. ASSUME NEW k \in Key, NEW n \in DOMAIN writers'[k]
        PROVE  \/ n \in DOMAIN writers[k] /\ writers'[k][n] = writers[k][n]
               \/ writers'[k][n] = called + 1
    <2>1. CASE k \notin K
      BY <2>1, <1>5 DEF Set
    <2>2. CASE k \in K
      <3>1. writers'[k] = Append(writers[k], called + 1)
        BY <2>2 DEF Set, Queued
      <3>2. \A i \in DOMAIN Append(writers[k], called + 1) :
                \/ i \in DOMAIN writers[k] /\ Append(writers[k], called + 1)[i] = writers[k][i]
                \/ Append(writers[k], called + 1)[i] = called + 1
        BY <1>0, InWriters, AppendProperties
      <3> QED  BY <1>5, <3>1, <3>2
    <2> QED  BY <2>1, <2>2
  <1> QED  BY <1>0, <1>1, <1>3, <1>4, <1>5, NewCallCause

LEMMA RemovesCause ==
    ASSUME RowInv, Undisturbed, TypeOK', NEW kind \in {"delete", "clear"}, NEW K \in SUBSET Key,
           Removes(kind, K)
    PROVE  Undisturbed'
  <1> DEFINE call == [NewCall EXCEPT !.kind = kind, !.keys = K,
                                     !.ahead = [k \in Key |-> Len(writers[k])]]
             new == Round(call, Busy)
  <1>0. TypeOK /\ called \in Nat /\ called + 1 \in Call
    <2>1. TypeOK
      BY DEF RowInv
    <2> QED  BY <2>1, DiskStorageAssumption DEF Removes, TypeOK, Call
  <1>1. /\ call \in CallState /\ call.kind = kind /\ ~call.failed /\ call.temps = {}
        /\ call.rounds = 0
    <2>1. \A k \in Key : Len(writers[k]) \in Nat
      BY <1>0, InWriters
    <2> QED  BY <2>1, NewCallType DEF CallState, NewCall
  <1> HIDE DEF call
  <1>2. /\ new \in CallState /\ Looked(call, new, Busy) /\ new.temps = {}
    <2>1. Busy \in SUBSET Key
      BY DEF Busy
    <2>2. new \in CallState /\ Looked(call, new, Busy)
      BY <1>1, <2>1, RoundType, RoundLooks
    <2>3. new.temps = call.temps
      BY <1>1 DEF Round, CallState
    <2> QED  BY <1>1, <2>2, <2>3
  <1> HIDE DEF new
  <1>3. calls' = [calls EXCEPT ![called + 1] = new]
    BY DEF Removes, call, new
  <1>4. \A c \in Call : calls'[c] = IF c = called + 1 THEN new ELSE calls[c]
    BY <1>0, <1>3 DEF TypeOK
  <1>5. /\ new.rounds = 0 /\ ~new.failed
        /\ new.state = "listing" => new.kind = "clear"
        /\ new.state = "waiting" => new.left \subseteq Busy
        /\ new.kind = "clear" => \/ new.state = "waiting" /\ new.left = Busy
                                 \/ new.state = "listing" /\ (Busy = {} \/ MaxRounds = 0)
    <2>1. Busy \subseteq Key
      BY DEF Busy
    <2> QED  BY <1>1, <1>2, <2>1 DEF Looked, Scope
  <1>6. writers' = writers /\ phase' = phase /\ temps' = temps
    BY DEF Removes
  <1>7. Busy \subseteq Busy' /\ \A k \in Key : Damaged(k)' => Damaged(k)
    BY <1>6 DEF Busy, Damaged
  <1> QED  BY <1>0, <1>2, <1>4, <1>5, <1>6, <1>7, NewCallCause

(* How the end of a write of file k moves on a removal that still waits    *)
(* afterwards, and a clearAll() called later.                              *)
SameRound(old, new, k) ==
    /\ new.rounds = old.rounds /\ new.state = old.state /\ new.left = old.left \ {k}

NextRound(old, new, k, busy) ==
    /\ old.left \subseteq {k} /\ ~old.failed /\ new.rounds = old.rounds + 1
    /\ \/ new.state = "waiting" /\ new.left = Scope(old) \cap busy
       \/ /\ new.state \in {"listing", "removing"}
          /\ Scope(old) \cap busy = {} \/ new.rounds = MaxRounds

Moves(c, k, done, bad, busy) ==
    /\ calls'[c].kind = calls[c].kind /\ calls'[c].keys = calls[c].keys
    /\ calls'[c].ahead = calls[c].ahead /\ calls'[c].temps = calls[c].temps
    /\ calls'[c].failed => \/ calls[c].failed
                           \/ bad /\ (c \in done \/ (Waits(c) /\ k \in calls[c].left))
    /\ calls[c].state # "waiting" => calls'[c].state = calls[c].state
    /\ calls[c].state = "waiting" =>
          \/ SameRound(calls[c], calls'[c], k) /\ (calls[c].failed => calls'[c].failed)
          \/ NextRound(calls[c], calls'[c], k, busy)

LEMMA NotifiedMoves ==
    ASSUME TypeOK, WaitsOrFailed, SetsDoNotWait, NEW k \in Key, NEW done \in SUBSET Call,
           NEW bad \in BOOLEAN, NEW busy \in SUBSET Key, \A c \in done : calls[c].kind = "set",
           calls' = Notified(k, done, bad, busy), NEW c \in Call
    PROVE  Moves(c, k, done, bad, busy)
  <1> USE DEF Moves
  <1>1. /\ c \in done => Ended(calls[c], calls'[c], k, bad)
        /\ c \notin done /\ Hears(c, k) => Heard(calls[c], calls'[c], k, bad, busy)
        /\ c \notin done /\ ~Hears(c, k) => calls'[c] = calls[c]
    BY NotifiedHears
  <1>2. calls[c] \in CallState /\ calls'[c].temps = calls[c].temps
    BY NotifiedTemps DEF TypeOK
  <1>3. CASE c \in done
    BY <1>1, <1>2, <1>3 DEF Ended, SetsDoNotWait
  <1>4. CASE c \notin done /\ ~Hears(c, k)
    <2>1. calls'[c] = calls[c]
      BY <1>1, <1>4
    <2>2. calls[c].state = "waiting" => calls[c].left \ {k} = calls[c].left
      BY <1>4 DEF Hears
    <2> QED  BY <2>1, <2>2 DEF SameRound
  <1>5. CASE c \notin done /\ Hears(c, k)
    <2>1. Heard(calls[c], calls'[c], k, bad, busy) /\ calls[c].state = "waiting" /\ k \in calls[c].left
      BY <1>1, <1>5 DEF Hears
    <2>2. CASE /\ calls'[c].kind = calls[c].kind /\ calls'[c].keys = calls[c].keys
               /\ calls'[c].ahead = calls[c].ahead /\ calls'[c].rounds = calls[c].rounds
               /\ calls'[c].state = calls[c].state /\ calls'[c].left = calls[c].left \ {k}
               /\ calls'[c].failed = (calls[c].failed \/ bad)
      BY <1>2, <2>1, <2>2 DEF SameRound, Waits, CallState
    <2>3. ASSUME calls[c].left \subseteq {k}, ~calls[c].failed,
                 NEW mid \in CallState, mid.kind = calls[c].kind, mid.keys = calls[c].keys,
                 mid.ahead = calls[c].ahead, ~mid.failed, mid.rounds = calls[c].rounds + 1,
                 Looked(mid, calls'[c], busy)
          PROVE  /\ calls'[c].kind = calls[c].kind /\ calls'[c].keys = calls[c].keys
                 /\ calls'[c].ahead = calls[c].ahead /\ ~calls'[c].failed
                 /\ NextRound(calls[c], calls'[c], k, busy)
      <3>1. Scope(mid) = Scope(calls[c])
        BY <2>3 DEF Scope
      <3> QED  BY <2>3, <3>1 DEF Looked, NextRound
    <2> QED  BY <1>2, <2>1, <2>2, <2>3 DEF Heard
  <1> QED  BY <1>3, <1>4, <1>5

(* A clearAll() stays behind the removals called before it.                *)
LEMMA StaysBehind ==
    ASSUME NEW c \in CallState, NEW d \in CallState, NEW new \in CallState, NEW next \in CallState,
           NEW k \in Key, NEW busy \in SUBSET Key,
           d.kind = "clear", next.kind = d.kind,
           c.state = "waiting", ~c.failed, c.left # {},
           new.state = "waiting", new.left # {}, new.left \subseteq busy, new.rounds # MaxRounds,
           SameRound(c, new, k) \/ NextRound(c, new, k, busy),
           d.state \notin {"listing", "removing"},
           d.state # "waiting" => next.state = d.state,
           d.state = "waiting" => \/ SameRound(d, next, k) /\ (d.failed => next.failed)
                                  \/ NextRound(d, next, k, busy),
           d.state = "waiting" /\ ~d.failed =>
               c.rounds >= d.rounds /\ (c.rounds = d.rounds => c.left \subseteq d.left)
    PROVE  /\ next.state \notin {"listing", "removing"}
           /\ next.state = "waiting" /\ ~next.failed =>
                  new.rounds >= next.rounds /\ (new.rounds = next.rounds => new.left \subseteq next.left)
  <1>0. /\ c.rounds \in Nat /\ d.rounds \in Nat /\ new.rounds \in 0 .. MaxRounds
        /\ new.rounds \in Nat /\ next.rounds \in Nat /\ MaxRounds \in Nat
    BY DiskStorageAssumption DEF CallState
  <1>1. CASE d.state # "waiting"
    BY <1>1
  <1>2. CASE d.state = "waiting" /\ SameRound(d, next, k) /\ (d.failed => next.failed)
    <2>1. CASE SameRound(c, new, k)
      BY <1>0, <1>2, <2>1 DEF SameRound
    <2>2. CASE NextRound(c, new, k, busy)
      BY <1>0, <1>2, <2>2 DEF SameRound, NextRound
    <2> QED  BY <2>1, <2>2
  <1>3. CASE d.state = "waiting" /\ NextRound(d, next, k, busy)
    <2>1. d.left \subseteq {k} /\ ~d.failed /\ next.rounds = d.rounds + 1 /\ Scope(d) = Key
      BY <1>3 DEF NextRound, Scope
    <2>2. new.rounds >= d.rounds + 1
      <3>1. CASE NextRound(c, new, k, busy)
        BY <1>0, <1>3, <2>1, <3>1 DEF NextRound
      <3>2. CASE SameRound(c, new, k)
        <4>1. ~(c.left \subseteq {k})
          BY <3>2 DEF SameRound
        <4>2. c.rounds # d.rounds
          BY <1>3, <2>1, <4>1
        <4> QED  BY <1>0, <1>3, <2>1, <3>2, <4>2 DEF SameRound
      <3> QED  BY <3>1, <3>2
    <2>3. busy # {} /\ Scope(d) \cap busy = busy /\ next.rounds # MaxRounds
      BY <1>0, <2>1, <2>2
    <2>4. next.state = "waiting" /\ next.left = busy
      BY <1>3, <2>3 DEF NextRound
    <2> QED  BY <2>1, <2>2, <2>4
  <1> QED  BY <1>1, <1>2, <1>3

LEMMA NotifiedCause ==
    ASSUME RowInv, Undisturbed, RowInv', NEW k \in Key, NEW done \in SUBSET Call, NEW bad \in BOOLEAN,
           \A c \in done : calls[c].kind = "set",
           calls' = Notified(k, done, bad, {j \in Key : phase'[j] # "idle"}),
           temps' = temps, phase'[k] \in {"idle", "temp"},
           \A j \in Key : j # k => writers'[j] = writers[j] /\ phase'[j] = phase[j],
           bad => done = Writers(k) /\ Damaged(k)
    PROVE  Undisturbed'
  <1> DEFINE busy == {j \in Key : phase'[j] # "idle"}
  <1>0. /\ TypeOK /\ TypeOK' /\ WaitsOrFailed /\ WaitsOrFailed' /\ SetsDoNotWait
        /\ calls \in [Call -> CallState] /\ calls' \in [Call -> CallState]
        /\ busy \in SUBSET Key /\ busy = Busy'
    BY DEF RowInv, TypeOK, Busy
  <1>1. calls' = Notified(k, done, bad, busy)
    OBVIOUS
  <1> HIDE DEF busy
  <1>2. ASSUME NEW c \in Call
        PROVE  /\ calls'[c].kind = calls[c].kind /\ calls'[c].keys = calls[c].keys
               /\ calls'[c].ahead = calls[c].ahead /\ calls'[c].temps = calls[c].temps
               /\ calls'[c].failed => \/ calls[c].failed
                                      \/ bad /\ (c \in done \/ (Waits(c) /\ k \in calls[c].left))
               /\ calls[c].state # "waiting" => calls'[c].state = calls[c].state
               /\ calls[c].state = "waiting" =>
                     \/ SameRound(calls[c], calls'[c], k) /\ (calls[c].failed => calls'[c].failed)
                     \/ NextRound(calls[c], calls'[c], k, busy)
    <2>1. Moves(c, k, done, bad, busy)
      BY <1>0, <1>1, NotifiedMoves
    <2> QED  BY <2>1 DEF Moves
  <1>3. \A c \in Call : calls'[c].state = "waiting" => calls[c].state = "waiting"
    BY <1>2
  <1>4. \A c \in Call : Waits(c)' => Waits(c)
    BY <1>2, <1>3 DEF Waits, NextRound
  <1>5. LeftBusy'
    <2> SUFFICES ASSUME NEW c \in Call, calls'[c].state = "waiting"
                 PROVE  calls'[c].left \subseteq busy
      BY <1>0 DEF LeftBusy
    <2>1. calls[c].state = "waiting" /\ calls[c].left \subseteq Busy
      BY <1>3 DEF Undisturbed, LeftBusy
    <2>2. CASE SameRound(calls[c], calls'[c], k)
      <3>1. Busy \ {k} \subseteq busy
        BY <1>0 DEF Busy, busy
      <3> QED  BY <2>1, <2>2, <3>1 DEF SameRound
    <2>3. CASE NextRound(calls[c], calls'[c], k, busy)
      BY <2>3 DEF NextRound
    <2> QED  BY <1>2, <2>1, <2>2, <2>3
  <1>6. Listed'
    <2> SUFFICES ASSUME NEW c \in Call
                 PROVE  /\ calls'[c].state = "listing" => calls'[c].kind = "clear"
                        /\ calls'[c].temps \subseteq calls'[c].keys
                        /\ calls'[c].temps # {} => calls'[c].kind = "clear"
      BY DEF Listed
    <2>1. /\ calls[c].state = "listing" => calls[c].kind = "clear"
          /\ calls[c].temps \subseteq calls[c].keys
          /\ calls[c].temps # {} => calls[c].kind = "clear"
      BY DEF Undisturbed, Listed
    <2>2. calls'[c].state = "listing" => calls'[c].kind = "clear"
      <3>1. CASE calls[c].state # "waiting"
        BY <1>2, <2>1, <3>1
      <3>2. CASE calls[c].state = "waiting"
        <4> SUFFICES ASSUME calls'[c].state = "listing" PROVE calls[c].kind = "clear"
          BY <1>2
        <4>1. c \in Call /\ c \notin done /\ Hears(c, k)
          <5>1. c \notin done
            BY <3>2 DEF RowInv, SetsDoNotWait
          <5>2. ~Hears(c, k) => calls'[c] = calls[c]
            BY <1>0, <1>1, <5>1, NotifiedHears
          <5> QED  BY <3>2, <5>1, <5>2
        <4>2. Heard(calls[c], calls'[c], k, bad, busy)
          BY <1>0, <1>1, <4>1, NotifiedHears
        <4>3. calls[c].kind # "set" /\ calls[c].kind \in {"set", "delete", "clear"}
          BY <1>0, <3>2 DEF RowInv, SetsDoNotWait, CallState
        <4> QED  BY <3>2, <4>2, <4>3 DEF Heard, Looked
      <3> QED  BY <3>1, <3>2
    <2> QED  BY <1>2, <2>1, <2>2
  <1>7. NotOvertaken'
    <2> SUFFICES ASSUME NEW c \in Call, NEW d \in Call, c < d, Waits(c)', calls'[d].kind = "clear"
                 PROVE  /\ calls'[d].state \notin {"listing", "removing"}
                        /\ Waits(d)' => /\ calls'[c].rounds >= calls'[d].rounds
                                        /\ calls'[c].rounds = calls'[d].rounds =>
                                              calls'[c].left \subseteq calls'[d].left
      BY DEF NotOvertaken
    <2>1. Waits(c) /\ calls[d].kind = "clear"
      BY <1>2, <1>4
    <2>2. /\ calls[d].state \notin {"listing", "removing"}
          /\ Waits(d) => /\ calls[c].rounds >= calls[d].rounds
                         /\ calls[c].rounds = calls[d].rounds => calls[c].left \subseteq calls[d].left
      BY <2>1 DEF Undisturbed, NotOvertaken
    <2> DEFINE old == calls[c]  later == calls[d]  new == calls'[c]  next == calls'[d]
    <2>3. /\ old.state = "waiting" /\ ~old.failed /\ old.left # {}
          /\ new.state = "waiting" /\ new.left # {} /\ new.rounds # MaxRounds
          /\ new.left \subseteq busy
      BY <1>0, <1>5, <2>1 DEF Waits, WaitsOrFailed, LeftBusy
    <2>4. /\ old \in CallState /\ later \in CallState
          /\ new \in CallState /\ next \in CallState
      BY <1>0
    <2>5. SameRound(old, new, k) \/ NextRound(old, new, k, busy)
      BY <1>2, <2>3
    <2>6. /\ later.state # "waiting" => next.state = later.state
          /\ later.state = "waiting" =>
                \/ SameRound(later, next, k) /\ (later.failed => next.failed)
                \/ NextRound(later, next, k, busy)
          /\ next.kind = later.kind
      BY <1>2
    <2>7. later.kind = "clear" /\ later.state \notin {"listing", "removing"}
      BY <2>1, <2>2
    <2>8. later.state = "waiting" /\ ~later.failed =>
              /\ old.rounds >= later.rounds
              /\ old.rounds = later.rounds => old.left \subseteq later.left
      BY <2>2 DEF Waits
    <2> HIDE DEF old, later, new, next
    <2>9. /\ next.state \notin {"listing", "removing"}
          /\ next.state = "waiting" /\ ~next.failed =>
                /\ new.rounds >= next.rounds
                /\ new.rounds = next.rounds => new.left \subseteq next.left
      BY <1>0, <2>3, <2>4, <2>5, <2>6, <2>7, <2>8, StaysBehind
    <2> QED  BY <2>9 DEF Waits, old, later, new, next
  <1>8. Blamed'
    <2> SUFFICES ASSUME NEW j \in Key, Damaged(j)'
                 PROVE  \E d \in Call : calls'[d].kind = "clear" /\ (Over(d)' \/ Before(d, j)')
      BY DEF Blamed
    <2>1. j # k /\ Damaged(j) /\ writers'[j] = writers[j]
      BY DEF Damaged
    <2>2. PICK d \in Call : calls[d].kind = "clear" /\ (Over(d) \/ Before(d, j))
      BY <2>1 DEF Undisturbed, Blamed
    <2>3. calls'[d].kind = "clear" /\ calls'[d].ahead = calls[d].ahead
      BY <1>2, <2>2
    <2>4. Over(d) => Over(d)'
      BY <2>3 DEF Over
    <2>5. Before(d, j) => Before(d, j)'
      BY <1>4, <2>1 DEF Before
    <2> QED  BY <2>2, <2>3, <2>4, <2>5
  <1>9. ASSUME NEW c \in Call, calls'[c].failed PROVE HasCause(c)'
    <2>1. HasCause(c)
      <3>1. CASE calls[c].failed
        BY <3>1 DEF Undisturbed
      <3>2. CASE bad /\ (c \in done \/ Waits(c))
        <4>1. PICK d \in Call : calls[d].kind = "clear" /\ (Over(d) \/ Before(d, k))
          BY <3>2 DEF Undisturbed, Blamed
        <4>2. Before(d, k) => d < c
          BY <3>2 DEF Before, Writers
        <4> QED  BY <4>1, <4>2 DEF HasCause, Over
      <3> QED  BY <1>2, <1>9, <3>1, <3>2
    <2>2. PICK d \in Call : calls[d].kind = "clear" /\ (d < c \/ \E j \in Key : calls[d].ahead[j] > MaxRounds)
      BY <2>1 DEF HasCause
    <2>3. calls'[d].kind = "clear" /\ calls'[d].ahead = calls[d].ahead
      BY <1>2, <2>2
    <2> QED  BY <2>2, <2>3 DEF HasCause
  <1> QED  BY <1>5, <1>6, <1>7, <1>8, <1>9 DEF Undisturbed

LEMMA WriteEndsCause ==
    ASSUME RowInv, Undisturbed, RowInv', NEW k \in Key, WriteEnds(k) PROVE Undisturbed'
  <1> DEFINE h == Head(writers[k])
  <1>1. TypeOK /\ writers[k] # <<>>
    BY DEF RowInv, WriteEnds, TypeOK
  <1>2. h \in Call /\ calls[h].kind = "set"
    BY <1>1, FirstWriter, InWriters DEF RowInv, InRow
  <1>3. /\ writers' = [writers EXCEPT ![k] = Tail(writers[k])] /\ temps' = temps
        /\ phase' = [phase EXCEPT ![k] = IF Tail(writers[k]) = <<>> THEN "idle" ELSE "temp"]
        /\ calls' = Notified(k, {h}, FALSE, {j \in Key : phase'[j] # "idle"})
    BY DEF WriteEnds
  <1> HIDE DEF h
  <1>4. /\ phase'[k] \in {"idle", "temp"}
        /\ \A j \in Key : j # k => writers'[j] = writers[j] /\ phase'[j] = phase[j]
    BY <1>1, <1>3 DEF TypeOK
  <1>5. {h} \in SUBSET Call /\ \A c \in {h} : calls[c].kind = "set"
    BY <1>2
  <1> QED  BY <1>3, <1>4, <1>5, NotifiedCause

LEMMA WriteFailsCause ==
    ASSUME RowInv, Undisturbed, RowInv', NEW k \in Key, WriteFails(k) PROVE Undisturbed'
  <1>1. TypeOK
    BY DEF RowInv
  <1>2. Writers(k) \in SUBSET Call /\ \A c \in Writers(k) : calls[c].kind = "set"
    BY <1>1, InWriters DEF Writers, RowInv, InRow
  <1>3. /\ writers' = [writers EXCEPT ![k] = <<>>] /\ phase' = [phase EXCEPT ![k] = "idle"]
        /\ calls' = Notified(k, Writers(k), TRUE, Busy \ {k}) /\ temps' = temps /\ Damaged(k)
    BY DEF WriteFails, Damaged
  <1>4. Busy \ {k} = {j \in Key : phase'[j] # "idle"}
    BY <1>1, <1>3 DEF Busy, TypeOK
  <1>5. /\ phase'[k] \in {"idle", "temp"}
        /\ \A j \in Key : j # k => writers'[j] = writers[j] /\ phase'[j] = phase[j]
    BY <1>1, <1>3 DEF TypeOK
  <1> QED  BY <1>2, <1>3, <1>4, <1>5, NotifiedCause

LEMMA NextCause == ASSUME IInv, CauseInv, [Next]_vars PROVE CauseInv'
  <1> SUFFICES ASSUME faults' = 0 PROVE Undisturbed'
    BY DEF CauseInv
  <1>0. RowInv /\ FinalInv /\ RowInv' /\ TypeOK /\ TypeOK'
    BY NextRow, NextType DEF IInv, RowInv
  <1>1. faults \in Nat
    BY <1>0, DiskStorageAssumption DEF TypeOK
  <1>2. ~Crash /\ \A k \in Key : ~WriteRefused(k)
    BY <1>1 DEF Crash, WriteRefused, Fault
  <1>3. faults = 0
    BY <1>2 DEF Next, Set, ClearAll, Delete, Removes, Write, TempWritten, Renamed, WriteEnds, WriteFails,
                Proceed, List, Return, RemoveFile, RemoveTemp, vars
  <1>4. Undisturbed
    BY <1>3 DEF CauseInv
  <1>5. CASE \E K \in SUBSET Key \ {{}} : Set(K)
    BY <1>0, <1>4, <1>5, SetCause
  <1>6. CASE \E K \in SUBSET Key \ {{}} : ClearAll(K)
    BY <1>0, <1>4, <1>6, RemovesCause DEF ClearAll
  <1>7. CASE \E k \in Key : Delete(k)
    BY <1>0, <1>4, <1>7, RemovesCause DEF Delete
  <1>8. CASE \E k \in Key : TempWritten(k) \/ Renamed(k)
    BY <1>0, <1>4, <1>8, WriteCause
  <1>9. CASE \E k \in Key : WriteEnds(k)
    BY <1>0, <1>4, <1>9, WriteEndsCause
  <1>10. CASE \E k \in Key : WriteFails(k)
    BY <1>0, <1>4, <1>10, WriteFailsCause
  <1>11. CASE \E c \in Call : Proceed(c)
    BY <1>0, <1>4, <1>11, ProceedCause
  <1>12. CASE UNCHANGED vars
    BY <1>4, <1>12 DEF vars, Undisturbed, LeftBusy, Busy, Listed, NotOvertaken, Waits, Blamed, Damaged,
                       Over, Before, HasCause
  <1> QED
    BY <1>2, <1>5, <1>6, <1>7, <1>8, <1>9, <1>10, <1>11, <1>12 DEF Next, Write

(* While the operating system refuses nothing and the process goes on, a   *)
(* call fails only by a clearAll() before it, or by one that gave up       *)
(* waiting (#finishAllWrites).                                             *)
THEOREM FailuresHaveCauses == Spec => []FailureHasCause
  <1>1. Init => IInv /\ CauseInv
    BY InitRow, InitFinal, InitCause DEF IInv
  <1>2. IInv /\ CauseInv /\ [Next]_vars => IInv' /\ CauseInv'
    BY NextRow, NextFinal, NextCause DEF IInv
  <1>3. CauseInv => FailureHasCause
    BY DEF CauseInv, Undisturbed, HasCause, FailureHasCause
  <1> QED  BY <1>1, <1>2, <1>3, PTL DEF Spec

=============================================================================
