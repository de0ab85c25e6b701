---------------------------- MODULE DiskStorage ----------------------------
(***************************************************************************)
(* The file storage of a node (StorageBackendDiskAsync.ts): one file per   *)
(* key, written to a temporary file that is then renamed.                  *)
(*                                                                         *)
(* Writes of one file follow each other: a call that finds one under way   *)
(* (#writeFileBlocker) waits and looks again.  delete() and clearAll()     *)
(* first wait for writes under way, in up to ten rounds (#finishAllWrites).*)
(* The calls of the runtime's fs module are steps of the operating system, *)
(* each with its effect at one moment; code between two of them is one     *)
(* action.  The waiters of a write continue in the order in which they     *)
(* began to wait, before anything else can run, and the removals that      *)
(* wait for it after them.                                                 *)
(*                                                                         *)
(* Reading changes nothing: what a get() finds is files.  A crash is the   *)
(* end of the process; that a loss of power could also undo a rename is    *)
(* not modelled.  The operations that may be refused are the write and the *)
(* rename of a set(); rm, readdir and the opening for fsync are not.       *)
(***************************************************************************)
EXTENDS Naturals, Sequences, FiniteSets

CONSTANTS
    Key,
    MaxRounds,      \* 10: rounds of #finishAllWrites
    MaxCalls,       \* bound: calls of set(), delete() and clearAll()
    MaxFaults       \* bound: crashes, refused writes and renames

ASSUME DiskStorageAssumption == {MaxRounds, MaxCalls, MaxFaults} \subseteq Nat

Call == 1 .. MaxCalls
None == 0

VARIABLES
    files,      \* the call whose value each file holds, or None
    temps,      \* the keys with a temporary file
    writers,    \* the sets of each key, in order: the head writes, the rest waits
    phase,      \* how far the head is
    called,     \* calls so far; a call is known by its number
    calls,      \* how far each of them is
    faults      \* crashes, refused writes and renames so far

vars == <<files, temps, writers, phase, called, calls, faults>>

(* left: the files a set still has to write, those whose writes a removal  *)
(* waits for in this round, or those it still has to remove (with temps).  *)
(* ahead: how many writes of each file a removal found before it (history).*)
CallState ==
    [kind : {"set", "delete", "clear"}, keys : SUBSET Key,
     state : {"new", "writing", "waiting", "listing", "removing", "ok", "failed", "lost"},
     left : SUBSET Key, temps : SUBSET Key, failed : BOOLEAN,
     rounds : 0 .. MaxRounds, ahead : [Key -> Nat]]

NewCall == [kind |-> "set", keys |-> {}, state |-> "new", left |-> {}, temps |-> {},
            failed |-> FALSE, rounds |-> 0, ahead |-> [k \in Key |-> 0]]

Init ==
    /\ files = [k \in Key |-> None] /\ temps = {}
    /\ writers = [k \in Key |-> <<>>] /\ phase = [k \in Key |-> "idle"]
    /\ called = 0 /\ calls = [c \in Call |-> NewCall] /\ faults = 0

Fault == faults < MaxFaults /\ faults' = faults + 1

-----------------------------------------------------------------------------
(* set() *)

(* As a bug: the last to wait is the next to write. *)
Pushed(k, c) == IF writers[k] = <<>> THEN <<c>>
                ELSE <<Head(writers[k]), c>> \o Tail(writers[k])

(* A call waits behind those that already do. *)
Queued(k, c) == Append(writers[k], c)

Set(K) ==
    /\ called < MaxCalls /\ called' = called + 1
    /\ calls' = [calls EXCEPT ![called + 1] =
           [NewCall EXCEPT !.keys = K, !.state = "writing", !.left = K]]
    /\ writers' = [k \in Key |-> IF k \in K THEN Queued(k, called + 1) ELSE writers[k]]
    /\ phase' = [k \in Key |-> IF k \in K /\ phase[k] = "idle" THEN "temp" ELSE phase[k]]
    /\ UNCHANGED <<files, temps, faults>>

TempWritten(k) ==
    /\ phase[k] = "temp"
    /\ temps' = temps \cup {k} /\ phase' = [phase EXCEPT ![k] = "rename"]
    /\ UNCHANGED <<files, writers, called, calls, faults>>

(* The temporary file may have been removed by clearAll(). *)
Renamed(k) ==
    /\ phase[k] = "rename"
    /\ IF k \in temps
       THEN /\ files' = [files EXCEPT ![k] = Head(writers[k])]
            /\ temps' = temps \ {k} /\ phase' = [phase EXCEPT ![k] = "written"]
       ELSE phase' = [phase EXCEPT ![k] = "refused"] /\ UNCHANGED <<files, temps>>
    /\ UNCHANGED <<writers, called, calls, faults>>

WriteRefused(k) ==
    /\ phase[k] \in {"temp", "rename"} /\ Fault
    /\ temps' \in {temps, temps \cup {k}}
    /\ phase' = [phase EXCEPT ![k] = "refused"]
    /\ UNCHANGED <<files, writers, called, calls>>

-----------------------------------------------------------------------------
(* #finishAllWrites(): a removal waits for the writes under way - delete() *)
(* for that of its own file - and looks again, until there is none or the  *)
(* last round is over.  When only other files are being written, delete()  *)
(* goes through its remaining rounds at once.                              *)

Scope(call) == IF call.kind = "delete" THEN call.keys ELSE Key

GivesUpAtOnce(call) == TRUE         \* as a bug: writes are not waited for
NeverGivesUp(call) == FALSE         \* as a bug: no limit on the rounds
GivesUp(call) == call.rounds = MaxRounds

Round(call, busy) ==
    IF Scope(call) \cap busy = {} \/ GivesUp(call)
    THEN IF call.kind = "delete" THEN [call EXCEPT !.state = "removing", !.left = call.keys]
                                 ELSE [call EXCEPT !.state = "listing", !.left = {}]
    ELSE [call EXCEPT !.state = "waiting", !.left = Scope(call) \cap busy]

Busy == {k \in Key : phase[k] # "idle"}

(* What a waiting removal makes of the end of a write *)
Waited(call, k, bad, busy) ==
    LET heard == [call EXCEPT !.left = @ \ {k}, !.failed = @ \/ bad]
    IN  IF heard.left # {} \/ heard.failed THEN heard
        ELSE Round([heard EXCEPT !.rounds = @ + 1], busy)

Notified(k, done, bad, busy) ==
    [c \in Call |->
        IF c \in done THEN [calls[c] EXCEPT !.left = @ \ {k}, !.failed = @ \/ bad]
        ELSE IF calls[c].state = "waiting" /\ k \in calls[c].left
        THEN Waited(calls[c], k, bad, busy)
        ELSE calls[c]]

(* The write of a file ends: the next waiter begins. *)
WriteEnds(k) ==
    LET rest == Tail(writers[k])
        phases == [phase EXCEPT ![k] = IF rest = <<>> THEN "idle" ELSE "temp"]
    IN  /\ phase[k] = "written"
        /\ writers' = [writers EXCEPT ![k] = rest] /\ phase' = phases
        /\ calls' = Notified(k, {Head(writers[k])}, FALSE, {j \in Key : phases[j] # "idle"})
        /\ UNCHANGED <<files, temps, called, faults>>

OnlyHead(k) == {Head(writers[k])}   \* as a bug: the waiters hear nothing
Writers(k) == {writers[k][n] : n \in DOMAIN writers[k]}

(* A write that fails rejects the promise all its waiters wait for; none   *)
(* of them tries its own.                                                  *)
WriteFails(k) ==
    /\ phase[k] = "refused"
    /\ writers' = [writers EXCEPT ![k] = <<>>] /\ phase' = [phase EXCEPT ![k] = "idle"]
    /\ calls' = Notified(k, Writers(k), TRUE, Busy \ {k})
    /\ UNCHANGED <<files, temps, called, faults>>

-----------------------------------------------------------------------------
(* delete() and clearAll() *)

Removes(kind, K) ==
    /\ called < MaxCalls /\ called' = called + 1
    /\ calls' = [calls EXCEPT ![called + 1] =
           Round([NewCall EXCEPT !.kind = kind, !.keys = K,
                                 !.ahead = [k \in Key |-> Len(writers[k])]], Busy)]
    /\ UNCHANGED <<files, temps, writers, phase, faults>>

Delete(k) == Removes("delete", {k})
ClearAll(K) == Removes("clear", K)

(* clearAll() reads the directory, temporary files included. *)
List(c) ==
    /\ calls[c].state = "listing"
    /\ calls' = [calls EXCEPT
           ![c].state = "removing", ![c].left = {k \in calls[c].keys : files[k] # None},
           ![c].temps = temps \cap calls[c].keys]
    /\ UNCHANGED <<files, temps, writers, phase, called, faults>>

RemoveFile(c, k) ==
    /\ calls[c].state = "removing" /\ k \in calls[c].left
    /\ files' = [files EXCEPT ![k] = None]
    /\ calls' = [calls EXCEPT ![c].left = @ \ {k}]
    /\ UNCHANGED <<temps, writers, phase, called, faults>>

RemoveTemp(c, k) ==
    /\ calls[c].state = "removing" /\ k \in calls[c].temps
    /\ temps' = temps \ {k}
    /\ calls' = [calls EXCEPT ![c].temps = @ \ {k}]
    /\ UNCHANGED <<files, writers, phase, called, faults>>

(* The promise of a call settles. *)
Return(c) ==
    /\ calls[c].state \in {"writing", "waiting", "removing"}
    /\ calls[c].left = {} /\ calls[c].temps = {}
    /\ calls' = [calls EXCEPT ![c].state = IF calls[c].failed THEN "failed" ELSE "ok"]
    /\ UNCHANGED <<files, temps, writers, phase, called, faults>>

(* The process ends and is started again; initialize() leaves files alone. *)
Open(c) == calls[c].state \in {"writing", "waiting", "listing", "removing"}

Crash ==
    /\ Fault
    /\ writers' = [k \in Key |-> <<>>] /\ phase' = [k \in Key |-> "idle"]
    /\ calls' = [c \in Call |-> IF Open(c) THEN [calls[c] EXCEPT !.state = "lost"] ELSE calls[c]]
    /\ UNCHANGED <<files, temps, called>>

Write(k) == TempWritten(k) \/ Renamed(k) \/ WriteEnds(k) \/ WriteFails(k)
Proceed(c) == List(c) \/ Return(c) \/ \E k \in Key : RemoveFile(c, k) \/ RemoveTemp(c, k)

Next ==
    \/ \E K \in SUBSET Key \ {{}} : Set(K) \/ ClearAll(K)
    \/ \E k \in Key : Delete(k) \/ Write(k) \/ WriteRefused(k)
    \/ \E c \in Call : Proceed(c)
    \/ Crash

Spec == Init /\ [][Next]_vars

(* The operating system answers every request. *)
FairSpec == Spec /\ (\A k \in Key : WF_vars(Write(k))) /\ (\A c \in Call : WF_vars(Proceed(c)))

-----------------------------------------------------------------------------
(* Properties *)

TypeOK ==
    /\ files \in [Key -> Call \cup {None}] /\ temps \subseteq Key
    /\ writers \in [Key -> Seq(Call)]
    /\ phase \in [Key -> {"idle", "temp", "rename", "written", "refused"}]
    /\ \A k \in Key : phase[k] = "idle" <=> writers[k] = <<>>
    /\ called \in 0 .. MaxCalls /\ calls \in [Call -> CallState]
    /\ faults \in 0 .. MaxFaults

(* After a removal has been answered, no value stays that was set before   *)
(* it was called, provided it found at most MaxRounds writes of a file     *)
(* ahead of it.                                                            *)
RemovalIsFinal ==
    \A c \in Call :
        calls[c].kind # "set" /\ calls[c].state = "ok" =>
            \A k \in calls[c].keys :
                calls[c].ahead[k] <= MaxRounds => files[k] = None \/ files[k] > c

(* Unless the operating system refused something, a call fails only        *)
(* because a clearAll() called before it took away a temporary file, or    *)
(* one that found more than MaxRounds writes of a file ahead of it.        *)
FailureHasCause ==
    \A c \in Call :
        calls[c].failed /\ faults = 0 =>
            \E d \in Call : calls[d].kind = "clear" 
                /\ (d < c \/ \E k \in Key : calls[d].ahead[k] > MaxRounds)

(* Every call is answered, unless the process ends first. *)
EveryCallReturns == \A c \in Call : Open(c) ~> ~Open(c)

(* How a key-value store sees the calls: a set is pending until its file   *)
(* is renamed, a removal has to take effect on all its keys until it has   *)
(* looked at the files.                                                    *)
Pending == [k \in Key |-> IF phase[k] = "written" THEN Tail(writers[k]) ELSE writers[k]]
Kind == [c \in Call |-> calls[c].kind]
State == [c \in Call |-> IF Open(c) THEN "open" ELSE calls[c].state]
Todo == [c \in Call |->
            IF calls[c].kind = "set" \/ ~Open(c) THEN {}
            ELSE IF calls[c].state = "removing" THEN calls[c].left
            ELSE calls[c].keys]
Refused == {c \in Call : calls[c].failed}

Store == INSTANCE KeyValueStore WITH
    store <- files, pending <- Pending, kind <- Kind, state <- State, todo <- Todo,
    refused <- Refused

(* The files are a key-value store: overlapping calls take effect one at a *)
(* time, the sets of a file in the order of the calls, also over a crash.  *)
ImplementsStore == Store!Spec

=============================================================================
