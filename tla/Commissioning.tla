--------------------------- MODULE Commissioning ---------------------------
(***************************************************************************)
(* Commissioning of a device: the failsafe context (FailsafeContext.ts,    *)
(* FailsafeTimer.ts), the fabric table and its persistence                 *)
(* (FabricManager.ts), the commissioning window (DeviceCommissioner.ts,    *)
(* AdministratorCommissioningServer.ts) and the commands that use them     *)
(* (GeneralCommissioningServer.ts, OperationalCredentialsServer.ts,        *)
(* CommissioningServer.ts).                                                *)
(*                                                                         *)
(* Code between two awaits that really wait (key derivation, a write to    *)
(* the storage, the closing of a session) is one action.  The commands of  *)
(* OperationalCredentials hold the behavior's lock while they run          *)
(* (ClusterBehavior.lockOnInvoke), and so do the reactors to fabric        *)
(* events; everything else interleaves with them.                          *)
(***************************************************************************)
EXTENDS Naturals, Sequences, FiniteSets

CONSTANTS
    MaxIndex,          \* 254: the last fabric index
    SupportedFabrics,
    MaxNoc,            \* bound: operational certificates issued to one fabric
    MaxFailsafes,      \* bound: failsafe contexts
    MaxFaults       \* bound: crashes and writes refused

ASSUME CommissioningAssumption ==
    /\ MaxIndex \in Nat \ {0} /\ SupportedFabrics \in Nat \ {0}
    /\ {MaxNoc, MaxFailsafes, MaxFaults} \subseteq Nat

Index == 1 .. MaxIndex
NoFabric == 0
Pase == 0                   \* a session: Pase, or the index of a CASE session's fabric
Session == {Pase} \cup Index
NoSession == MaxIndex + 1   \* no session, or one that is gone

VARIABLES
    table,          \* FabricManager.#fabrics
    nextIndex,      \* FabricManager.#nextFabricIndex
    stored,         \* what the storage holds of both
    writes,         \* persistFabrics() calls under way
    failsafe,       \* DeviceCommissioner.#failsafeContext, as a set of at most one
    armed,          \* failsafe contexts so far
    command,        \* the OperationalCredentials command that holds the lock
    completing,     \* the completeCommission() under way
    pase,           \* the fabric of the PASE session, NoSession when there is none
    cases,          \* the Fabric object of every CASE session, by fabric index
    window,         \* closed, factory (nobody to revoke it) or admin
    changes,        \* fabric events whose reactors have not run
    commissioned,   \* CommissioningServer.state.commissioned
    erasing,        \* a factory reset waits for the sessions to close
    faults,      \* crashes and refused writes so far
    status,         \* what became of each fabric (history)
    confirmed,      \* the certificate each fabric is to have (history)
    removed,        \* indices RemoveFabric took out of the table (history)
    refused,        \* the storage refused a write (history)
    missed,         \* a reactor failed because of another fabric's failsafe (history)
    overtaken       \* a fabric was committed while a factory reset waited (history)

core == <<table, nextIndex>>
net == <<pase, cases>>
answers == <<confirmed, removed, refused, overtaken>>
history == <<status, answers>>
after == <<changes, commissioned, erasing, missed>>
vars == <<core, stored, writes, failsafe, armed, command, completing, net, window,
          after, faults, history>>

Fabric == [noc : 0 .. MaxNoc, tracked : BOOLEAN]
Nothing == [op |-> "none"]
Fault == faults < MaxFaults /\ faults' = faults + 1

Without(f, i) == [j \in DOMAIN f \ {i} |-> f[j]]
With(f, i, x) == [j \in DOMAIN f \cup {i} |-> IF j = i THEN x ELSE f[j]]
PartialFunctions(S, T) == UNION {[D -> T] : D \in SUBSET S}

Armed == failsafe # {}
Context == CHOOSE c \in failsafe : TRUE
Current(id) == \E c \in failsafe : c.id = id

(* A FailsafeContext and its timers: held says that #failsafe is set,      *)
(* timer that its timers run, stage how far the rollback is, monitored     *)
(* that CommissioningServer listens to it.                                 *)
FailsafeContext ==
    [id : 1 .. MaxFailsafes, held : BOOLEAN, timer : BOOLEAN,
     stage : {"none", "revoking", "pase", "network", "restoring", "again",
              "revokingAgain"},
     index : Index \cup {NoFabric}, update : {"unset", "no", "yes"}, root : BOOLEAN,
     csr : Session \cup {NoSession}, assoc : Index \cup {NoFabric}, assocFabric : Fabric,
     captured : BOOLEAN, monitored : BOOLEAN]

NewFabric == [noc |-> 0, tracked |-> TRUE]

IndexNoWrap(i) == i + 1     \* as a bug: no start over
IndexAfter(i) == IF i + 1 > MaxIndex THEN 1 ELSE i + 1

Init ==
    /\ table \in {<<>>, [i \in {1} |-> NewFabric]}
    /\ nextIndex = IF table = <<>> THEN 1 ELSE IndexAfter(1)
    /\ stored = [fabrics |-> [i \in DOMAIN table |-> table[i].noc], next |-> nextIndex]
    /\ writes = <<>> /\ failsafe = {} /\ armed = 0
    /\ command = Nothing /\ completing = Nothing
    /\ pase = NoSession /\ cases = <<>>
    /\ window = IF table = <<>> THEN "factory" ELSE "closed"
    /\ changes = <<>> /\ commissioned = (table # <<>>) /\ erasing = FALSE
    /\ faults = 0
    /\ status = [i \in Index |-> IF i \in DOMAIN table THEN "committed" ELSE "none"]
    /\ confirmed = [i \in Index |-> 0]
    /\ removed = {} /\ refused = FALSE /\ missed = FALSE /\ overtaken = FALSE

-----------------------------------------------------------------------------
(* The fabric table and its persistence *)

(* persistFabrics() takes every fabric of the table, whoever calls it      *)
(* (UpdateFabricLabel, not modelled, is one more caller).                  *)
Persist(fabrics, who) ==
    Append(writes, [fabrics |-> [i \in DOMAIN fabrics |-> fabrics[i].noc], who |-> who])

Written(who) == \A n \in DOMAIN writes : writes[n].who # who

(* The storage serialises the writes of one file.  The fabrics and the     *)
(* index after them are two files; a crash between the two writes only     *)
(* makes allocateFabricIndex() begin its search earlier.                   *)
WriteDone ==
    /\ writes # <<>>
    /\ stored' = [fabrics |-> Head(writes).fabrics, next |-> nextIndex]
    /\ writes' = Tail(writes)
    /\ UNCHANGED <<core, failsafe, armed, command, completing, net, window, after,
                   faults, history>>

Free(i) == i \notin DOMAIN table

(* allocateFabricIndex(): the first free index from nextIndex on, round the end *)
Allocated ==
    LET From(k) == IF nextIndex + k > MaxIndex THEN nextIndex + k - MaxIndex ELSE nextIndex + k
        k == CHOOSE k \in 0 .. MaxIndex - 1 :
                Free(From(k)) /\ \A j \in 0 .. k - 1 : ~Free(From(j))
    IN From(k)

(* An event whose reactors wait for the lock of OperationalCredentials *)
Announce(action, i) == Append(changes, [action |-> action, index |-> i])

-----------------------------------------------------------------------------
(* The end of a failsafe context *)

Set(c) == failsafe' = {c}

(* As a bug: any change is followed by a factory reset. *)
RecheckResets(fabrics) ==
    /\ commissioned' = (fabrics # <<>>)
    /\ erasing' = (erasing \/ commissioned # (fabrics # <<>>))

(* CommissioningServer's view of the table; nobody left means a factory reset. *)
Recheck(fabrics) ==
    /\ commissioned' = (fabrics # <<>>)
    /\ erasing' = (erasing \/ (commissioned /\ fabrics = <<>>))

(* Fabrics that left the table are no longer pending or committed. *)
Forget(gone) == status' = [i \in Index |-> IF i \in gone THEN "none" ELSE status[i]]

(* As a bug: nobody listens to the end of the context. *)
DestroyedSilently(c) == failsafe' = {} /\ UNCHANGED <<commissioned, erasing>>

(* The context is destroyed: the commissioner forgets it, and the          *)
(* CommissioningServer looks at the table if it was listening.             *)
Destroyed(c) ==
    /\ failsafe' = {}
    /\ IF c.monitored THEN Recheck(table)
                      ELSE UNCHANGED <<commissioned, erasing>>

RevokesUpdated(c) == c.index # NoFabric /\ c.update = "yes"     \* as a bug: inverted
Revokes(c) == c.index # NoFabric /\ c.update # "yes"

(* close(): the timers stop, and rollback() begins with revokeFabric(),    *)
(* which throws when the fabric is not in the table; the error is logged   *)
(* and the context is destroyed with the rest of the rollback undone.      *)
Close(c) ==
    LET closing == [c EXCEPT !.held = FALSE, !.timer = FALSE]
    IN  /\ IF Revokes(c)
           THEN IF Free(c.index)
                THEN Destroyed(c) /\ UNCHANGED <<table, writes>>
                ELSE /\ table' = Without(table, c.index)
                     /\ writes' = Persist(Without(table, c.index), "rollback")
                     /\ Set([closing EXCEPT !.stage = "revoking"])
                     /\ UNCHANGED <<commissioned, erasing>>
           ELSE /\ Set([closing EXCEPT !.stage = "pase"])
                /\ UNCHANGED <<table, writes, commissioned, erasing>>
        /\ UNCHANGED <<nextIndex, stored, armed, command, net, changes, missed,
                       faults, answers>>
        /\ Forget(DOMAIN table \ DOMAIN table')

(* Either timer fires, or an administrator re-arms it with zero seconds. *)
Expire ==
    /\ \E c \in failsafe : c.timer /\ c.held /\ c.stage = "none" /\ Close(c)
    /\ UNCHANGED <<completing, window>>

(* A session closes: a device without fabrics can be commissioned again. *)
Readvertise == window' = IF table = <<>> /\ window = "closed" THEN "factory" ELSE window

(* The end of fabric.remove(): the table has been written without fabric i. *)
Dropped(i) ==
    /\ changes' = Announce("removed", i)
    /\ cases' = Without(cases, i)
    /\ Readvertise

RollbackRevoked ==
    /\ \E c \in failsafe :
        /\ c.stage \in {"revoking", "revokingAgain"} /\ Written("rollback")
        /\ Dropped(c.index)
        /\ IF c.stage = "revoking"
           THEN /\ Set([c EXCEPT !.stage = "pase"])
                /\ UNCHANGED <<commissioned, erasing>>
           ELSE Destroyed(c)
    /\ UNCHANGED <<core, stored, writes, armed, command, completing, pase, missed,
                   faults, history>>

(* The PASE session is closed, then the CASE session of a fabric that is   *)
(* (still) in the table.                                                   *)
RollbackSessions ==
    /\ \E c \in failsafe :
        LET captured == c.index # NoFabric /\ ~Free(c.index)
        IN  /\ c.stage = "pase"
            /\ pase' = NoSession
            /\ cases' = IF captured THEN Without(cases, c.index) ELSE cases
            /\ Set([c EXCEPT !.stage = "network", !.captured = captured])
    /\ Readvertise
    /\ UNCHANGED <<core, stored, writes, armed, command, completing, after, faults,
                   history>>

RestoresNothing(c) == FALSE     \* as a bug: an UpdateNOC is kept
Restores(c) == c.update = "yes" /\ c.assoc # NoFabric

RestoresUnasked(c) == TRUE      \* as a bug: no look at the table first
CanRestore(c) == ~Free(c.assoc)

(* After the network state, the fabric of an UpdateNOC is put back as it   *)
(* was when the context was made; if it is gone the rollback ends here.    *)
RollbackRestore ==
    /\ \E c \in failsafe :
        /\ c.stage = "network"
        /\ IF Restores(c)
           THEN IF ~CanRestore(c)
                THEN Destroyed(c) /\ UNCHANGED <<table, writes, status>>
                ELSE LET restored == With(table, c.assoc, c.assocFabric)
                     IN  /\ table' = restored
                         /\ writes' = Persist(restored, "rollback")
                         /\ Set([c EXCEPT !.stage = "restoring"])
                         /\ status' = IF c.assocFabric.noc # confirmed[c.assoc]
                                      THEN [status EXCEPT ![c.assoc] = "reverted"] ELSE status
                         /\ UNCHANGED <<commissioned, erasing>>
           ELSE /\ Set([c EXCEPT !.stage = "again"])
                /\ UNCHANGED <<table, writes, commissioned, erasing, status>>
    /\ UNCHANGED <<nextIndex, stored, armed, command, completing, net, window,
                   changes, missed, faults, answers>>

RollbackRestored ==
    /\ \E c \in failsafe :
        /\ c.stage = "restoring" /\ Written("rollback")
        /\ changes' = Announce("updated", c.assoc)
        /\ Set([c EXCEPT !.stage = "again"])
    /\ UNCHANGED <<core, stored, writes, armed, command, completing, net, window,
                   commissioned, erasing, missed, faults, history>>

(* A fabric that was in the table when the sessions were closed is revoked *)
(* now, the breadcrumb is reset, and the context is destroyed.             *)
RollbackEnds ==
    /\ \E c \in failsafe :
        /\ c.stage = "again"
        /\ IF Revokes(c) /\ c.captured /\ ~Free(c.index)
           THEN /\ table' = Without(table, c.index)
                /\ writes' = Persist(Without(table, c.index), "rollback")
                /\ Set([c EXCEPT !.stage = "revokingAgain"])
                /\ UNCHANGED <<commissioned, erasing>>
           ELSE Destroyed(c) /\ UNCHANGED <<table, writes>>
    /\ Forget(DOMAIN table \ DOMAIN table')
    /\ UNCHANGED <<nextIndex, stored, armed, command, completing, net, window,
                   changes, missed, faults, answers>>

-----------------------------------------------------------------------------
(* Sessions, the window and the failsafe *)

NewContext(assoc, fabric) ==
    [id |-> armed + 1, held |-> TRUE, timer |-> TRUE, stage |-> "none",
     index |-> NoFabric, update |-> "unset", root |-> FALSE, csr |-> NoSession,
     assoc |-> assoc, assocFabric |-> fabric, captured |-> FALSE, monitored |-> FALSE]

Arm(assoc, fabric) ==
    /\ armed < MaxFailsafes /\ armed' = armed + 1
    /\ Set(NewContext(assoc, fabric))

(* ArmFailSafe when nothing is armed; re-arming changes nothing but how    *)
(* long the timers still run, which Expire leaves open.                    *)
ArmFailSafe ==
    /\ ~Armed
    /\ \/ pase # NoSession /\ Arm(pase, NewFabric)
       \/ \E i \in DOMAIN cases : window # "admin" /\ Arm(i, cases[i])
    /\ UNCHANGED <<core, stored, writes, command, completing, net, window, after,
                   faults, history>>

(* A device without fabrics and sessions resets itself, which takes it     *)
(* offline first.                                                          *)
GoingOffline == erasing /\ cases = <<>> /\ pase = NoSession

(* A PASE session is established; it arms the failsafe. *)
OpenPase ==
    /\ pase = NoSession /\ window # "closed" /\ ~GoingOffline
    /\ pase' = NoFabric
    /\ IF Armed THEN UNCHANGED <<failsafe, armed>> ELSE Arm(NoFabric, NewFabric)
    /\ UNCHANGED <<core, stored, writes, command, completing, cases, window, after,
                   faults, history>>

(* A CASE session holds the Fabric object of the moment it was made; a     *)
(* request for a certificate made over an earlier one is nobody's now.     *)
OpenCase(i) ==
    /\ ~Free(i) /\ ~GoingOffline
    /\ cases' = With(cases, i, table[i])
    /\ failsafe' = {[c EXCEPT !.csr = IF @ = i THEN NoSession ELSE @] : c \in failsafe}
    /\ UNCHANGED <<core, stored, writes, armed, command, completing, pase, window,
                   after, faults, history>>

OpenWindow ==
    /\ window = "closed" /\ ~Armed /\ cases # <<>>
    /\ window' = "admin"
    /\ UNCHANGED <<core, stored, writes, failsafe, armed, command, completing, net,
                   after, faults, history>>

(* The window times out, or too many PASE attempts failed. *)
WindowEnds ==
    /\ window # "closed" /\ window' = "closed"
    /\ UNCHANGED <<core, stored, writes, failsafe, armed, command, completing, net,
                   after, faults, history>>

(* RevokeCommissioning closes the context although it may be completing;   *)
(* one that is rolling back is waited for.                                 *)
RevokeCommissioning ==
    /\ window = "admin" /\ window' = "closed"
    /\ IF \E c \in failsafe : c.stage = "none"
       THEN /\ Close(Context)
            /\ completing' = IF completing = Nothing THEN Nothing
                             ELSE [completing EXCEPT !.disturbed = TRUE]
       ELSE UNCHANGED <<core, stored, writes, failsafe, armed, command, completing, net,
                        after, faults, history>>

StillRunning(c) == c            \* as a bug: complete() leaves the timers alone
Disarmed(c) == [c EXCEPT !.timer = FALSE]

(* CommissioningComplete over the CASE session of the associated fabric:   *)
(* the timers stop, and the fabrics are persisted if a NOC was added or    *)
(* updated.  A context that is rolling back refuses.  #failsafe is cleared *)
(* next, so that the close() at the end rolls nothing back, and the window *)
(* is closed.                                                              *)
CommissioningComplete ==
    /\ completing = Nothing
    /\ \E c \in failsafe :
        LET persists == c.index # NoFabric
        IN  /\ c.assoc \in DOMAIN cases /\ c.held
            /\ completing' = [op |-> IF persists THEN "persisting" ELSE "closing", id |-> c.id,
                              fabric |-> c.assoc, persists |-> persists,
                              disturbed |-> Free(c.assoc)]
            /\ Set([Disarmed(c) EXCEPT !.held = persists])
            /\ writes' = IF persists THEN Persist(table, "complete") ELSE writes
            /\ window' = IF persists THEN window ELSE "closed"
    /\ UNCHANGED <<core, stored, armed, command, net, after, faults, history>>

CommissioningPersisted ==
    /\ completing.op = "persisting" /\ Written("complete")
    /\ completing' = [completing EXCEPT !.op = "closing"]
    /\ failsafe' = {[c EXCEPT !.held = @ /\ c.id # completing.id] : c \in failsafe}
    /\ window' = "closed"
    /\ UNCHANGED <<core, stored, writes, armed, command, net, after, faults,
                   history>>

(* The answer is Success, which commits what has been persisted, unless    *)
(* somebody revoked or removed the fabric meanwhile (undone).  A fabric    *)
(* that is gone although nobody did is lost, and one added under this      *)
(* context without being the associated one has no failsafe any more.      *)
Answered(i, added) ==
    LET persisted == completing.persists /\ ~Free(i) /\ ~completing.disturbed
    IN  /\ status' = [j \in Index |->
             CASE j = i /\ completing.disturbed -> "undone"
               [] j = i /\ ~completing.disturbed ->
                      IF Free(i) THEN "lost" ELSE IF persisted THEN "committed" ELSE status[i]
               [] j # i -> IF j = added /\ ~Free(j) THEN "late" ELSE status[j]]
        /\ confirmed' = IF persisted THEN [confirmed EXCEPT ![i] = table[i].noc] ELSE confirmed
        /\ overtaken' = (overtaken \/ (persisted /\ erasing))
        /\ completing' = Nothing
        /\ UNCHANGED <<removed, refused>>

(* As a bug: completeCommission() without the close() at its end. *)
CommissioningLeftOpen ==
    /\ completing.op = "closing"
    /\ pase' = NoSession /\ Answered(completing.fabric, NoFabric)
    /\ UNCHANGED <<core, stored, writes, failsafe, armed, command, cases, window, after, faults>>

(* The PASE session is closed and then the context.  A rollback somebody   *)
(* else began meanwhile is waited for before the answer; if that is over   *)
(* already the wait never ends (Construction's closed).                    *)
CommissioningClosed ==
    /\ completing.op = "closing"
    /\ pase' = NoSession
    /\ IF Current(completing.id)
       THEN IF Context.stage = "none"
            THEN Destroyed(Context) /\ Answered(completing.fabric, Context.index)
            ELSE Answered(completing.fabric, NoFabric)
                 /\ UNCHANGED <<failsafe, commissioned, erasing>>
       ELSE /\ completing' = [completing EXCEPT !.op = "hung"]
            /\ UNCHANGED <<failsafe, commissioned, erasing, history>>
    /\ UNCHANGED <<core, stored, writes, armed, command, cases, window, changes,
                   missed, faults>>

-----------------------------------------------------------------------------
(* The commands of OperationalCredentials *)

Sessions == DOMAIN cases \cup (IF pase # NoSession THEN {Pase} ELSE {})

(* An UpdateNOC may not be asked for over PASE. *)
CsrRequest(s, forUpdate) ==
    /\ command = Nothing /\ ~(forUpdate /\ s = Pase)
    /\ \E c \in failsafe :
        /\ c.index = NoFabric
        /\ Set([c EXCEPT !.csr = s, !.update = IF forUpdate THEN "yes" ELSE "no"])
    /\ UNCHANGED <<core, stored, writes, armed, command, completing, net, window,
                   after, faults, history>>

AddTrustedRootCertificate ==
    /\ command = Nothing
    /\ \E c \in failsafe : ~c.root /\ c.index = NoFabric /\ Set([c EXCEPT !.root = TRUE])
    /\ UNCHANGED <<core, stored, writes, armed, command, completing, net, window,
                   after, faults, history>>

(* AddNOC up to the key derivation, which gives the context its index. *)
AddNoc(s) ==
    /\ command = Nothing
    /\ \E c \in failsafe :
        /\ c.index = NoFabric /\ c.root /\ c.csr = s /\ c.update = "no"
        /\ Cardinality(DOMAIN table) < SupportedFabrics
        /\ \E i \in Index : Free(i)
        /\ Set([c EXCEPT !.index = Allocated])
        /\ command' = [op |-> "add", id |-> c.id, index |-> Allocated, session |-> s]
        /\ nextIndex' = IndexAfter(Allocated)
    /\ UNCHANGED <<table, stored, writes, armed, completing, net, window, after,
                   faults, history>>

(* addFabric() whatever became of the context meanwhile; only one whose    *)
(* failsafe is still there becomes associated with the fabric.             *)
AddNocBuilt ==
    LET i == command.index
        guarded == \E c \in failsafe : c.id = command.id /\ c.held
    IN  /\ command.op = "add"
        /\ table' = With(table, i, NewFabric)
        /\ failsafe' = IF guarded THEN {[Context EXCEPT !.assoc = i, !.assocFabric = NewFabric]}
                                  ELSE failsafe
        /\ pase' = IF command.session = Pase /\ pase = NoFabric THEN i ELSE pase
        /\ changes' = Announce("added", i)
        /\ command' = Nothing
        /\ status' = [status EXCEPT ![i] = IF guarded THEN "pending" ELSE "late"]
        /\ confirmed' = [confirmed EXCEPT ![i] = 0]
        /\ removed' = removed \ {i}
        /\ UNCHANGED <<nextIndex, stored, writes, armed, completing, cases, window,
                       commissioned, erasing, missed, faults, refused, overtaken>>

(* UpdateNOC over the CASE session of the associated fabric *)
UpdateNoc(i) ==
    /\ command = Nothing /\ i \in DOMAIN cases
    /\ \E c \in failsafe :
        /\ c.index = NoFabric /\ c.update = "yes" /\ ~c.root /\ c.assoc = i
        /\ ~Free(i) /\ table[i].noc < MaxNoc
        /\ Set([c EXCEPT !.index = i])
        /\ command' = [op |-> "update", id |-> c.id, index |-> i, noc |-> table[i].noc + 1]
    /\ UNCHANGED <<core, stored, writes, armed, completing, net, window, after,
                   faults, history>>

(* updateFabric() puts in a Fabric object that has no remove callback; the *)
(* command fails if the fabric has gone.                                   *)
UpdateNocBuilt ==
    LET i == command.index
        updated == [table EXCEPT ![i] = [noc |-> command.noc, tracked |-> FALSE]]
    IN  /\ command.op = "update"
        /\ IF Free(i)
           THEN command' = Nothing /\ UNCHANGED <<table, writes, status>>
           ELSE /\ table' = updated
                /\ writes' = Persist(updated, "command")
                /\ command' = [op |-> "updating", index |-> i]
                /\ status' = IF \E c \in failsafe : c.id = command.id /\ c.held THEN status
                             ELSE [status EXCEPT ![i] = "late"]
        /\ UNCHANGED <<nextIndex, stored, failsafe, armed, completing, net, window,
                       after, faults, answers>>

(* RemoveFabric looks the fabric up in the table and calls its remove      *)
(* callbacks.  A fabric that came with an UpdateNOC has none: nothing      *)
(* happens and the answer is Ok.                                           *)
RemoveFabric(i) ==
    /\ command = Nothing /\ ~Free(i) /\ Sessions # {}
    /\ IF table[i].tracked
       THEN /\ table' = Without(table, i)
            /\ writes' = Persist(Without(table, i), "command")
            /\ command' = [op |-> "removing", index |-> i]
            /\ Forget({i})
            /\ completing' = IF completing # Nothing /\ completing.fabric = i
                             THEN [completing EXCEPT !.disturbed = TRUE] ELSE completing
       ELSE /\ command' = [op |-> "leaving", index |-> i]
            /\ UNCHANGED <<table, writes, completing, status>>
    /\ UNCHANGED <<nextIndex, stored, failsafe, armed, net, window, after, faults,
                   answers>>

(* RemoveFabric answers, having left the fabric where it is. *)
FabricLeft ==
    /\ command.op = "leaving" /\ command' = Nothing
    /\ UNCHANGED <<core, stored, writes, failsafe, armed, completing, net, window,
                   after, faults, history>>

(* The write a command waits for is done: its event is emitted. *)
CommandWritten ==
    /\ command.op \in {"updating", "removing"} /\ Written("command")
    /\ command' = Nothing
    /\ IF command.op = "removing"
       THEN Dropped(command.index) /\ removed' = removed \cup {command.index}
       ELSE /\ changes' = Announce("updated", command.index)
            /\ UNCHANGED <<cases, window, removed>>
    /\ UNCHANGED <<core, stored, writes, failsafe, armed, completing, pase,
                   commissioned, erasing, missed, faults, status, confirmed, refused,
                   overtaken>>

-----------------------------------------------------------------------------
(* Reactors, errors and restarts *)

Owned(i) == \A c \in failsafe : c.index = i

(* handleFabricChange(): an addition or update is left to the end of the   *)
(* failsafe that owns it; one of another fabric than the failsafe's, or    *)
(* its removal, makes the reactor fail.                                    *)
HandleFabricChange ==
    /\ changes # <<>> /\ command = Nothing
    /\ changes' = Tail(changes)
    /\ LET own == Owned(Head(changes).index)
       IN  IF own /\ (Head(changes).action = "removed" \/ ~Armed)
           THEN Recheck(table) /\ UNCHANGED <<failsafe, missed>>
           ELSE /\ failsafe' = IF own THEN {[c EXCEPT !.monitored = TRUE] : c \in failsafe}
                                      ELSE failsafe
                /\ missed' = (missed \/ (~own /\ Head(changes).action # "updated"))
                /\ UNCHANGED <<commissioned, erasing>>
    /\ UNCHANGED <<core, stored, writes, armed, command, completing, net, window,
                   faults, history>>

(* A write is refused: the rollback is cut short and the context           *)
(* destroyed; completeCommission() throws, with #failsafe still set and    *)
(* its timers stopped; a command throws before its event.                  *)
WriteError ==
    /\ writes # <<>> /\ writes' = Tail(writes)
    /\ Fault
    /\ LET who == Head(writes).who
       IN  /\ IF who = "rollback" THEN Destroyed(Context)
              ELSE UNCHANGED <<failsafe, commissioned, erasing>>
           /\ completing' = IF who = "complete" THEN Nothing ELSE completing
           /\ command' = IF who = "command" THEN Nothing ELSE command
    /\ refused' = TRUE
    /\ UNCHANGED <<core, stored, armed, net, window, changes, missed, status,
                   confirmed, removed, overtaken>>

Blank(fabrics, next) ==
    /\ table' = [i \in DOMAIN fabrics |-> [noc |-> fabrics[i], tracked |-> TRUE]]
    /\ nextIndex' = next
    /\ writes' = <<>> /\ failsafe' = {}
    /\ command' = Nothing /\ completing' = Nothing
    /\ pase' = NoSession /\ cases' = <<>>
    /\ window' = IF fabrics = <<>> THEN "factory" ELSE "closed"
    /\ changes' = <<>> /\ commissioned' = (fabrics # <<>>) /\ erasing' = FALSE
    /\ missed' = FALSE

(* The device starts again from what its storage holds. *)
Crash ==
    /\ Fault
    /\ Blank(stored.fabrics, stored.next)
    /\ status' = [i \in Index |->
         IF i \in DOMAIN stored.fabrics
         THEN IF status[i] = "committed" /\ stored.fabrics[i] = confirmed[i]
              THEN "committed" ELSE "recovered"
         ELSE IF status[i] = "committed" THEN "lost" ELSE "none"]
    /\ UNCHANGED <<stored, armed, answers>>

(* The last session of a device nobody has commissioned any more closes:   *)
(* the node erases itself (and its failsafe, if one is armed, is closed).  *)
FactoryReset ==
    /\ GoingOffline
    /\ command = Nothing /\ completing = Nothing /\ writes = <<>>
    /\ stored' = [fabrics |-> <<>>, next |-> 1]
    /\ Blank(<<>>, 1)
    /\ status' = [i \in Index |-> IF status[i] = "committed" THEN "erased" ELSE "none"]
    /\ removed' = {}
    /\ UNCHANGED <<armed, faults, confirmed, refused, overtaken>>

Rollback == RollbackRevoked \/ RollbackSessions \/ RollbackRestore \/ RollbackRestored
            \/ RollbackEnds
Completion == CommissioningPersisted \/ CommissioningClosed
CommandSteps == AddNocBuilt \/ UpdateNocBuilt \/ FabricLeft \/ CommandWritten

Next ==
    \/ ArmFailSafe \/ OpenPase \/ OpenWindow \/ WindowEnds \/ RevokeCommissioning
    \/ Expire \/ Rollback \/ CommissioningComplete \/ Completion
    \/ \E i \in Index : OpenCase(i) \/ UpdateNoc(i) \/ RemoveFabric(i)
    \/ \E s \in Sessions, forUpdate \in BOOLEAN : CsrRequest(s, forUpdate)
    \/ \E s \in Sessions : AddNoc(s)
    \/ AddTrustedRootCertificate \/ CommandSteps
    \/ HandleFabricChange \/ WriteDone \/ WriteError \/ Crash \/ FactoryReset

Spec == Init /\ [][Next]_vars

-----------------------------------------------------------------------------
(* Properties *)

TypeOK ==
    /\ table \in PartialFunctions(Index, Fabric) /\ nextIndex \in Index
    /\ stored.fabrics \in PartialFunctions(Index, 0 .. MaxNoc) /\ stored.next \in Index
    /\ failsafe \subseteq FailsafeContext /\ Cardinality(failsafe) <= 1
    /\ armed \in 0 .. MaxFailsafes /\ faults \in 0 .. MaxFaults
    /\ pase \in {NoSession, NoFabric} \cup Index
    /\ cases \in PartialFunctions(Index, Fabric)
    /\ window \in {"closed", "factory", "admin"}
    /\ {commissioned, erasing, missed, refused, overtaken} \subseteq BOOLEAN
    /\ status \in [Index -> {"none", "pending", "committed", "late", "recovered", "undone",
                             "lost", "reverted", "erased"}]
    /\ confirmed \in [Index -> 0 .. MaxNoc] /\ removed \subseteq Index

(* A fabric added under a failsafe that was there to the end of AddNOC is  *)
(* in the table only as long as that failsafe can still take it out.       *)
PendingHasFailsafe ==
    \A i \in Index : status[i] = "pending" =>
        ~Free(i) /\ \E c \in failsafe : c.index = i

(* A fabric whose commissioning was answered with success is lost neither  *)
(* to the failsafe nor to a crash.                                         *)
NeverLost == \A i \in Index : status[i] # "lost"

Settled == ~Armed /\ command = Nothing /\ completing = Nothing

(* When no failsafe is left a committed fabric has the certificate it was  *)
(* last committed with, whatever UpdateNOC and rollback did.               *)
NocSettled ==
    Settled => \A i \in DOMAIN table : status[i] = "committed" => table[i].noc = confirmed[i]

(* A fabric RemoveFabric took out is not put back by a rollback or an      *)
(* UpdateNOC, nor by a restart when the removal has been written.          *)
RemovedIsGone ==
    \A i \in removed : Free(i) /\ (writes = <<>> => i \notin DOMAIN stored.fabrics)

(* RemoveFabric answers Ok only for a fabric it removes. *)
RemoveTakesEffect == command.op # "leaving"

(* The node says it is commissioned exactly when it has fabrics.           *)
CommissionedAgrees ==
    Settled /\ changes = <<>> /\ ~missed /\ ~refused => commissioned = (table # <<>>)

(* Every failsafe has somebody to end it: its timers, a rollback or a      *)
(* CommissioningComplete under way; only a write the storage refused can   *)
(* leave it armed for ever.                                                *)
FailsafeWatched ==
    ~refused =>
        \A c \in failsafe :
            \/ c.timer \/ c.stage # "none"
            \/ completing # Nothing /\ completing.id = c.id

(* A factory reset erases a committed fabric only if that fabric was       *)
(* committed while the reset already waited for the sessions to close      *)
(* (#handleSessionClosed looks at the sessions, not at the fabrics).       *)
NeverErased == (\E i \in Index : status[i] = "erased") => overtaken

=============================================================================
