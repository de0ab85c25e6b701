---------------------------- MODULE Transaction ----------------------------
(***************************************************************************)
(* Transactions over endpoint state: general/src/transaction/Tx.ts and     *)
(* ResourceSet.ts.  act() runs an actor with a transaction, commits it     *)
(* when the actor returns (again, as long as post-commit handlers write),  *)
(* rolls it back when the actor throws, and destroys it.                   *)
(*                                                                         *)
(* A resource is also the participant that writes it, as every Datasource  *)
(* is.  Code between two awaits is one action; handlers of the             *)
(* participants may be asynchronous, so those of one transaction end in    *)
(* any order and steps of other transactions come between them.            *)
(***************************************************************************)
EXTENDS Naturals, FiniteSets

CONSTANTS
    Tx, Resource,
    NoTx,               \* lockedBy is undefined
    MaxChainedCommits,  \* MAX_CHAINED_COMMITS
    MaxPreCommitCycles, \* MAX_PRECOMMIT_CYCLES
    MaxOwnCommits,      \* bound: commits and rollbacks an actor asks for itself
    AwaitsCalls,        \* actors await begin() and addResources() before they end
    PostCommitWrites    \* post-commit handlers may write

ASSUME TransactionAssumption ==
    /\ NoTx \notin Tx
    /\ MaxChainedCommits \in Nat \ {0} /\ MaxPreCommitCycles \in Nat \ {0}
    /\ MaxOwnCommits \in Nat
    /\ AwaitsCalls \in BOOLEAN /\ PostCommitWrites \in BOOLEAN

VARIABLES
    status,         \* Tx.#status
    resources,      \* Tx.#resources
    participants,   \* Tx.#participants
    waitingOn,      \* Tx.#waitingOn ({} when undefined)
    lockedBy,       \* Resource.lockedBy
    pending,        \* the acquireLocks() call begin() or addResources() awaits
    stage,          \* what act() or the running commit is doing
    byActor,        \* the running commit or rollback was asked for by the actor
    cycles,         \* pre-commit cycles of the running commit
    mutated,        \* mayHaveMutated
    vote,           \* how far each participant got in the running finalization
    failed,         \* the running finalization ends in an error
    commits,        \* commits act() started
    ownCommits,     \* finalizations the actor asked for
    overwritten     \* resources of t that others committed since t wrote (history)

vars == <<status, resources, participants, waitingOn, lockedBy, pending, stage,
          byActor, cycles, mutated, vote, failed, commits, ownCommits, overwritten>>

locks == <<waitingOn, lockedBy, pending>>
flow == <<byActor, cycles, mutated, vote, failed, commits, ownCommits>>

Idle == [op |-> "none", want |-> {}]
NoVotes == [r \in Resource |-> "none"]
Committing == {"committing1", "committing2"}

-----------------------------------------------------------------------------
(* Acquiring and releasing locks (ResourceSet). *)

Blockers(t, want) == {lockedBy[r] : r \in want} \ {t, NoTx}

\* Faulty: only the direct blockers are looked at.
DirectlySafe(t, blockers) == \A o \in blockers : t \notin waitingOn[o]

\* #detectDeadlock passes: following waitingOn from the blockers never leads to
\* t.  What can be reached is the smallest set that holds the blockers and is
\* closed under waitingOn.
SafeToWait(t, blockers) ==
    \E reached \in SUBSET Tx :
        /\ blockers \subseteq reached
        /\ \A o \in reached : waitingOn[o] \subseteq reached
        /\ t \notin reached

CanAddNow(t) == status[t] \in {"shared", "exclusive"}

TakenLocks(t, want) == [r \in Resource |-> IF r \in want THEN t ELSE lockedBy[r]]

\* The locks are free.  A transaction that moved on meanwhile still gets them.
Granted(t, op, want) ==
    /\ lockedBy' = TakenLocks(t, want)
    /\ pending' = [pending EXCEPT ![t] = Idle]
    /\ waitingOn' = [waitingOn EXCEPT ![t] = {}]
    /\ status' = [status EXCEPT ![t] = IF op = "begin" THEN "exclusive" ELSE @]
    /\ resources' = [resources EXCEPT ![t] =
                        IF op = "add" /\ CanAddNow(t) THEN @ \cup want ELSE @]

\* Waiting would close a cycle, or the transaction is destroyed: begin() resets
\* the status and throws.
Refused(t, op) ==
    /\ pending' = [pending EXCEPT ![t] = Idle]
    /\ waitingOn' = [waitingOn EXCEPT ![t] = {}]
    /\ status' = [status EXCEPT ![t] = IF op = "begin" THEN "shared" ELSE @]
    /\ UNCHANGED <<lockedBy, resources>>

\* waitFor() the holders.
Blocked(t, op, want) ==
    /\ pending' = [pending EXCEPT ![t] = [op |-> op, want |-> want]]
    /\ waitingOn' = [waitingOn EXCEPT ![t] = Blockers(t, want)]
    /\ status' = [status EXCEPT ![t] = IF op = "begin" THEN "waiting" ELSE @]
    /\ UNCHANGED <<lockedBy, resources>>

\* One round of acquireLocks.
Acquire(t, op, want) ==
    \/ Blockers(t, want) = {} /\ Granted(t, op, want)
    \/ /\ Blockers(t, want) # {}
       /\ IF status[t] # "destroyed" /\ SafeToWait(t, Blockers(t, want))
          THEN Blocked(t, op, want)
          ELSE Refused(t, op)

\* Everything t waited for became shared: acquireLocks goes round again.
Resume(t) ==
    /\ pending[t].op # "none" /\ waitingOn[t] = {}
    /\ Acquire(t, pending[t].op, pending[t].want)
    /\ UNCHANGED <<participants, stage, flow, overwritten>>

-----------------------------------------------------------------------------
(* What the actor and the pre- and post-commit handlers do. *)

Handling(t) ==
    /\ stage[t] \in {"actor", "precommit", "postcommit"}
    /\ stage[t] = "postcommit" => PostCommitWrites
    /\ pending[t] = Idle

\* addResources
AddResource(t, r) ==
    /\ Handling(t) /\ CanAddNow(t) /\ r \notin resources[t]
    /\ \/ status[t] = "exclusive" /\ Acquire(t, "add", {r})
       \/ /\ status[t] = "shared"
          /\ resources' = [resources EXCEPT ![t] = @ \cup {r}]
          /\ UNCHANGED <<status, locks>>
    /\ UNCHANGED <<participants, stage, flow, overwritten>>

Begin(t) ==
    /\ Handling(t) /\ status[t] = "shared"
    /\ Acquire(t, "begin", resources[t])
    /\ UNCHANGED <<participants, stage, flow, overwritten>>

\* Resources a write to r locks: addResourcesSync, then beginSync.
WriteLocks(t, r) == IF status[t] = "exclusive" THEN {r} ELSE resources[t] \cup {r}

\* Faulty: only the resource that is written is looked at.
NarrowConflict(t, r) == Blockers(t, {r}) # {}

Conflict(t, r) == Blockers(t, WriteLocks(t, r)) # {}

\* A write that succeeds: addResourcesSync, beginSync, addParticipants.
Write(t, r) ==
    /\ Handling(t) /\ CanAddNow(t) /\ r \notin participants[t]
    /\ ~Conflict(t, r)
    /\ resources' = [resources EXCEPT ![t] = @ \cup {r}]
    /\ participants' = [participants EXCEPT ![t] = @ \cup {r}]
    /\ status' = [status EXCEPT ![t] = "exclusive"]
    /\ lockedBy' = TakenLocks(t, WriteLocks(t, r))
    /\ mutated' = [mutated EXCEPT ![t] = stage[t] = "precommit"]
    /\ overwritten' = [overwritten EXCEPT ![t] = @ \ {r}]
    /\ UNCHANGED <<waitingOn, pending, stage, byActor, cycles, vote, failed, commits, ownCommits>>

\* A write that throws SynchronousTransactionConflictError; a shared transaction
\* keeps the resource it added.
WriteConflict(t, r) ==
    /\ Handling(t) /\ CanAddNow(t) /\ Conflict(t, r)
    /\ status[t] = "shared" /\ r \notin resources[t]
    /\ resources' = [resources EXCEPT ![t] = @ \cup {r}]
    /\ UNCHANGED <<status, participants, locks, stage, flow, overwritten>>

-----------------------------------------------------------------------------
(* Commit and rollback. *)

StartRollback(t, error) ==
    /\ status' = [status EXCEPT ![t] = "rollingback"]
    /\ stage' = [stage EXCEPT ![t] = "rollback"]
    /\ failed' = [failed EXCEPT ![t] = error]

\* close(): locks are not released here.
Close(t) ==
    /\ status' = [status EXCEPT ![t] = "destroyed"]
    /\ stage' = [stage EXCEPT ![t] = "closed"]
    /\ resources' = [resources EXCEPT ![t] = {}]
    /\ participants' = [participants EXCEPT ![t] = {}]
    /\ failed' = [failed EXCEPT ![t] = FALSE]

\* commit(): a shared transaction is rolled back instead.
StartCommit(t) ==
    /\ IF status[t] = "shared"
       THEN StartRollback(t, FALSE)
       ELSE /\ stage' = [stage EXCEPT ![t] = "precommit"]
            /\ failed' = [failed EXCEPT ![t] = FALSE]
            /\ UNCHANGED status
    /\ cycles' = [cycles EXCEPT ![t] = 1]
    /\ mutated' = [mutated EXCEPT ![t] = FALSE]
    /\ vote' = [vote EXCEPT ![t] = NoVotes]
    /\ UNCHANGED <<resources, participants>>

\* The actor may end while a call it did not await is pending.
MayEnd(t) == stage[t] = "actor" /\ (AwaitsCalls => pending[t] = Idle)

ActorReturns(t) ==
    /\ MayEnd(t)
    /\ StartCommit(t)
    /\ commits' = [commits EXCEPT ![t] = 1]
    /\ byActor' = [byActor EXCEPT ![t] = FALSE]
    /\ UNCHANGED <<locks, ownCommits, overwritten>>

\* handleTransactionError: roll back; a transaction still waiting for its locks
\* refuses to, and is closed as it is.
ActorThrows(t) ==
    /\ MayEnd(t)
    /\ IF CanAddNow(t)
       THEN StartRollback(t, TRUE) /\ UNCHANGED <<resources, participants>>
       ELSE Close(t)
    /\ byActor' = [byActor EXCEPT ![t] = FALSE]
    /\ vote' = [vote EXCEPT ![t] = NoVotes]
    /\ UNCHANGED <<locks, cycles, mutated, commits, ownCommits, overwritten>>

\* The actor calls commit() or rollback() itself.
ActorFinalizes(t) ==
    /\ stage[t] = "actor" /\ pending[t] = Idle /\ ownCommits[t] < MaxOwnCommits
    /\ \/ StartCommit(t)
       \/ /\ StartRollback(t, FALSE)
          /\ vote' = [vote EXCEPT ![t] = NoVotes]
          /\ UNCHANGED <<resources, participants, cycles, mutated>>
    /\ ownCommits' = [ownCommits EXCEPT ![t] = @ + 1]
    /\ byActor' = [byActor EXCEPT ![t] = TRUE]
    /\ UNCHANGED <<locks, commits, overwritten>>

\* A cycle of pre-commit handlers ends: go round again while they mutate, then
\* enter phase one; too many rounds are an error.
PreCommitEnds(t) ==
    /\ stage[t] = "precommit" /\ (AwaitsCalls => pending[t] = Idle)
    /\ IF mutated[t]
       THEN /\ cycles' = [cycles EXCEPT ![t] = @ + 1]
            /\ mutated' = [mutated EXCEPT ![t] = FALSE]
            /\ IF cycles[t] + 1 > MaxPreCommitCycles
               THEN StartRollback(t, TRUE)
               ELSE UNCHANGED <<status, stage, failed>>
            /\ UNCHANGED <<resources, participants>>
       ELSE /\ IF status[t] = "exclusive"
               THEN /\ status' = [status EXCEPT ![t] = "committing1"]
                    /\ stage' = [stage EXCEPT ![t] = "commit1"]
                    /\ UNCHANGED <<failed, resources, participants>>
               ELSE Close(t)
            /\ UNCHANGED <<cycles, mutated>>
    /\ UNCHANGED <<locks, byActor, vote, commits, ownCommits, overwritten>>

PreCommitThrows(t) ==
    /\ stage[t] = "precommit" /\ pending[t] = Idle /\ participants[t] # {}
    /\ StartRollback(t, TRUE)
    /\ UNCHANGED <<resources, participants, locks, byActor, cycles, mutated, vote,
                   commits, ownCommits, overwritten>>

\* commit1() of one participant returns or fails.
Commit1(t, r) ==
    /\ stage[t] = "commit1" /\ r \in participants[t] /\ vote[t][r] = "none"
    /\ \E v \in {"prepared", "refused"} : vote' = [vote EXCEPT ![t][r] = v]
    /\ UNCHANGED <<status, resources, participants, locks, stage, byActor, cycles, mutated,
                   failed, commits, ownCommits, overwritten>>

\* Faulty: everybody has answered.
AllAnswered(t) == \A r \in participants[t] : vote[t][r] # "none"

AllPrepared(t) == \A r \in participants[t] : vote[t][r] = "prepared"

\* All of phase one is done, or a participant failed synchronously and the rest
\* was not asked.
Commit1Ends(t) ==
    /\ stage[t] = "commit1"
    /\ \/ /\ \E r \in participants[t] : vote[t][r] = "refused"
          /\ StartRollback(t, TRUE)
       \/ /\ AllPrepared(t)
          /\ status' = [status EXCEPT ![t] = "committing2"]
          /\ stage' = [stage EXCEPT ![t] = "commit2"]
          /\ UNCHANGED failed
    /\ UNCHANGED <<resources, participants, locks, byActor, cycles, mutated, vote,
                   commits, ownCommits, overwritten>>

\* commit2() of one participant publishes its changes, or fails.
Commit2(t, r) ==
    /\ stage[t] = "commit2" /\ r \in participants[t]
    /\ vote[t][r] = "prepared"
    /\ \/ /\ vote' = [vote EXCEPT ![t][r] = "committed"]
          /\ overwritten' = [o \in Tx |->
                                IF o # t /\ r \in participants[o]
                                THEN overwritten[o] \cup {r} ELSE overwritten[o]]
          /\ UNCHANGED failed
       \/ /\ vote' = [vote EXCEPT ![t][r] = "broken"]
          /\ failed' = [failed EXCEPT ![t] = TRUE]
          /\ UNCHANGED overwritten
    /\ UNCHANGED <<status, resources, participants, locks, stage, byActor, cycles, mutated,
                   commits, ownCommits>>

\* rollback() of one participant, which may fail; the others are still undone.
Rollback(t, r) ==
    /\ stage[t] = "rollback" /\ r \in participants[t] /\ vote[t][r] # "undone"
    /\ vote' = [vote EXCEPT ![t][r] = "undone"]
    /\ \E error \in {failed[t], TRUE} : failed' = [failed EXCEPT ![t] = error]
    /\ UNCHANGED <<status, resources, participants, locks, stage, byActor, cycles, mutated,
                   commits, ownCommits, overwritten>>

\* Faulty: every resource of t is released, whoever holds it.
AllReleased(t) == [r \in Resource |-> IF r \in resources[t] THEN NoTx ELSE lockedBy[r]]

\* Faulty: the locks are kept when the finalization failed.
ReleasedOnSuccess(t) ==
    [r \in Resource |-> IF lockedBy[r] = t /\ ~failed[t] THEN NoTx ELSE lockedBy[r]]

Released(t) ==
    [r \in Resource |-> IF r \in resources[t] /\ lockedBy[r] = t THEN NoTx ELSE lockedBy[r]]

\* Faulty: nobody hears that t became shared.
NobodyWoken(t) == waitingOn

\* Those who wait for t hear that it became shared.
Woken(t) == [o \in Tx |-> waitingOn[o] \ {t}]

\* cleanup of #finalize: release the locks, become shared, tell those waiting.
Finalized(t) ==
    /\ \/ stage[t] = "commit2" /\ \A r \in participants[t] : vote[t][r] \in {"committed", "broken"}
       \/ stage[t] = "rollback" /\ \A r \in participants[t] : vote[t][r] = "undone"
    /\ lockedBy' = Released(t)
    /\ waitingOn' = Woken(t)
    /\ participants' = [participants EXCEPT ![t] = {}]
    /\ status' = [status EXCEPT ![t] = "shared"]
    /\ stage' = [stage EXCEPT ![t] =
                    IF stage[t] = "commit2" /\ ~failed[t] THEN "postcommit" ELSE "finished"]
    /\ vote' = [vote EXCEPT ![t] = NoVotes]
    /\ UNCHANGED <<resources, pending, byActor, cycles, mutated, failed, commits,
                   ownCommits, overwritten>>

\* The post-commit handlers are done, or one threw and the rest is skipped.
PostCommitEnds(t) ==
    /\ stage[t] = "postcommit" /\ (AwaitsCalls => pending[t] = Idle)
    /\ stage' = [stage EXCEPT ![t] = "finished"]
    /\ UNCHANGED <<status, resources, participants, locks, flow, overwritten>>

\* The finalization returns: to the actor that asked for it, or to act(), which
\* commits again what post-commit handlers wrote and otherwise closes.
Return(t) ==
    /\ stage[t] = "finished"
    /\ \/ /\ byActor[t]
          /\ stage' = [stage EXCEPT ![t] = "actor"]
          /\ failed' = [failed EXCEPT ![t] = FALSE]
          /\ UNCHANGED <<status, resources, participants, cycles, mutated, vote, commits>>
       \/ /\ ~byActor[t] /\ ~failed[t] /\ status[t] = "exclusive"
          /\ commits[t] < MaxChainedCommits
          /\ StartCommit(t)
          /\ commits' = [commits EXCEPT ![t] = @ + 1]
       \/ /\ ~byActor[t]
          /\ status[t] = "exclusive" => failed[t] \/ commits[t] >= MaxChainedCommits
          /\ Close(t)
          /\ UNCHANGED <<cycles, mutated, vote, commits>>
    /\ UNCHANGED <<locks, byActor, ownCommits, overwritten>>

-----------------------------------------------------------------------------
Init ==
    /\ status = [t \in Tx |-> "shared"]
    /\ resources = [t \in Tx |-> {}]
    /\ participants = [t \in Tx |-> {}]
    /\ waitingOn = [t \in Tx |-> {}]
    /\ lockedBy = [r \in Resource |-> NoTx]
    /\ pending = [t \in Tx |-> Idle]
    /\ stage = [t \in Tx |-> "actor"]
    /\ byActor = [t \in Tx |-> FALSE]
    /\ cycles = [t \in Tx |-> 1]
    /\ mutated = [t \in Tx |-> FALSE]
    /\ vote = [t \in Tx |-> NoVotes]
    /\ failed = [t \in Tx |-> FALSE]
    /\ commits = [t \in Tx |-> 0]
    /\ ownCommits = [t \in Tx |-> 0]
    /\ overwritten = [t \in Tx |-> {}]

\* Steps that come without anybody deciding anything.
Progress(t) ==
    \/ Resume(t) \/ Finalized(t) \/ Return(t)
    \/ PreCommitEnds(t) \/ Commit1Ends(t) \/ PostCommitEnds(t)
    \/ \E r \in Resource : Commit1(t, r) \/ Commit2(t, r) \/ Rollback(t, r)

Step(t) ==
    \/ Progress(t)
    \/ Begin(t) \/ ActorReturns(t) \/ ActorThrows(t) \/ ActorFinalizes(t) \/ PreCommitThrows(t)
    \/ \E r \in Resource : AddResource(t, r) \/ Write(t, r) \/ WriteConflict(t, r)

Next == \E t \in Tx : Step(t)

Spec == Init /\ [][Next]_vars

\* Promises settle and actors end.
FairSpec == Spec /\ \A t \in Tx : WF_vars(Progress(t)) /\ WF_vars(ActorReturns(t))

-----------------------------------------------------------------------------
(* Properties. *)

Statuses == {"shared", "waiting", "exclusive", "committing1", "committing2",
             "rollingback", "destroyed"}
Stages == {"actor", "precommit", "commit1", "commit2", "rollback", "postcommit",
           "finished", "closed"}
Votes == {"none", "prepared", "refused", "committed", "broken", "undone"}

\* Types.
TypeOK ==
    /\ status \in [Tx -> Statuses]
    /\ resources \in [Tx -> SUBSET Resource]
    /\ participants \in [Tx -> SUBSET Resource]
    /\ waitingOn \in [Tx -> SUBSET Tx]
    /\ lockedBy \in [Resource -> Tx \cup {NoTx}]
    /\ pending \in [Tx -> [op : {"none", "begin", "add"}, want : SUBSET Resource]]
    /\ stage \in [Tx -> Stages]
    /\ byActor \in [Tx -> BOOLEAN] /\ mutated \in [Tx -> BOOLEAN] /\ failed \in [Tx -> BOOLEAN]
    /\ cycles \in [Tx -> Nat] /\ commits \in [Tx -> Nat] /\ ownCommits \in [Tx -> Nat]
    /\ vote \in [Tx -> [Resource -> Votes]]
    /\ overwritten \in [Tx -> SUBSET Resource]

\* A transaction that may write or is committing holds the lock of every
\* resource it has (the sanity check of assertResourcesAreLocked,
\* ResourceSet.ts:110, that nothing calls).
WritersHoldLocks ==
    \A t \in Tx : status[t] \in {"exclusive"} \cup Committing =>
                      \A r \in resources[t] \cup participants[t] : lockedBy[r] = t

\* Nobody else commits a resource between a transaction's write to it and its
\* commit: no update is lost (the locks of ResourceSet).
NoLostUpdate ==
    \A t \in Tx : status[t] \in {"exclusive"} \cup Committing =>
                      overwritten[t] \cap participants[t] = {}

\* If one participant is committed, no other one refused phase one or was rolled
\* back (Transaction.ts:25).
AllOrNothing ==
    \A t \in Tx : (\E r \in participants[t] : vote[t][r] \in {"committed", "broken"}) =>
                      \A r \in participants[t] : vote[t][r] \in {"prepared", "committed", "broken"}

\* The waiting relation has no cycle: every set of transactions has one that
\* waits for none of them (#detectDeadlock).
WaitGraphAcyclic ==
    \A S \in SUBSET Tx : S # {} => \E t \in S : waitingOn[t] \cap S = {}

Leaked(r) == lockedBy[r] # NoTx /\ stage[lockedBy[r]] = "closed"

\* A destroyed transaction leaves a lock behind only after the last commit the
\* chain of post-commit writes allows: any other end of act(), by return, by an
\* error in any phase or by a rollback, has released its locks (cleanup,
\* Tx.ts:405).
LeakOnlyAtCommitLimit ==
    \A r \in Resource : Leaked(r) => commits[lockedBy[r]] >= MaxChainedCommits

\* Every act() comes to an end: nobody misses the release of a lock and nobody
\* waits for ever, unless for a lock that was left behind.
EveryTransactionEnds ==
    \A t \in Tx : <>(stage[t] = "closed" \/ \E r \in Resource : Leaked(r))
=============================================================================
