------------------------- MODULE Transaction_proofs -------------------------
(***************************************************************************)
(* Proofs about transactions, for every set of transactions and resources. *)
(* Three inductive invariants that rest on each other: the types, the      *)
(* acyclic waiting relation, and who holds which lock when.                *)
(***************************************************************************)
EXTENDS Transaction, TLAPS

-----------------------------------------------------------------------------
(* Types. *)

LEMMA AcquireType ==
    ASSUME TypeOK, NEW t \in Tx, NEW op \in {"begin", "add"}, NEW want \in SUBSET Resource,
           Acquire(t, op, want)
    PROVE  /\ status' \in [Tx -> Statuses] /\ resources' \in [Tx -> SUBSET Resource]
           /\ waitingOn' \in [Tx -> SUBSET Tx]
           /\ lockedBy' \in [Resource -> Tx \cup {NoTx}]
           /\ pending' \in [Tx -> [op : {"none", "begin", "add"}, want : SUBSET Resource]]
  <1>1. Idle \in [op : {"none", "begin", "add"}, want : SUBSET Resource]
    BY DEF Idle
  <1>2. CASE Granted(t, op, want)
    BY <1>1, <1>2 DEF Granted, TakenLocks, TypeOK, Statuses
  <1>3. CASE Refused(t, op)
    BY <1>1, <1>3 DEF Refused, TypeOK, Statuses
  <1>4. CASE Blocked(t, op, want)
    <2>1. Blockers(t, want) \subseteq Tx
      BY DEF Blockers, TypeOK
    <2>2. [op |-> op, want |-> want] \in [op : {"none", "begin", "add"}, want : SUBSET Resource]
      OBVIOUS
    <2>3. QED  BY <1>4, <2>1, <2>2 DEF Blocked, TypeOK, Statuses
  <1>5. QED  BY <1>2, <1>3, <1>4 DEF Acquire

LEMMA InitType == Init => TypeOK
  <1>1. Idle \in [op : {"none", "begin", "add"}, want : SUBSET Resource]
    BY DEF Idle
  <1>2. NoVotes \in [Resource -> Votes]
    BY DEF NoVotes, Votes
  <1>3. QED  BY <1>1, <1>2 DEF Init, TypeOK, Statuses, Stages

LEMMA RollbackType ==
    ASSUME TypeOK, NEW t \in Tx, NEW error \in BOOLEAN, StartRollback(t, error)
    PROVE  status' \in [Tx -> Statuses] /\ stage' \in [Tx -> Stages] /\ failed' \in [Tx -> BOOLEAN]
  BY DEF StartRollback, TypeOK, Statuses, Stages

LEMMA CloseType ==
    ASSUME TypeOK, NEW t \in Tx, Close(t)
    PROVE  /\ status' \in [Tx -> Statuses] /\ stage' \in [Tx -> Stages]
           /\ failed' \in [Tx -> BOOLEAN]
           /\ resources' \in [Tx -> SUBSET Resource] /\ participants' \in [Tx -> SUBSET Resource]
  BY DEF Close, TypeOK, Statuses, Stages

LEMMA CommitType ==
    ASSUME TypeOK, NEW t \in Tx, StartCommit(t)
    PROVE  /\ status' \in [Tx -> Statuses] /\ stage' \in [Tx -> Stages]
           /\ failed' \in [Tx -> BOOLEAN] /\ mutated' \in [Tx -> BOOLEAN]
           /\ cycles' \in [Tx -> Nat] /\ vote' \in [Tx -> [Resource -> Votes]]
           /\ resources' \in [Tx -> SUBSET Resource] /\ participants' \in [Tx -> SUBSET Resource]
  <1>1. NoVotes \in [Resource -> Votes]
    BY DEF NoVotes, Votes
  <1>2. cycles' \in [Tx -> Nat] /\ mutated' \in [Tx -> BOOLEAN] /\ vote' \in [Tx -> [Resource -> Votes]]
    BY <1>1 DEF StartCommit, TypeOK
  <1>3. CASE StartRollback(t, FALSE)
    BY <1>2, <1>3, RollbackType DEF StartCommit, TypeOK
  <1>4. CASE status[t] # "shared"
    <2>1. /\ stage' = [stage EXCEPT ![t] = "precommit"] /\ failed' = [failed EXCEPT ![t] = FALSE]
          /\ UNCHANGED <<status, resources, participants>>
      BY <1>4 DEF StartCommit
    <2>2. stage' \in [Tx -> Stages] /\ failed' \in [Tx -> BOOLEAN]
      BY <2>1 DEF TypeOK, Stages
    <2>3. QED  BY <1>2, <2>1, <2>2 DEF TypeOK
  <1>5. QED  BY <1>3, <1>4 DEF StartCommit

LEMMA VoteType ==
    ASSUME TypeOK, NEW t \in Tx, NEW r \in Resource, NEW v \in Votes
    PROVE  [vote EXCEPT ![t][r] = v] \in [Tx -> [Resource -> Votes]]
  <1>1. vote[t] \in [Resource -> Votes]
    BY DEF TypeOK
  <1>2. [vote[t] EXCEPT ![r] = v] \in [Resource -> Votes]
    BY <1>1
  <1>3. QED  BY <1>2 DEF TypeOK

LEMMA ProgressType == ASSUME TypeOK, NEW t \in Tx, Progress(t) PROVE TypeOK'
  <1> USE DEF Statuses, Stages
  <1>0. NoVotes \in [Resource -> Votes]
    BY DEF NoVotes, Votes
  <1>1. CASE Resume(t)
    <2>1. pending[t].op \in {"begin", "add"} /\ pending[t].want \in SUBSET Resource
      BY <1>1 DEF Resume, TypeOK
    <2>2. QED  BY <1>1, <2>1, AcquireType DEF Resume, TypeOK, flow
  <1>2. CASE Finalized(t)
    BY <1>0, <1>2 DEF Finalized, Released, Woken, TypeOK
  <1>3. CASE Return(t)
    <2>1. CASE byActor[t]
      BY <1>3, <2>1 DEF Return, TypeOK, locks
    <2>2. CASE StartCommit(t) /\ commits' = [commits EXCEPT ![t] = @ + 1]
      BY <1>3, <2>2, CommitType DEF Return, TypeOK, locks
    <2>3. CASE Close(t) /\ UNCHANGED <<cycles, mutated, vote, commits>>
      BY <1>3, <2>3, CloseType DEF Return, TypeOK, locks
    <2>4. QED  BY <1>3, <2>1, <2>2, <2>3 DEF Return
  <1>4. CASE PreCommitEnds(t)
    <2>0. mutated[t] => cycles' \in [Tx -> Nat] /\ mutated' \in [Tx -> BOOLEAN]
      <3>1. \A n \in Nat : n + 1 \in Nat
        OBVIOUS
      <3>2. SUFFICES ASSUME mutated[t]
                     PROVE  cycles' \in [Tx -> Nat] /\ mutated' \in [Tx -> BOOLEAN]
        OBVIOUS
      <3>3. cycles' = [cycles EXCEPT ![t] = @ + 1] /\ mutated' = [mutated EXCEPT ![t] = FALSE]
        BY <1>4, <3>2 DEF PreCommitEnds
      <3>4. QED  BY <3>1, <3>3 DEF TypeOK
    <2>1. CASE mutated[t] /\ cycles[t] + 1 > MaxPreCommitCycles
      <3>1. StartRollback(t, TRUE)
        BY <1>4, <2>1 DEF PreCommitEnds
      <3>2. QED  BY <1>4, <2>0, <2>1, <3>1, RollbackType DEF PreCommitEnds, TypeOK, locks
    <2>2. CASE mutated[t] /\ ~(cycles[t] + 1 > MaxPreCommitCycles)
      <3>1. UNCHANGED <<status, stage, failed>>
        BY <1>4, <2>2 DEF PreCommitEnds
      <3>2. QED  BY <1>4, <2>0, <2>2, <3>1 DEF PreCommitEnds, TypeOK, locks
    <2>3. CASE ~mutated[t] /\ status[t] = "exclusive"
      BY <1>4, <2>3 DEF PreCommitEnds, TypeOK, locks
    <2>4. CASE ~mutated[t] /\ status[t] # "exclusive"
      BY <1>4, <2>4, CloseType DEF PreCommitEnds, TypeOK, locks
    <2>5. QED  BY <2>1, <2>2, <2>3, <2>4
  <1>5. CASE Commit1Ends(t)
    <2>1. CASE StartRollback(t, TRUE)
      BY <1>5, <2>1, RollbackType DEF Commit1Ends, TypeOK, locks
    <2>2. CASE /\ status' = [status EXCEPT ![t] = "committing2"]
               /\ stage' = [stage EXCEPT ![t] = "commit2"] /\ UNCHANGED failed
      BY <1>5, <2>2 DEF Commit1Ends, TypeOK, locks
    <2>3. QED  BY <1>5, <2>1, <2>2 DEF Commit1Ends
  <1>6. CASE PostCommitEnds(t)
    BY <1>6 DEF PostCommitEnds, TypeOK, locks, flow
  <1>7. ASSUME NEW r \in Resource, Commit1(t, r) PROVE TypeOK'
    <2>1. vote' \in [Tx -> [Resource -> Votes]]
      BY <1>7, VoteType DEF Commit1, Votes
    <2>2. QED  BY <1>7, <2>1 DEF Commit1, TypeOK, locks
  <1>8. ASSUME NEW r \in Resource, Commit2(t, r) PROVE TypeOK'
    <2>1. vote' \in [Tx -> [Resource -> Votes]]
      BY <1>8, VoteType DEF Commit2, Votes
    <2>2. failed' \in [Tx -> BOOLEAN] /\ overwritten' \in [Tx -> SUBSET Resource]
      <3>1. UNCHANGED failed \/ failed' = [failed EXCEPT ![t] = TRUE]
        BY <1>8 DEF Commit2
      <3>2. UNCHANGED overwritten \/ overwritten' = [o \in Tx |->
                IF o # t /\ r \in participants[o] THEN overwritten[o] \cup {r} ELSE overwritten[o]]
        BY <1>8 DEF Commit2
      <3>3. failed' \in [Tx -> BOOLEAN]
        BY <3>1 DEF TypeOK
      <3>4. overwritten' \in [Tx -> SUBSET Resource]
        <4>1. \A o \in Tx : overwritten[o] \subseteq Resource /\ overwritten[o] \cup {r} \subseteq Resource
          BY DEF TypeOK
        <4>2. CASE UNCHANGED overwritten
          BY <4>2 DEF TypeOK
        <4>3. CASE overwritten' = [o \in Tx |->
                  IF o # t /\ r \in participants[o] THEN overwritten[o] \cup {r} ELSE overwritten[o]]
          BY <4>1, <4>3
        <4>4. QED  BY <3>2, <4>2, <4>3
      <3>5. QED  BY <3>3, <3>4
    <2>3. QED  BY <1>8, <2>1, <2>2 DEF Commit2, TypeOK, locks
  <1>9. ASSUME NEW r \in Resource, Rollback(t, r) PROVE TypeOK'
    <2>1. vote' \in [Tx -> [Resource -> Votes]]
      BY <1>9, VoteType DEF Rollback, Votes
    <2>2. failed' \in [Tx -> BOOLEAN]
      BY <1>9 DEF Rollback, TypeOK
    <2>3. QED  BY <1>9, <2>1, <2>2 DEF Rollback, TypeOK, locks
  <1>10. QED  BY <1>1, <1>2, <1>3, <1>4, <1>5, <1>6, <1>7, <1>8, <1>9 DEF Progress

LEMMA StepType == TypeOK /\ [Next]_vars => TypeOK'
  <1> SUFFICES ASSUME TypeOK, [Next]_vars PROVE TypeOK'
    OBVIOUS
  <1> USE DEF Statuses, Stages
  <1>0. NoVotes \in [Resource -> Votes]
    BY DEF NoVotes, Votes
  <1>1. CASE UNCHANGED vars
    BY <1>1 DEF vars, TypeOK
  <1>2. ASSUME NEW t \in Tx, Step(t) PROVE TypeOK'
    <2>1. CASE Progress(t)
      BY <2>1, ProgressType
    <2>2. CASE Begin(t)
      <3>1. resources[t] \in SUBSET Resource
        BY DEF TypeOK
      <3>2. QED  BY <2>2, <3>1, AcquireType DEF Begin, TypeOK, flow
    <2>3. CASE ActorReturns(t)
      BY <2>3, CommitType DEF ActorReturns, TypeOK, locks
    <2>4. CASE ActorThrows(t)
      BY <1>0, <2>4 DEF ActorThrows, StartRollback, Close, TypeOK, locks
    <2>5. CASE ActorFinalizes(t)
      <3>1. CASE StartCommit(t)
        BY <2>5, <3>1, CommitType DEF ActorFinalizes, TypeOK, locks
      <3>2. CASE /\ StartRollback(t, FALSE) /\ vote' = [vote EXCEPT ![t] = NoVotes]
                 /\ UNCHANGED <<resources, participants, cycles, mutated>>
        <4>1. vote' \in [Tx -> [Resource -> Votes]] /\ ownCommits' \in [Tx -> Nat]
          BY <1>0, <2>5, <3>2 DEF ActorFinalizes, TypeOK
        <4>2. QED  BY <2>5, <3>2, <4>1, RollbackType DEF ActorFinalizes, TypeOK, locks
      <3>3. QED  BY <2>5, <3>1, <3>2 DEF ActorFinalizes
    <2>6. CASE PreCommitThrows(t)
      BY <2>6 DEF PreCommitThrows, StartRollback, TypeOK, locks
    <2>7. ASSUME NEW r \in Resource, AddResource(t, r) PROVE TypeOK'
      <3>1. CASE Acquire(t, "add", {r})
        BY <2>7, <3>1, AcquireType DEF AddResource, TypeOK, flow
      <3>2. CASE UNCHANGED <<status, locks>> /\ resources' = [resources EXCEPT ![t] = @ \cup {r}]
        BY <2>7, <3>2 DEF AddResource, TypeOK, flow, locks
      <3>3. QED  BY <2>7, <3>1, <3>2 DEF AddResource
    <2>8. ASSUME NEW r \in Resource, Write(t, r) PROVE TypeOK'
      BY <2>8 DEF Write, Conflict, TakenLocks, TypeOK
    <2>9. ASSUME NEW r \in Resource, WriteConflict(t, r) PROVE TypeOK'
      BY <2>9 DEF WriteConflict, TypeOK, locks, flow
    <2>10. QED  BY <1>2, <2>1, <2>2, <2>3, <2>4, <2>5, <2>6, <2>7, <2>8, <2>9 DEF Step
  <1>3. QED  BY <1>1, <1>2 DEF Next

\* Every variable keeps its type.
THEOREM TypeCorrect == Spec => []TypeOK
  <1>1. QED  BY InitType, StepType, PTL DEF Spec

-----------------------------------------------------------------------------
(* The waiting relation. *)

\* A transaction that starts to wait after #detectDeadlock passed closes no
\* cycle: the set that check looked through has a member that waits for nobody
\* in it, and t is not in that set.
LEMMA WaitClosesNoCycle ==
    ASSUME TypeOK, WaitGraphAcyclic, NEW t \in Tx, NEW B \in SUBSET Tx, SafeToWait(t, B),
           waitingOn' = [waitingOn EXCEPT ![t] = B]
    PROVE  WaitGraphAcyclic'
  <1> SUFFICES ASSUME NEW S \in SUBSET Tx, S # {}
               PROVE  \E o \in S : waitingOn'[o] \cap S = {}
    BY DEF WaitGraphAcyclic
  <1>1. PICK reached \in SUBSET Tx :
            /\ B \subseteq reached
            /\ \A o \in reached : waitingOn[o] \subseteq reached
            /\ t \notin reached
    BY DEF SafeToWait
  <1>2. waitingOn'[t] = B /\ \A o \in Tx \ {t} : waitingOn'[o] = waitingOn[o]
    BY DEF TypeOK
  <1>3. CASE S \cap reached # {}
    <2>1. PICK o \in S \cap reached : waitingOn[o] \cap (S \cap reached) = {}
      BY <1>3 DEF WaitGraphAcyclic
    <2>2. waitingOn'[o] = waitingOn[o] /\ waitingOn[o] \subseteq reached
      BY <1>1, <1>2, <2>1
    <2>3. QED  BY <2>1, <2>2
  <1>4. CASE S \cap reached = {} /\ t \in S
    BY <1>1, <1>2, <1>4
  <1>5. CASE t \notin S
    <2>1. PICK o \in S : waitingOn[o] \cap S = {}
      BY DEF WaitGraphAcyclic
    <2>2. QED  BY <1>2, <1>5, <2>1
  <1>6. QED  BY <1>3, <1>4, <1>5

\* Waiting for fewer transactions closes no cycle.
LEMMA WaitShrinks ==
    ASSUME WaitGraphAcyclic, \A o \in Tx : waitingOn'[o] \subseteq waitingOn[o]
    PROVE  WaitGraphAcyclic'
  BY DEF WaitGraphAcyclic

LEMMA AcquireAcyclic ==
    ASSUME TypeOK, WaitGraphAcyclic, NEW t \in Tx, NEW op, NEW want \in SUBSET Resource,
           Acquire(t, op, want)
    PROVE  WaitGraphAcyclic'
  <1>1. CASE Granted(t, op, want) \/ Refused(t, op)
    <2>1. \A o \in Tx : waitingOn'[o] \subseteq waitingOn[o]
      BY <1>1 DEF Granted, TakenLocks, Refused, TypeOK
    <2>2. QED  BY <2>1, WaitShrinks
  <1>2. CASE Blocked(t, op, want) /\ SafeToWait(t, Blockers(t, want))
    <2>1. Blockers(t, want) \in SUBSET Tx
      BY DEF Blockers, TypeOK
    <2>2. QED  BY <1>2, <2>1, WaitClosesNoCycle DEF Blocked
  <1>3. QED  BY <1>1, <1>2 DEF Acquire

LEMMA StepAcyclic == TypeOK /\ WaitGraphAcyclic /\ [Next]_vars => WaitGraphAcyclic'
  <1> SUFFICES ASSUME TypeOK, WaitGraphAcyclic, [Next]_vars PROVE WaitGraphAcyclic'
    OBVIOUS
  <1>1. ASSUME waitingOn' = waitingOn PROVE WaitGraphAcyclic'
    BY <1>1 DEF WaitGraphAcyclic
  <1>2. CASE UNCHANGED vars
    BY <1>1, <1>2 DEF vars
  <1>3. ASSUME NEW t \in Tx, Step(t) PROVE WaitGraphAcyclic'
    <2>1. CASE Resume(t)
      BY <2>1, AcquireAcyclic DEF Resume, TypeOK
    <2>2. CASE Begin(t)
      BY <2>2, AcquireAcyclic DEF Begin, TypeOK
    <2>3. ASSUME NEW r \in Resource, AddResource(t, r) PROVE WaitGraphAcyclic'
      <3>1. CASE Acquire(t, "add", {r})
        BY <3>1, AcquireAcyclic
      <3>2. QED  BY <1>1, <2>3, <3>1 DEF AddResource, locks
    <2>4. CASE Finalized(t)
      <3>1. \A o \in Tx : waitingOn'[o] \subseteq waitingOn[o]
        BY <2>4 DEF Finalized, Released, Woken
      <3>2. QED  BY <3>1, WaitShrinks
    <2>5. CASE \/ Return(t) \/ PreCommitEnds(t) \/ Commit1Ends(t) \/ PostCommitEnds(t)
               \/ \E r \in Resource : Commit1(t, r) \/ Commit2(t, r) \/ Rollback(t, r)
      BY <1>1, <2>5 DEF Return, PreCommitEnds, Commit1Ends, PostCommitEnds, Commit1, Commit2,
                        Rollback, locks
    <2>6. CASE ActorReturns(t) \/ ActorThrows(t) \/ ActorFinalizes(t) \/ PreCommitThrows(t)
      BY <1>1, <2>6 DEF ActorReturns, ActorThrows, ActorFinalizes, PreCommitThrows, locks
    <2>7. CASE \E r \in Resource : Write(t, r) \/ WriteConflict(t, r)
      BY <1>1, <2>7 DEF Write, Conflict, TakenLocks, WriteConflict, locks
    <2>8. QED  BY <1>3, <2>1, <2>2, <2>3, <2>4, <2>5, <2>6, <2>7 DEF Step, Progress
  <1>4. QED  BY <1>2, <1>3 DEF Next

\* Transactions never wait for each other in a circle.
THEOREM NoCyclicWait == Spec => []WaitGraphAcyclic
  <1>1. Init => WaitGraphAcyclic
    BY DEF Init, WaitGraphAcyclic
  <1>2. QED  BY <1>1, StepAcyclic, TypeCorrect, PTL DEF Spec

-----------------------------------------------------------------------------
(* Locks, updates and votes. *)

Writing == {"exclusive"} \cup Committing

\* What holds of one transaction, in every reachable state.
Own(t) ==
    \* who takes part is a resource of t
    /\ participants[t] \subseteq resources[t]
    \* begin() waits with the status it set itself, unless t was closed under
    \* it, and for the locks of everything t has
    /\ pending[t].op = "begin" => /\ status[t] \in {"waiting", "destroyed"}
                                  /\ resources[t] \subseteq pending[t].want
    \* nothing takes part before t is exclusive
    /\ status[t] \in {"shared", "waiting", "destroyed"} => participants[t] = {}
    \* the phase of a commit is what the status says
    /\ stage[t] = "commit1" => status[t] = "committing1"
    /\ stage[t] = "commit2" => status[t] = "committing2"
    /\ stage[t] = "rollback" => status[t] = "rollingback"
    /\ stage[t] = "precommit" /\ mutated[t] => status[t] = "exclusive"
    \* participants are committed in phase two only, when all are prepared
    /\ stage[t] = "commit2" =>
          \A r \in participants[t] : vote[t][r] \in {"prepared", "committed", "broken"}
    /\ stage[t] # "commit2" =>
          \A r \in Resource : vote[t][r] \notin {"committed", "broken"}
    \* who writes holds the locks, and nobody committed under it
    /\ status[t] \in Writing => /\ \A r \in resources[t] : lockedBy[r] = t
                                /\ overwritten[t] \cap participants[t] = {}

LockInv == \A t \in Tx : Own(t)

\* A step of t leaves the other transactions alone.
Untouched(o) ==
    /\ status'[o] = status[o] /\ resources'[o] = resources[o]
    /\ participants'[o] = participants[o] /\ pending'[o] = pending[o]
    /\ stage'[o] = stage[o] /\ mutated'[o] = mutated[o] /\ vote'[o] = vote[o]

LEMMA AcquireFrame ==
    ASSUME TypeOK, NEW t \in Tx, NEW o \in Tx \ {t}, NEW op, NEW want \in SUBSET Resource,
           Acquire(t, op, want)
    PROVE  /\ status'[o] = status[o] /\ resources'[o] = resources[o] /\ pending'[o] = pending[o]
           /\ \A r \in Resource : lockedBy[r] = o => lockedBy'[r] = o
  <1>1. CASE Granted(t, op, want) /\ Blockers(t, want) = {}
    <2>1. \A r \in want : lockedBy[r] \in {t, NoTx}
      BY <1>1 DEF Blockers
    <2>2. o # NoTx
      BY TransactionAssumption
    <2>3. \A r \in Resource : lockedBy[r] = o => lockedBy'[r] = o
      BY <1>1, <2>1, <2>2 DEF Granted, TakenLocks
    <2>4. QED  BY <1>1, <2>3 DEF Granted, TakenLocks, TypeOK
  <1>2. CASE Refused(t, op)
    BY <1>2 DEF Refused, TypeOK
  <1>3. CASE Blocked(t, op, want)
    BY <1>3 DEF Blocked, TypeOK
  <1>4. QED  BY <1>1, <1>2, <1>3 DEF Acquire

LEMMA StepFrame ==
    ASSUME TypeOK, NEW t \in Tx, NEW o \in Tx \ {t}, Step(t)
    PROVE  Untouched(o) /\ \A r \in Resource : lockedBy[r] = o => lockedBy'[r] = o
  <1> USE DEF Untouched
  <1>1. CASE Resume(t)
    BY <1>1, AcquireFrame DEF Resume, TypeOK, flow
  <1>2. CASE Begin(t)
    BY <1>2, AcquireFrame DEF Begin, TypeOK, flow
  <1>3. ASSUME NEW r \in Resource, AddResource(t, r)
        PROVE  Untouched(o) /\ \A q \in Resource : lockedBy[q] = o => lockedBy'[q] = o
    <2>1. CASE Acquire(t, "add", {r})
      BY <1>3, <2>1, AcquireFrame DEF AddResource, flow
    <2>2. CASE UNCHANGED <<status, locks>> /\ resources' = [resources EXCEPT ![t] = @ \cup {r}]
      BY <1>3, <2>2 DEF AddResource, TypeOK, flow, locks
    <2>3. QED  BY <1>3, <2>1, <2>2 DEF AddResource
  <1>4. ASSUME NEW r \in Resource, Write(t, r)
        PROVE  Untouched(o) /\ \A q \in Resource : lockedBy[q] = o => lockedBy'[q] = o
    <2>1. \A q \in WriteLocks(t, r) : lockedBy[q] \in {t, NoTx}
      BY <1>4 DEF Write, Conflict, TakenLocks, Blockers
    <2>2. o # NoTx
      BY TransactionAssumption
    <2>3. \A q \in Resource : lockedBy[q] = o => lockedBy'[q] = o
      BY <1>4, <2>1, <2>2 DEF Write, Conflict, TakenLocks
    <2>4. QED  BY <1>4, <2>3 DEF Write, Conflict, TakenLocks, TypeOK
  <1>5. ASSUME NEW r \in Resource, WriteConflict(t, r)
        PROVE  Untouched(o) /\ \A q \in Resource : lockedBy[q] = o => lockedBy'[q] = o
    BY <1>5 DEF WriteConflict, TypeOK, locks, flow
  <1>6. CASE Finalized(t)
    BY <1>6 DEF Finalized, Released, Woken, TypeOK
  <1>7. CASE Return(t)
    BY <1>7 DEF Return, StartCommit, StartRollback, Close, TypeOK, locks
  <1>8. CASE PreCommitEnds(t)
    BY <1>8 DEF PreCommitEnds, StartRollback, Close, TypeOK, locks
  <1>9. CASE Commit1Ends(t)
    BY <1>9 DEF Commit1Ends, AllPrepared, StartRollback, TypeOK, locks
  <1>10. CASE PostCommitEnds(t)
    BY <1>10 DEF PostCommitEnds, TypeOK, locks, flow
  <1>11. ASSUME NEW r \in Resource, Commit1(t, r) \/ Commit2(t, r) \/ Rollback(t, r)
         PROVE  Untouched(o) /\ \A q \in Resource : lockedBy[q] = o => lockedBy'[q] = o
    BY <1>11 DEF Commit1, Commit2, Rollback, TypeOK, locks
  <1>12. CASE ActorReturns(t)
    BY <1>12 DEF ActorReturns, StartCommit, StartRollback, TypeOK, locks
  <1>13. CASE ActorThrows(t)
    BY <1>13 DEF ActorThrows, StartRollback, Close, TypeOK, locks
  <1>14. CASE ActorFinalizes(t)
    BY <1>14 DEF ActorFinalizes, StartCommit, StartRollback, TypeOK, locks
  <1>15. CASE PreCommitThrows(t)
    BY <1>15 DEF PreCommitThrows, StartRollback, TypeOK, locks
  <1>16. QED
    BY <1>1, <1>2, <1>3, <1>4, <1>5, <1>6, <1>7, <1>8, <1>9, <1>10, <1>11, <1>12, <1>13,
       <1>14, <1>15 DEF Step, Progress

\* Only a commit of t makes a write of another transaction obsolete, and t
\* commits only what it has locked.
LEMMA OverwrittenFrame ==
    ASSUME TypeOK, LockInv, NEW t \in Tx, NEW o \in Tx \ {t}, Step(t), status[o] \in Writing
    PROVE  overwritten'[o] \cap participants[o] = overwritten[o] \cap participants[o]
  <1>1. ASSUME overwritten' = overwritten
        PROVE  overwritten'[o] \cap participants[o] = overwritten[o] \cap participants[o]
    BY <1>1
  <1>2. ASSUME NEW r \in Resource, Commit2(t, r)
        PROVE  overwritten'[o] \cap participants[o] = overwritten[o] \cap participants[o]
    <2>1. lockedBy[r] = t
      BY <1>2 DEF Commit2, LockInv, Own, Writing, Committing
    <2>2. r \notin participants[o]
      BY <2>1 DEF LockInv, Own
    <2>3. overwritten'[o] = overwritten[o]
      BY <1>2, <2>2 DEF Commit2, TypeOK
    <2>4. QED  BY <2>3
  <1>3. ASSUME NEW r \in Resource, Write(t, r)
        PROVE  overwritten'[o] \cap participants[o] = overwritten[o] \cap participants[o]
    BY <1>3 DEF Write, Conflict, TakenLocks, TypeOK
  <1>4. QED
    BY <1>1, <1>2, <1>3
    DEF Step, Progress, Resume, Finalized, Return, PreCommitEnds, Commit1Ends, PostCommitEnds,
        Commit1, Rollback, Begin, ActorReturns, ActorThrows, ActorFinalizes, PreCommitThrows,
        AddResource, WriteConflict

LEMMA OthersKeepTheirs ==
    ASSUME TypeOK, LockInv, NEW t \in Tx, NEW o \in Tx \ {t}, Step(t)
    PROVE  Own(o)'
  <1>1. Untouched(o) /\ (\A r \in Resource : lockedBy[r] = o => lockedBy'[r] = o)
    BY StepFrame
  <1>2. Own(o) /\ resources[o] \subseteq Resource
    BY DEF LockInv, TypeOK
  <1>3. status[o] \in Writing =>
            overwritten'[o] \cap participants[o] = overwritten[o] \cap participants[o]
    BY OverwrittenFrame
  <1>4. QED  BY <1>1, <1>2, <1>3 DEF Own, Untouched

\* A round of acquireLocks by a handler or by a call that waits.
LEMMA AcquireKeeps ==
    ASSUME TypeOK, NEW t \in Tx, Own(t), NEW op \in {"begin", "add"}, NEW want \in SUBSET Resource,
           Acquire(t, op, want),
           op = "begin" => status[t] \in {"shared", "waiting", "destroyed"} /\ resources[t] \subseteq want,
           UNCHANGED <<participants, stage, flow, overwritten>>
    PROVE  Own(t)'
  <1> USE DEF Writing, Committing
  <1>1. CASE Granted(t, op, want)
    <2>1. lockedBy' = [r \in Resource |-> IF r \in want THEN t ELSE lockedBy[r]]
      BY <1>1 DEF Granted, TakenLocks
    <2>2. pending'[t].op = "none"
      BY <1>1 DEF Granted, TakenLocks, TypeOK, Idle
    <2>3. CASE op = "begin"
      BY <1>1, <2>1, <2>2, <2>3 DEF Granted, TakenLocks, Own, TypeOK, flow
    <2>4. CASE op = "add"
      BY <1>1, <2>1, <2>2, <2>4 DEF Granted, TakenLocks, Own, TypeOK, flow, CanAddNow
    <2>5. QED  BY <2>3, <2>4
  <1>2. CASE Refused(t, op)
    BY <1>2 DEF Refused, Own, TypeOK, Idle, flow
  <1>3. CASE Blocked(t, op, want)
    BY <1>3 DEF Blocked, Own, TypeOK, flow
  <1>4. QED  BY <1>1, <1>2, <1>3 DEF Acquire

LEMMA StepKeeps == ASSUME TypeOK, LockInv, NEW t \in Tx, Step(t) PROVE Own(t)'
  <1> USE DEF Writing, Committing
  <1>0. Own(t)
    BY DEF LockInv
  <1>1. CASE Resume(t)
    <2>1. pending[t].op \in {"begin", "add"} /\ pending[t].want \in SUBSET Resource
      BY <1>1 DEF Resume, TypeOK
    <2>2. pending[t].op = "begin" =>
              status[t] \in {"shared", "waiting", "destroyed"} /\ resources[t] \subseteq pending[t].want
      BY <1>0 DEF Own
    <2>3. Acquire(t, pending[t].op, pending[t].want)
      BY <1>1 DEF Resume
    <2>4. UNCHANGED <<participants, stage, flow, overwritten>>
      BY <1>1 DEF Resume
    <2>5. QED  BY <1>0, <2>1, <2>2, <2>3, <2>4, AcquireKeeps
  <1>2. CASE Begin(t)
    BY <1>0, <1>2, AcquireKeeps DEF Begin, TypeOK
  <1>3. ASSUME NEW r \in Resource, AddResource(t, r) PROVE Own(t)'
    <2>1. CASE Acquire(t, "add", {r})
      BY <1>0, <1>3, <2>1, AcquireKeeps DEF AddResource
    <2>2. CASE /\ status[t] = "shared" /\ UNCHANGED <<status, locks>>
               /\ resources' = [resources EXCEPT ![t] = @ \cup {r}]
      BY <1>0, <1>3, <2>2 DEF AddResource, Handling, Idle, Own, TypeOK, flow, locks
    <2>3. QED  BY <1>3, <2>1, <2>2 DEF AddResource
  <1>4. ASSUME NEW r \in Resource, Write(t, r) PROVE Own(t)'
    <2>1. \A q \in resources'[t] : lockedBy'[q] = t
      BY <1>0, <1>4 DEF Write, Conflict, TakenLocks, WriteLocks, CanAddNow, Own, TypeOK
    <2>2. overwritten'[t] \cap participants'[t] = {}
      BY <1>0, <1>4 DEF Write, Conflict, TakenLocks, CanAddNow, Own, TypeOK
    <2>3. pending'[t].op = "none"
      BY <1>4 DEF Write, Conflict, TakenLocks, Handling, Idle
    <2>4. QED  BY <1>0, <1>4, <2>1, <2>2, <2>3 DEF Write, Conflict, TakenLocks, Handling, Own, TypeOK
  <1>5. ASSUME NEW r \in Resource, WriteConflict(t, r) PROVE Own(t)'
    BY <1>0, <1>5 DEF WriteConflict, Handling, Idle, Own, TypeOK, locks, flow
  <1>6. CASE Finalized(t)
    BY <1>0, <1>6 DEF Finalized, Released, Woken, Own, TypeOK, NoVotes
  <1>7. CASE Return(t)
    <2>1. CASE byActor[t]
      BY <1>0, <1>7, <2>1 DEF Return, Own, TypeOK, locks
    <2>2. CASE StartCommit(t) /\ status[t] = "exclusive"
      BY <1>0, <1>7, <2>2 DEF Return, StartCommit, Own, TypeOK, locks, NoVotes
    <2>3. CASE Close(t) /\ UNCHANGED vote
      BY <1>0, <1>7, <2>3 DEF Return, Close, Own, TypeOK, locks
    <2>4. QED  BY <1>7, <2>1, <2>2, <2>3 DEF Return
  <1>8. CASE PreCommitEnds(t)
    <2>1. CASE mutated[t]
      BY <1>0, <1>8, <2>1 DEF PreCommitEnds, StartRollback, Own, TypeOK, locks
    <2>2. CASE ~mutated[t] /\ status[t] = "exclusive"
      BY <1>0, <1>8, <2>2 DEF PreCommitEnds, Own, TypeOK, locks
    <2>3. CASE ~mutated[t] /\ status[t] # "exclusive"
      BY <1>0, <1>8, <2>3 DEF PreCommitEnds, Close, Own, TypeOK, locks
    <2>4. QED  BY <2>1, <2>2, <2>3
  <1>9. CASE Commit1Ends(t)
    BY <1>0, <1>9 DEF Commit1Ends, AllPrepared, StartRollback, Own, TypeOK, locks
  <1>10. CASE PostCommitEnds(t)
    BY <1>0, <1>10 DEF PostCommitEnds, Own, TypeOK, locks, flow
  <1>11. ASSUME NEW r \in Resource, Commit1(t, r) PROVE Own(t)'
    BY <1>0, <1>11 DEF Commit1, Own, TypeOK, locks
  <1>12. ASSUME NEW r \in Resource, Commit2(t, r) PROVE Own(t)'
    <2>1. /\ stage[t] = "commit2" /\ status[t] = "committing2" /\ overwritten'[t] = overwritten[t]
          /\ UNCHANGED <<status, resources, participants, locks, stage, mutated>>
      BY <1>0, <1>12 DEF Commit2, Own, TypeOK
    <2>2. \A q \in participants[t] : vote'[t][q] \in {"prepared", "committed", "broken"}
      <3>1. PICK v \in {"committed", "broken"} : vote' = [vote EXCEPT ![t][r] = v]
        BY <1>12 DEF Commit2
      <3>2. vote \in [Tx -> [Resource -> Votes]] /\ participants[t] \subseteq Resource
        BY DEF TypeOK
      <3>3. \A q \in Resource : vote'[t][q] = IF q = r THEN v ELSE vote[t][q]
        BY <3>1, <3>2
      <3>4. QED  BY <1>0, <2>1, <3>2, <3>3 DEF Own
    <2>3. QED  BY <1>0, <2>1, <2>2 DEF Own, locks
  <1>13. ASSUME NEW r \in Resource, Rollback(t, r) PROVE Own(t)'
    BY <1>0, <1>13 DEF Rollback, Own, TypeOK, locks
  <1>14. CASE ActorReturns(t)
    BY <1>0, <1>14 DEF ActorReturns, MayEnd, StartCommit, StartRollback, Own, TypeOK, locks, NoVotes
  <1>15. CASE ActorThrows(t)
    BY <1>0, <1>15
    DEF ActorThrows, MayEnd, CanAddNow, StartRollback, Close, Own, TypeOK, locks, NoVotes
  <1>16. CASE ActorFinalizes(t)
    BY <1>0, <1>16 DEF ActorFinalizes, Idle, StartCommit, StartRollback, Own, TypeOK, locks, NoVotes
  <1>17. CASE PreCommitThrows(t)
    BY <1>0, <1>17 DEF PreCommitThrows, Idle, StartRollback, Own, TypeOK, locks
  <1>18. QED
    BY <1>1, <1>2, <1>3, <1>4, <1>5, <1>6, <1>7, <1>8, <1>9, <1>10, <1>11, <1>12, <1>13,
       <1>14, <1>15, <1>16, <1>17 DEF Step, Progress

LEMMA InitLockInv == Init => LockInv
  BY DEF Init, LockInv, Own, Writing, Committing, Idle, NoVotes

LEMMA StepLockInv == TypeOK /\ LockInv /\ [Next]_vars => LockInv'
  <1> SUFFICES ASSUME TypeOK, LockInv, [Next]_vars PROVE LockInv'
    OBVIOUS
  <1>1. CASE UNCHANGED vars
    BY <1>1 DEF vars, LockInv, Own
  <1>2. ASSUME NEW t \in Tx, Step(t) PROVE LockInv'
    <2>1. ASSUME NEW o \in Tx PROVE Own(o)'
      BY <1>2, OthersKeepTheirs, StepKeeps
    <2>2. QED  BY <2>1 DEF LockInv
  <1>3. QED  BY <1>1, <1>2 DEF Next

LEMMA LockInvHolds == Spec => [](TypeOK /\ LockInv)
  BY InitType, StepType, InitLockInv, StepLockInv, PTL DEF Spec

\* A transaction that may write or is committing has everything locked.
THEOREM LocksAreHeld == Spec => []WritersHoldLocks
  <1>1. LockInv => WritersHoldLocks
    BY DEF LockInv, Own, WritersHoldLocks, Writing
  <1>2. QED  BY <1>1, LockInvHolds, PTL

\* No update is lost: nobody commits a resource between another transaction's
\* write to it and that transaction's commit.
THEOREM UpdatesAreKept == Spec => []NoLostUpdate
  <1>1. LockInv => NoLostUpdate
    BY DEF LockInv, Own, NoLostUpdate, Writing
  <1>2. QED  BY <1>1, LockInvHolds, PTL

\* Phase two touches a participant only when every one of them is prepared.
THEOREM CommitsAreAtomic == Spec => []AllOrNothing
  <1>1. TypeOK /\ LockInv => AllOrNothing
    BY DEF LockInv, Own, AllOrNothing, TypeOK
  <1>2. QED  BY <1>1, LockInvHolds, PTL

-----------------------------------------------------------------------------
(* Locks that are left behind, when actors await their calls.               *)

Holding == Writing \cup {"rollingback"}

\* How a transaction that awaits its calls gets to its end.
Ending(t) ==
    \* a call is pending with the status it needs, and nothing ends under it
    /\ status[t] = "destroyed" <=> stage[t] = "closed"
    /\ pending[t].op # "none" => stage[t] \in {"actor", "precommit", "postcommit"}
    /\ pending[t].op = "none" => pending[t] = Idle
    /\ pending[t].op = "add" => status[t] = "exclusive"
    /\ pending[t].op = "begin" => pending[t].want \subseteq resources[t]
    /\ status[t] = "waiting" <=> pending[t].op = "begin"
    \* what the status can be where handlers run and finalizations end
    /\ stage[t] \in {"actor", "postcommit", "finished"} =>
          status[t] \in {"shared", "waiting", "exclusive"}
    /\ stage[t] = "precommit" => status[t] = "exclusive"
    /\ stage[t] = "commit1" => status[t] = "committing1"
    /\ stage[t] = "commit2" => status[t] = "committing2"
    /\ stage[t] = "rollback" => status[t] = "rollingback"
    \* a failed finalization leaves the transaction shared
    /\ stage[t] = "postcommit" => ~failed[t]
    /\ stage[t] = "finished" /\ failed[t] => status[t] = "shared"
    \* locks are those of a transaction that still will release them, or left
    \* behind at the limit
    /\ \A r \in Resource : lockedBy[r] = t =>
          \/ r \in resources[t] /\ status[t] \in Holding
          \/ stage[t] = "closed" /\ commits[t] >= MaxChainedCommits

Endings == \A t \in Tx : Ending(t)

LEMMA AcquireTakesForItself ==
    ASSUME TypeOK, NEW t \in Tx, NEW o \in Tx \ {t}, NEW op, NEW want \in SUBSET Resource,
           Acquire(t, op, want)
    PROVE  \A r \in Resource : lockedBy'[r] = o => lockedBy[r] = o
  BY DEF Acquire, Granted, Refused, Blocked, TakenLocks, TypeOK

\* A step of t takes no lock for another transaction and ends none of its phases.
LEMMA StepFrameEnding ==
    ASSUME TypeOK, NEW t \in Tx, NEW o \in Tx \ {t}, Step(t)
    PROVE  /\ failed'[o] = failed[o] /\ commits'[o] = commits[o]
           /\ \A r \in Resource : lockedBy'[r] = o => lockedBy[r] = o
  <1> DEFINE Kept == failed'[o] = failed[o] /\ commits'[o] = commits[o]
             NotTaken == \A r \in Resource : lockedBy'[r] = o => lockedBy[r] = o
  <1>0. o # NoTx
    BY TransactionAssumption
  <1>1. Kept
    BY DEF Step, Progress, Resume, Finalized, Return, PreCommitEnds, Commit1Ends, PostCommitEnds,
           Commit1, Commit2, Rollback, Begin, ActorReturns, ActorThrows, ActorFinalizes,
           PreCommitThrows, AddResource, Write, WriteConflict, StartCommit, StartRollback, Close,
           flow, TypeOK
  <1>2. ASSUME Resume(t) PROVE NotTaken
    <2>1. pending[t].want \in SUBSET Resource
      BY DEF TypeOK
    <2>2. Acquire(t, pending[t].op, pending[t].want)
      BY <1>2 DEF Resume
    <2> QED  BY <2>1, <2>2, AcquireTakesForItself
  <1>3. ASSUME Begin(t) PROVE NotTaken
    BY <1>3, AcquireTakesForItself DEF Begin, TypeOK
  <1>4. ASSUME NEW r \in Resource, AddResource(t, r) PROVE NotTaken
    BY <1>4, AcquireTakesForItself DEF AddResource, locks
  <1>5. ASSUME NEW r \in Resource, Write(t, r) PROVE NotTaken
    BY <1>5 DEF Write, TakenLocks, TypeOK
  <1>6. ASSUME Finalized(t) PROVE NotTaken
    BY <1>0, <1>6 DEF Finalized, Released, TypeOK
  <1>7. ASSUME UNCHANGED lockedBy PROVE NotTaken
    BY <1>7
  <1>8. NotTaken
    BY <1>2, <1>3, <1>4, <1>5, <1>6, <1>7
    DEF Step, Progress, Return, PreCommitEnds, Commit1Ends, PostCommitEnds, Commit1, Commit2,
        Rollback, ActorReturns, ActorThrows, ActorFinalizes, PreCommitThrows, WriteConflict, locks
  <1> QED  BY <1>1, <1>8

LEMMA OthersKeepEnding ==
    ASSUME TypeOK, NEW t \in Tx, NEW o \in Tx \ {t}, Ending(o), Step(t) PROVE Ending(o)'
  <1>1. Untouched(o)
    BY StepFrame
  <1>2. /\ failed'[o] = failed[o] /\ commits'[o] = commits[o]
        /\ \A r \in Resource : lockedBy'[r] = o => lockedBy[r] = o
    BY StepFrameEnding
  <1> QED  BY <1>1, <1>2 DEF Ending, Untouched

LEMMA AcquireEnding ==
    ASSUME TypeOK, NEW t \in Tx, Ending(t), NEW op \in {"begin", "add"},
           NEW want \in SUBSET Resource, Acquire(t, op, want),
           op = "begin" => status[t] \in {"shared", "waiting"} /\ want \subseteq resources[t],
           op = "add" => status[t] = "exclusive",
           stage[t] \in {"actor", "precommit", "postcommit"},
           UNCHANGED <<participants, stage, flow, overwritten>>
    PROVE  Ending(t)'
  <1> USE DEF Holding, Writing, Committing
  <1>0. stage'[t] = stage[t] /\ failed'[t] = failed[t] /\ commits'[t] = commits[t]
    BY DEF flow
  <1>1. CASE Granted(t, op, want)
    <2>1. \A r \in Resource : lockedBy'[r] = t => r \in want \/ lockedBy[r] = t
      BY <1>1 DEF Granted, TakenLocks
    <2>2. pending'[t] = Idle /\ pending'[t].op = "none"
      BY <1>1 DEF Granted, TypeOK, Idle
    <2>3. status'[t] = "exclusive" /\ resources[t] \cup want \subseteq resources'[t]
      BY <1>1 DEF Granted, TypeOK, CanAddNow
    <2>4. status[t] # "destroyed" /\ stage[t] # "closed"
      OBVIOUS
    <2>5. ~(stage[t] = "finished")
      OBVIOUS
    <2> QED  BY <1>0, <2>1, <2>2, <2>3, <2>4, <2>5 DEF Ending
  <1>2. CASE Refused(t, op)
    <2>1. /\ pending'[t] = Idle /\ pending'[t].op = "none" /\ lockedBy' = lockedBy
          /\ resources' = resources
          /\ status'[t] = IF op = "begin" THEN "shared" ELSE status[t]
      BY <1>2 DEF Refused, TypeOK, Idle
    <2> QED  BY <1>0, <2>1 DEF Ending
  <1>3. CASE Blocked(t, op, want)
    <2>1. /\ pending'[t] = [op |-> op, want |-> want] /\ lockedBy' = lockedBy
          /\ resources' = resources
          /\ status'[t] = IF op = "begin" THEN "waiting" ELSE status[t]
      BY <1>3 DEF Blocked, TypeOK
    <2>2. pending'[t].op = op /\ pending'[t].want = want
      BY <2>1
    <2> QED  BY <1>0, <2>1, <2>2 DEF Ending
  <1> QED  BY <1>1, <1>2, <1>3 DEF Acquire

LEMMA StepEnding ==
    ASSUME AwaitsCalls, TypeOK, LockInv, NEW t \in Tx, Ending(t), Step(t) PROVE Ending(t)'
  <1> USE DEF Holding, Writing, Committing
  <1>0. pending[t] = Idle <=> pending[t].op = "none"
    BY DEF Ending, Idle
  <1>1. CASE Resume(t)
    <2>1. pending[t].op \in {"begin", "add"} /\ pending[t].want \in SUBSET Resource
      BY <1>1 DEF Resume, TypeOK
    <2>2. /\ pending[t].op = "begin" => status[t] \in {"shared", "waiting"}
                                        /\ pending[t].want \subseteq resources[t]
          /\ pending[t].op = "add" => status[t] = "exclusive"
          /\ stage[t] \in {"actor", "precommit", "postcommit"}
      BY <2>1 DEF Ending
    <2> QED  BY <1>1, <2>1, <2>2, AcquireEnding DEF Resume
  <1>2. CASE Begin(t)
    <2>1. resources[t] \in SUBSET Resource
      BY DEF TypeOK
    <2> QED  BY <1>2, <2>1, AcquireEnding DEF Begin, Handling
  <1>3. ASSUME NEW r \in Resource, AddResource(t, r) PROVE Ending(t)'
    <2>1. CASE Acquire(t, "add", {r}) /\ status[t] = "exclusive"
      BY <1>3, <2>1, AcquireEnding DEF AddResource, Handling
    <2>2. CASE /\ status[t] = "shared" /\ UNCHANGED <<status, locks>>
               /\ resources' = [resources EXCEPT ![t] = @ \cup {r}]
      BY <1>0, <1>3, <2>2 DEF AddResource, Handling, Ending, TypeOK, flow, locks
    <2> QED  BY <1>3, <2>1, <2>2 DEF AddResource
  <1>4. ASSUME NEW r \in Resource, Write(t, r) PROVE Ending(t)'
    <2>1. \A q \in Resource : lockedBy'[q] = t => q \in resources'[t]
      <3>1. \A q \in Resource : lockedBy[q] = t => q \in resources[t]
        BY <1>4 DEF Write, Handling, Ending
      <3>2. lockedBy' = TakenLocks(t, WriteLocks(t, r)) /\ resources'[t] = resources[t] \cup {r}
        BY <1>4 DEF Write, TypeOK
      <3> QED  BY <3>1, <3>2 DEF TakenLocks, WriteLocks
    <2>2. /\ status'[t] = "exclusive" /\ pending' = pending /\ pending[t].op = "none"
          /\ stage' = stage /\ failed' = failed
          /\ stage[t] \in {"actor", "precommit", "postcommit"}
      BY <1>0, <1>4 DEF Write, Handling, TypeOK
    <2> QED  BY <2>1, <2>2 DEF Ending
  <1>5. ASSUME NEW r \in Resource, WriteConflict(t, r) PROVE Ending(t)'
    BY <1>0, <1>5 DEF WriteConflict, Handling, Ending, TypeOK, locks, flow
  <1>6. CASE Finalized(t)
    <2>1. \A r \in Resource : lockedBy[r] = t => r \in resources[t]
      BY <1>6 DEF Finalized, Ending
    <2>2. t # NoTx
      BY TransactionAssumption
    <2>3. \A r \in Resource : lockedBy'[r] # t
      BY <1>6, <2>1, <2>2 DEF Finalized, Released, TypeOK
    <2>4. /\ status'[t] = "shared" /\ pending' = pending /\ failed' = failed
          /\ stage'[t] = IF stage[t] = "commit2" /\ ~failed[t] THEN "postcommit" ELSE "finished"
      BY <1>6 DEF Finalized, TypeOK
    <2>5. pending[t].op = "none"
      BY <1>6 DEF Finalized, Ending, TypeOK
    <2> QED  BY <1>0, <2>3, <2>4, <2>5 DEF Ending
  <1>7. CASE Return(t)
    <2>0. pending[t].op = "none" /\ status[t] \in {"shared", "exclusive"}
      BY <1>7 DEF Return, Ending, TypeOK
    <2>1. CASE byActor[t] /\ stage' = [stage EXCEPT ![t] = "actor"]
               /\ failed' = [failed EXCEPT ![t] = FALSE]
               /\ UNCHANGED <<status, resources, commits>>
      BY <1>0, <1>7, <2>0, <2>1 DEF Return, Ending, TypeOK, locks
    <2>2. CASE StartCommit(t) /\ status[t] = "exclusive"
      BY <1>0, <1>7, <2>0, <2>2 DEF Return, StartCommit, Ending, TypeOK, locks
    <2>3. CASE /\ Close(t) /\ UNCHANGED commits
               /\ status[t] = "exclusive" => failed[t] \/ commits[t] >= MaxChainedCommits
      <3>1. \A r \in Resource : lockedBy[r] = t => commits[t] >= MaxChainedCommits
        BY <1>7, <2>0, <2>3 DEF Return, Ending
      <3>2. status'[t] = "destroyed" /\ stage'[t] = "closed"
        BY <2>3 DEF Close, TypeOK
      <3>3. lockedBy' = lockedBy /\ pending' = pending /\ commits' = commits
        BY <1>7, <2>3 DEF Return, locks
      <3> QED  BY <1>0, <2>0, <3>1, <3>2, <3>3 DEF Ending
    <2> QED  BY <1>7, <2>1, <2>2, <2>3 DEF Return
  <1>8. CASE PreCommitEnds(t)
    <2>0. pending[t].op = "none" /\ status[t] = "exclusive"
      BY <1>0, <1>8 DEF PreCommitEnds, Ending
    <2>1. CASE mutated[t]
      BY <1>0, <1>8, <2>0, <2>1 DEF PreCommitEnds, StartRollback, Ending, TypeOK, locks
    <2>2. CASE ~mutated[t]
      BY <1>0, <1>8, <2>0, <2>2 DEF PreCommitEnds, Ending, TypeOK, locks
    <2> QED  BY <2>1, <2>2
  <1>9. CASE Commit1Ends(t)
    <2>0. pending[t].op = "none" /\ status[t] = "committing1"
      BY <1>9 DEF Commit1Ends, Ending, TypeOK
    <2> QED  BY <1>0, <1>9, <2>0 DEF Commit1Ends, StartRollback, Ending, TypeOK, locks
  <1>10. CASE PostCommitEnds(t)
    <2>0. pending[t].op = "none" /\ ~failed[t]
      BY <1>0, <1>10 DEF PostCommitEnds, Ending
    <2> QED  BY <1>0, <1>10, <2>0 DEF PostCommitEnds, Ending, TypeOK, locks, flow
  <1>11. ASSUME NEW r \in Resource, Commit1(t, r) PROVE Ending(t)'
    BY <1>11 DEF Commit1, Ending, TypeOK, locks
  <1>12. ASSUME NEW r \in Resource, Commit2(t, r) PROVE Ending(t)'
    BY <1>12 DEF Commit2, Ending, TypeOK, locks
  <1>13. ASSUME NEW r \in Resource, Rollback(t, r) PROVE Ending(t)'
    BY <1>13 DEF Rollback, Ending, TypeOK, locks
  <1>14. CASE ActorReturns(t)
    <2>0. pending[t].op = "none" /\ status[t] \in {"shared", "exclusive"} /\ stage[t] # "closed"
      BY <1>0, <1>14 DEF ActorReturns, MayEnd, Ending
    <2> QED  BY <1>0, <1>14, <2>0 DEF ActorReturns, StartCommit, StartRollback, Ending, TypeOK, locks
  <1>15. CASE ActorThrows(t)
    <2>0. /\ pending[t].op = "none" /\ status[t] \in {"shared", "exclusive"} /\ stage[t] # "closed"
          /\ CanAddNow(t)
      BY <1>0, <1>15 DEF ActorThrows, MayEnd, Ending, CanAddNow
    <2> QED  BY <1>0, <1>15, <2>0 DEF ActorThrows, StartRollback, Ending, TypeOK, locks
  <1>16. CASE ActorFinalizes(t)
    <2>0. pending[t].op = "none" /\ status[t] \in {"shared", "exclusive"} /\ stage[t] # "closed"
      BY <1>0, <1>16 DEF ActorFinalizes, Ending
    <2> QED  BY <1>0, <1>16, <2>0 DEF ActorFinalizes, StartCommit, StartRollback, Ending, TypeOK, locks
  <1>17. CASE PreCommitThrows(t)
    <2>0. pending[t].op = "none" /\ status[t] = "exclusive"
      BY <1>0, <1>17 DEF PreCommitThrows, Ending
    <2> QED  BY <1>0, <1>17, <2>0 DEF PreCommitThrows, StartRollback, Ending, TypeOK, locks
  <1>18. QED
    BY <1>1, <1>2, <1>3, <1>4, <1>5, <1>6, <1>7, <1>8, <1>9, <1>10, <1>11, <1>12, <1>13,
       <1>14, <1>15, <1>16, <1>17 DEF Step, Progress

\* When actors await their calls, a transaction that ended left a lock behind
\* only where the chain of post-commit writes was cut off (cleanup, Tx.ts:405).
THEOREM LocksAreReleased == ASSUME AwaitsCalls PROVE Spec => []LeakOnlyAtCommitLimit
  <1>1. Init => Endings
    <2>1. NoTx \notin Tx
      BY TransactionAssumption
    <2> QED  BY <2>1 DEF Init, Endings, Ending, Idle
  <1>2. TypeOK /\ LockInv /\ Endings /\ [Next]_vars => Endings'
    <2> SUFFICES ASSUME TypeOK, LockInv, Endings, [Next]_vars PROVE Endings'
      OBVIOUS
    <2>1. CASE UNCHANGED vars
      BY <2>1 DEF vars, Endings, Ending
    <2>2. ASSUME NEW t \in Tx, Step(t) PROVE Endings'
      <3>1. ASSUME NEW o \in Tx PROVE Ending(o)'
        BY <2>2, OthersKeepEnding, StepEnding DEF Endings
      <3> QED  BY <3>1 DEF Endings
    <2> QED  BY <2>1, <2>2 DEF Next
  <1>3. TypeOK /\ Endings => LeakOnlyAtCommitLimit
    <2> SUFFICES ASSUME TypeOK, Endings, NEW r \in Resource, Leaked(r)
                 PROVE  commits[lockedBy[r]] >= MaxChainedCommits
      BY DEF LeakOnlyAtCommitLimit
    <2>1. lockedBy[r] \in Tx
      BY DEF Leaked, TypeOK
    <2> QED  BY <2>1 DEF Leaked, Endings, Ending, Holding, Writing, Committing
  <1> QED  BY <1>1, <1>2, <1>3, LockInvHolds, PTL DEF Spec

=============================================================================
