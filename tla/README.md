# TLA+ models of the Virtual Matter Broker and the parts of matter.js it stands on

The repository holds a fork of matter.js (`src/matter.js/packages`) and, on top of
it, a *virtual broker*: a node that commissions sensors, subscribes to their
attributes and publishes averages over fixed intervals through a cluster of its own
(`packages/cs525`). This directory models the control of that system: what the
handlers, timers and promises do, in every order the runtime and the network allow.

Paths below are relative to `src/matter.js/packages`.

## 1. Inventory

| component | state it keeps | operations | talks to |
|---|---|---|---|
| Message reception (`protocol/src/protocol/MessageReceptionState.ts`) | largest counter seen, 32-bit window | `updateMessageCounter` in three variants | called by the exchange manager for every packet |
| Message counter (`MessageCounter.ts`) | next counter | `getIncrementedCounter`, announcement of the rollover, persistence | session, storage |
| Message exchange (`MessageExchange.ts`) | message to acknowledge, message waiting for an acknowledgement, four timers, promises of `send()` | `send`, `onMessageReceived`, `nextMessage`, `close`, retransmission | channel, message queue, exchange manager |
| Exchange manager (`ExchangeManager.ts`) | table of exchanges, keyed by exchange id | `onMessage`, `initiateExchange`, eviction of the oldest exchange, closing of a session's exchanges | sessions, channels, protocols |
| Sessions (`session/*.ts`) | session table, subscriptions, `closingAfterExchangeFinished`, `sendCloseMessageWhenClosing` | `destroy`, `end`, removal of resumption records | exchange manager, channels, fabrics |
| Channels (`ChannelManager.ts`) | the channels of each peer, latest last | `getOrCreateChannel`, eviction of the session active least, removal with the session | sessions, exchange manager |
| Interaction server and messengers (`interaction/Interaction*.ts`) | none of their own | read, write, invoke, subscribe | exchanges, behaviours, subscriptions |
| Subscription server (`interaction/ServerSubscription.ts`) | outstanding changes and events, the running update, two timers, error counter | initial report, `activate`, change listeners, `#sendUpdate`, `close` | interaction server, session, exchange |
| Subscription client (`interaction/SubscriptionClient.ts`) | listeners and a timeout for each subscription | `onNewExchange`, timeout, `register`, `delete` | exchange, application |
| Transactions (`general/src/transaction/Tx.ts`, `ResourceSet.ts`) | status, resources, participants, whom they wait for; the lock of each resource | `act`, `begin`, `addResources`, `addParticipants`, `commit`, `rollback` | datasources, resources |
| Datasources and behaviours (`node/src/behavior`) | values, versions, sessions' copies | read, write, phases of a commit, change events | transactions, storage, subscriptions |
| Failsafe (`common/Failsafe*.ts`, `ServerNodeFailsafeContext.ts`) | two timers, the fabric added or updated, the fabric as it was, the associated session | arm, extend, expire, `completeCommission`, the steps of `rollback` | fabrics, sessions, network state |
| Fabrics (`fabric/FabricManager.ts`, `Fabric.ts`) | fabric table, next index, callbacks of each fabric | add, update, remove, `persistFabrics` | storage, reactors |
| Commissioning of a device (`DeviceCommissioner.ts`, the servers of General Commissioning, Administrator Commissioning and Operational Credentials, `CommissioningServer.ts`) | commissioning window, `commissioned`, behaviour lock | ArmFailSafe, CSRRequest, AddNOC, UpdateNOC, RemoveFabric, CommissioningComplete, RevokeCommissioning; reactors to fabric events; factory reset | failsafe, fabrics, sessions |
| Commissioning controller, CASE, PASE (`peer/*.ts`, `session/case`, `session/pase`) | steps of a dialogue | commission, connect, resume | exchanges, failsafe |
| Paired node (`matter.js/src/device/PairedNode.ts`) | connection state, reconnect timers, in-progress flags | initialize, reconnect, subscribe, close | interaction client |
| BTP (`protocol/src/ble/BtpSessionHandler.ts`) | sequence numbers, acknowledgement window, timers | send and receive segments | Bluetooth |
| Storage (`nodejs/src/storage`) | files, temporary files, the write in progress of each file | `get`, `set`, `delete`, `clearAll` | everything persistent |
| Queues, mutex, construction (`general/src/util`) | waiting promises | read and write, lock, initialise | everything |
| Virtual broker (`cs525/src/VirtualMatterBrokerNode.ts`) | sums for each interval and endpoint, start of each window | attribute listener, interval timers, recalculation, pairing | controller, aggregated-stats cluster |
| Sensors, root controller (`cs525/src`), baselines, measurement scripts | none to speak of | start-up scripts | the library |
| Codecs, cryptography, model, generators, discovery, shell, tests | caches | encode, decode, generate | everything |

A change travels through most of it: a sensor sets an attribute in a transaction; the
commit emits a change; the subscription server collects it and reports it over an
exchange; the exchange retransmits until it is acknowledged; the receiver's window
drops the copies; the broker's listener adds the value to its sums, a timer takes
them, and a transaction on the broker publishes the average.

### What is hard, and what makes each part right

* **Reception**: copies of packets in any order. Nothing is delivered twice, and what
  is new is not rejected.
* **Exchange**: acknowledgements, retransmissions, closing and late completion of
  `channel.send` overlap. What `send()` says is true, it says something at last, and
  a closed exchange goes away.
* **Sessions**: exchanges of all peers share one table; a session ends while messages
  wait for a channel, while its exchanges run, or after them. The table, the limits and
  the channels agree with each other, and what is to end ends.
* **Subscription server**: changes come while a report is on its way or has failed.
  No change is forgotten, events keep their order, every change is reported at last,
  the subscription keeps reporting and can be closed.
* **Transactions**: locks awaited one after the other, failures in each phase. No
  lost update, no half commit, no cycle of waiting, and locks are released.
* **Failsafe and fabrics**: expiry, completion, revocation and removal overlap between
  their awaits; writes are refused and the device crashes. A fabric is committed or
  rolled back, never half; what was committed is neither lost nor reverted.
* **Storage**: overlapping calls on one file, temporary files, a limit on waiting,
  crashes. The files are a key-value store, and a removal is final.
* **Broker**: reports come while an average is published. Every reported area counts
  once, and windows follow each other.
* **Paired node, pairing of the broker, subscription client**: timers and flags that
  race (not modelled; section 5).

`PROJECT.json` lists the hazards line by line with the properties that cover them.

## 2. Modules

| module | models | composed of |
|---|---|---|
| `ReceptionWindow` | `MessageReceptionState.ts` and the sender's `MessageCounter`, joined by a network | |
| `MessageExchange` | two exchanges of one conversation, and what `ExchangeManager.onMessage` does with a packet | |
| `ServerSubscription` | the publisher's side of a subscription and its establishing | |
| `Transaction` | `Tx.ts` and `ResourceSet.ts`, any number of transactions | |
| `BrokerAggregation` | the sums, timers and recalculation of the broker | |
| `Commissioning` | a device: failsafe, fabric table and its persistence, commissioning window, the commands and reactors that use them | |
| `DiskStorage` | the file storage | `KeyValueStore` |
| `KeyValueStore` | abstract: what a storage promises to overlapping callers | |
| `Sessions` | sessions, channels and the table of exchanges | |
| `MCReceptionWindow`, `MCMessageExchange`, `MCServerSubscription`, `MCTransaction`, `MCBrokerAggregation` | instances for TLC | the module each is named after |
| `ReceptionWindow_proofs`, `MessageExchange_proofs`, `ServerSubscription_proofs`, `Transaction_proofs`, `BrokerAggregation_proofs`, `Commissioning_proofs`, `DiskStorage_proofs`, `Sessions_proofs` | theorems | the module each is named after |

Code between two awaits is one action. An operator whose comment says "Faulty" or "as a
bug" is a variant of its neighbour with a plausible bug; no action uses it. It documents
what the properties would catch.

### ReceptionWindow

`counter`, `max` and `bitmap` are the fields of the source; `bitmap` is the set of
offsets below `max` whose bit is set. `Send` is `getIncrementedCounter`, `Accept` and
`Reject` are the two ends of `updateMessageCounter`. `variant` chooses the subclass,
that is, `calculateDiff`. The shift of JavaScript takes its distance modulo the width
of the word (`ShiftDistance`). The network holds the copies of every message that
fewer than `MaxDelay` newer ones followed; each may arrive any number of times.
The "late by more than half a range" cases of the two rollover variants cannot work,
by design of the protocol, so `MaxDelay` is part of the model and named as a bound.

### MessageExchange

One row of every function in `VARIABLES` is one exchange object; the comments name the
fields. `Send` is `send()` up to its `await channel.send`, `FirstSendDone` what
follows; when `PromptSend` is set the two are one step, because no answer can arrive
before. `ReceiveNew`, `ReceiveAck`, `ReceiveWithoutAck` and `ReceiveUnexpected` are
`onMessageReceived` behind `ExchangeManager.onMessage`. `Retransmit`, `ResendDone`,
`FinalWait`, `LimitReached` are `#retransmitMessage`, with a chain of timers for each
message, because `#retransmissionTimer` may refer to the timer of another one.
`Evict` is the limit on concurrent exchanges. `Script` fixes the conversation.
Time is abstracted: a running timer may fire at any moment.

Simplified: a retransmission over a channel that is not connected, which closes the
exchange with its send pending (`:582`), is left out, because the UDP channel does not throw
that error; a new message of the initiator to an exchange that has closed is only
acknowledged, while the source gives it to a new exchange of the protocol
(`ExchangeManager.ts:286`), another conversation; at the limit of transmissions a send of the
same message that is still under way has no effect any more.

### ServerSubscription

A value is the number of the change that produced it, so "the newest value" can be
recognised. `outAttrs`/`outEvents` are the outstanding updates, `batchAttrs`/
`batchEvents` what the running `#sendUpdate` took, `sending` the promise. `Prepare`
is `#prepareDataUpdate`, `Trigger` is `#triggerSendUpdate`, `EndOrSendDelayed` the
tail of `#sendUpdate`. The outcome of a report is one of `ReportSucceeds`,
`ReportFails` (first two times in a row), `ReportFailsForGood` (third time, the peer
is gone), `ReportFailsOtherwise` (third time, another error), `ReportFailsWhenClosed`,
`ReportRefused` and `ReportRefusedWhenClosed`. In each failure the report may have
arrived nevertheless. A report arrives as a whole or not at all. Time is abstracted
to whether the minimum interval has passed; the update timer (2 s at least) does not
fire before the 50 ms delay timer.

### Transaction

`status`, `resources`, `participants`, `waitingOn` and `lockedBy` are fields of the
source. `pending` is the `acquireLocks()` call that `begin()` or `addResources()`
awaits; `Acquire`, `Granted`, `Blocked`, `Refused` and `Resume` are its rounds, with
`SafeToWait` for `#detectDeadlock`. `stage` is the continuation of `act()` or of a
commit: `PreCommitEnds`, `Commit1`, `Commit1Ends`, `Commit2`, `PostCommitEnds`,
`Rollback`, `Finalized` and `Return` are the steps between its awaits. Participants
may refuse phase one, break in phase two or throw in a rollback. A resource stands
also for the participant that writes it, as every datasource does.

### BrokerAggregation

`sum` is `#aggregatorData`. `Report` is the attribute listener of `connectNode`,
`RecalculateStarts` and `RecalculateEnds` are `recalculateAggregatesFor` before and
after `await aggregator.set`; `RecalculateFails` is a refused `aggregator.set` (`:523`),
after which neither the window restarts nor the sums are reset. The timer does not catch that
error: Node ends the process, unless it was told to go on
(`--unhandled-rejections=warn`), and the model goes on, to show what the next recalculation
then publishes. Values are signed. An average is kept as total and divisor. `reported`,
`published`, `during` and `lost` are history: the area of the reports, of the
publications, of the reports in a recalculation that runs, and of what resets have cleared
unpublished. Assumed: a
sensor reports at most once a second (the default minimum interval of a subscription,
`protocol/src/peer/PhysicalDeviceProperties.ts:11`), timers are punctual, and
`aggregator.set` takes less than an interval. That last one is not in the code: the next
timer does not wait, and two recalculations of an interval that overlapped would
publish the same sums.

### Commissioning

`table`, `nextIndex`, `commissioned` and the fields of a `FailsafeContext` are fields of
the source; `failsafe` is a set of at most one context. A step lasts until the next
await that really waits: the key derivation of AddNOC and UpdateNOC (`AddNoc` and
`AddNocBuilt`, `UpdateNoc` and `UpdateNocBuilt`), a write to the storage (`writes`, the
`persistFabrics()` calls under way, done in their order by `WriteDone` as `DiskStorage`
shows), the closing of a session. Arming a failsafe does not really wait. `Expire` and
`RollbackRevoked` to `RollbackEnds` are the steps of `close()` and `rollback()`;
`CommissioningComplete`, `CommissioningPersisted` and `CommissioningClosed` those of
`completeCommission()` with the command around it. The commands of OperationalCredentials
hold the behaviour's lock (`command`), and so do the reactors to fabric events: `changes`
are the events that wait for it. `Crash` starts again from what the storage holds;
`WriteError` is a write the storage refuses.

Simplified: both files of the fabric manager are written in one step; a fabric is its
certificate's number and whether the manager's callbacks are on it (`tracked`); there is
one CASE session for each fabric; peers do not close sessions; re-arming has no
effect, because a timer may fire at any moment anyway; a second CommissioningComplete
does not run beside the first; the limit of AddNOC is compared with the fabric table itself,
where the source reads the attribute CommissionedFabrics (`OperationalCredentialsServer.ts:235`),
which a reactor updates a little later, and AddNOC does not refuse a fabric that is there
already. `status`, `confirmed`, `removed`, `refused`, `missed`
and `overtaken` are history: what the answers to the commissioners promised, and what
came in between.

### DiskStorage and KeyValueStore

`writers` is `#writeFileBlocker` with those who wait for it, `temps` the temporary files,
`phase` how far the write of a file is. `Set`, `TempWritten`, `Renamed` and `WriteEnds`
are `set()`; `Removes`, `Round` and `Waited` are `#finishAllWrites`, `List`,
`RemoveFile` and `RemoveTemp` what follows it. Calls of the runtime's file system are
steps of the operating system; it may refuse the write and the rename of a set()
(`WriteRefused`). A refused `rm`, `readdir` or opening for `fsync` (`:163`, `:176`, `:243`,
`:249`), which makes a removal fail half done, is not modelled. A value is the
number of the call that wrote it, so it is known which one a file holds.

`KeyValueStore` is the abstract specification: sets of one key take effect in the
order of their calls, removals at one moment between call and answer, what took effect
survives a crash, and a refused set takes those that wait behind it with it. The
refinement mapping reads the pending sets from the rows of writers, without a head
that has been renamed, and what a removal has still to remove from its state.

### Sessions

`net` holds what closing an exchange may change, because that may close a session, and
that its exchanges and channels: `table` is the map of exchanges, `channels` the rows of
each peer, `listed` the sessions of the manager, `swept` those with `closedByExchange`.
`FirstMessage`, `Duplicate` and `Stray` are `onMessage` when no exchange of the session
is found, by what the message is; `Accept` is `getOrCreateChannel`, after which a message
may have to wait for the end of another session (`ending`, continued by `Destroy`).
`EndSession` is `end()` or `destroy()` up to the closing of the subscriptions; its guard
lists the callers of the source.

An end is cut at its awaits. `Destroy` takes the session from the list, whose observer
begins `#closeSession()`: the closer, in the name of the source. Its loop over the
exchanges destroys one of them at a time (`sweep`, `SweepOne`), in the order of the map and
with what was added meanwhile; `CloserEnds` is its end, with the close message, and
`DestroyEnds` what `destroy()` does after it has waited for it (`closing`): only then are
the channels closed and the message that waited goes on. When the last exchange of a
session that is to end later asks for the end (`DeleteExchange`), the same loop runs first, and
`SweepEnds` destroys the session and frees the index. All other actions may come between these.
`CloseAgain` is a handler that closes an exchange which something else has closed
already: whatever is at its index is deleted.

Simplified: timestamps are left out, any session may be the one active least; session ids are
distinct; PASE sessions have channels without a limit, which are left out, as is the exchange
that carries a close message; a sweep does not wait for a sweep that the deletion of one
of its own exchanges would begin. `late` is history: the exchange was begun after its
session had left the list, by a message that had waited for a channel, or by
`initiateExchange()` or a message on the channel that was still in its row.

## 3. Runs

| run | instance | shows |
|---|---|---|
| `reception_windows` | 4-bit counters, window 4, 12 messages, the three variants | `DeliveredAtMostOnce`, `NewestAccepted`, `FreshLostOnlyByFullShift` |
| `exchange_reliable` | request, report, confirmation; 3 transmissions; the initiator's exchange may be evicted | `AckedWasReceived`, `FailedAfterAllTransmissions`, `LostOnlyWithoutAck`, `AckStopsRetransmission` |
| `exchange_liveness` | request and response; 2 transmissions; `channel.send` completes late or fails | `SendSettles`, `ClosedAtLast` |
| `tx_two` | two transactions, two resources, failures everywhere, own commits, post-commit writes | `WritersHoldLocks`, `NoLostUpdate`, `AllOrNothing`, `LeakOnlyAtCommitLimit`, `EveryTransactionEnds` |
| `tx_three` | three transactions, three resources, symmetric | `WaitGraphAcyclic` |
| `broker_windows` | two endpoints, a value below zero and one above, intervals of 2 and 3 s, 4 s, publications that are late or refused | `AreaAccountedFor`, `WindowBounded` |
| `subscription_reports` | two attributes, three changes, two events | `NothingLost`, `EventsInOrder`, `ChangesReported`, `KeepsReporting` |
| `commissioning_failsafe` | two fabric indices, one UpdateNOC for each fabric, two failsafes, one crash or refused write | `PendingHasFailsafe`, `NeverLost`, `NocSettled`, `RemovedIsGone`, `CommissionedAgrees`, `FailsafeWatched`, `NeverErased` |
| `storage_files` | two files, three calls, one round of waiting, one crash, refused write or refused rename | `ImplementsStore`, `RemovalIsFinal`, `FailureHasCause`, `EveryCallReturns` |
| `sessions` | two CASE sessions and a PASE session, one peer with one exchange id, limits of one, three exchanges, one call that ends a session | `TableAgrees`, `ExchangeLimit`, `EndedHasNoExchange`, `ChannelsAreLive`, `DelayedEnds` |
| `subscription_refused` | one attribute, one change | `CloseReturns` is violated |
| `commissioning_remove_ignored` | as `commissioning_failsafe`, without faults | `RemoveTakesEffect` is violated |

`exchange_reliable`, `commissioning_failsafe` and `storage_files` check a type invariant
too; those of the other modules are only proved (section 4), as part of an invariant in
`ReceptionWindow`, `BrokerAggregation` and `Sessions`. Deadlock is not reported anywhere,
because every one of these systems may come to rest: the bounded number of messages is
sent, the transactions are closed, the subscription is closed, the clock, the failsafes or
the calls have reached their bound.

**Why the bounds are enough.** *Reception*: 12 messages take the sender of the
rollover variant past the end of its range and on, every distance between `-Window`
and `Window + 1` occurs, and so does the jump of exactly `Window`; the widths (4 of
32, 8 of 2^31, 14 of 2^32-2) keep the proportions on which the comparisons depend.
*Exchange*: 3 transmissions have a first, a middle and a last one; three messages
make each side sender and receiver, and make an acknowledgement travel alone and
along; two transmissions are enough for overlaps of `channel.send` with the limit.
*Transactions*: two of them conflict in every way two can; three make a ring of
waiting that no pair of them sees, which is what `#detectDeadlock` has to find. Two
commits per `act()` let a chain of commits begin and reach the limit. *Broker*: two
intervals of different length interleave their recalculations; in 4 s the shorter
timer fires twice, so that a recalculation follows one that was refused; a negative value lets
areas shrink (1.4 million states). *Subscription*: one attribute changes twice, so that a failed
report is overtaken by a newer value; two events have an order; the other attribute
is in neither. *Commissioning*: a fabric that is updated or removed beside one that is
added needs two indices, and with two the allocation of an index starts over at the end
of its range; the second failsafe meets what the first left behind; one fault may hit
any step (7.4 million states). An instance with three failsafes on one index (13.1
million states) passes too; it takes four for a factory reset to be overtaken by a
commissioning. *Storage*: the third call overtakes or waits for the other
two, on a file of its own or the same, and one round of waiting is enough to run out of
them, because a set may follow it; no fault, a refused write or rename and a crash are all
there (602,054 states). *Sessions*: exchange ids of
all peers meet in one table, so three sessions of one peer that use the same id collide like
those of three peers, and share a row of channels besides; limits of one are reached at
once, by the second channel and the second exchange; the third exchange meets the sweep and
the wait of the other two; evictions end sessions too, so that ends overlap
though only one call asks for one (222,932 states).

### Fairness

* `exchange_*`: timers fire, `channel.send` settles and the application reads and
  closes. The network is not fair: nothing says that any packet arrives.
* `tx_two`: promises settle (locks are granted when they are free, handlers of
  participants return) and an actor ends. There is no fairness on throwing, on
  choices of the actor, or on one participant rather than another.
* `subscription_*`: timers fire, the steps of establishing follow each other, and
  every report has some outcome. That last one is what the exchange below promises
  (`SendSettles`): acknowledgement, a given-up retransmission, or a timeout; which of
  the outcomes it is, is not fair: every report may fail.
* `storage_files`: the operating system answers every request; that it does so without
  an error is not assumed. Calls and crashes are not fair.
* `sessions`: protocols close the exchanges they were given, the waits of a closing
  exchange end (`ClosedAtLast` of `MessageExchange`), subscriptions get closed, which
  `destroy()` awaits, and a sweep goes on, because its acknowledgements are sent or given up.
  Nothing makes a message arrive or a session end.
* `commissioning_*`, `reception_windows`, `broker_windows`, `tx_three`: none; their
  properties are about what must not happen. That a failsafe comes to an end is stated
  as `FailsafeWatched`: there is always a timer, a rollback or a command that will end it.

### What the violated runs say

* **subscription_refused** (`ServerSubscription.ts:1048`): `close()` is called by the
  update it waits for. Both stay pending, and so does the messenger of that report.
* **commissioning_remove_ignored** (`FabricManager.ts:249`): `updateFabric()` puts a
  new `Fabric` object into the table without the remove callback that `addFabric()`
  registers. A RemoveFabric after an UpdateNOC answers Ok and removes nothing.

### Seen while modelling, not kept as runs

* `bitmap << 32` is `bitmap << 0`: after a jump by exactly 32 the old bits stand for
  counters that were never received, and those messages are dropped as duplicates
  (`MessageReceptionState.ts:76`). `FreshLostOnlyByFullShift` shows that this is the
  only way to lose one.
* Without encryption and with a maximum at the end of the range, the distance of
  counter 0 is `MAX_COUNTER_VALUE_32BIT + diff = 0`: the message is accepted but not
  recorded, and so are its copies (`MessageReceptionState.ts:201`, against the comment
  at line 189). For secure sessions `PlainRecordsAccepted` excludes it.
* A response that does not carry the acknowledgement its receiver waits for, and a
  second message that comes before the first is answered, are dropped
  (`MessageExchange.ts:322`, `:354`) after their counters were recorded; their
  retransmissions are then acknowledged as duplicates. `LostOnlyWithoutAck` bounds it.
* A late completion of `channel.send` resets `#retransmissionCounter`, which the
  message sent meanwhile shares (`MessageExchange.ts:444`).
* An actor that does not await `begin()` may have its finished transaction made
  exclusive again (`Tx.ts:263`). The instances await it (`AwaitsCalls`).
* A sensor that did not report in a window counts as zero
  (`VirtualMatterBrokerNode.ts:494`); endpoints of two nodes with the same number share
  one entry (`:436`).
* The third failure of a report by an error that does not mean that the peer is gone
  drops the data and keeps the subscription, though the log says that it is cancelled
  (`ServerSubscription.ts:660`); the listeners of a subscription whose subscribe
  response failed stay registered, though a comment says that they are cleaned up
  (`InteractionServer.ts:1170`): `Abandon` leaves the subscription collecting for ever.
* The value a fabric-scoped attribute is read again for is overwritten by the one it
  was to replace (`ServerSubscription.ts:896` follows the branch of `:882` without a
  return). Not modelled: values have no fabric.
* The sixth exchange of a session closes the oldest one; a `send()` waiting in it neither
  resolves nor rejects (`MessageExchange.ts:694`).
* `act()` gives up after five chained commits by throwing while the transaction is
  exclusive; `close()` does not release its locks, so everybody who wants those resources
  waits for ever (`Tx.ts:41`). `LeakOnlyAtCommitLimit` shows that no other end leaks.
* A publication that `aggregator.set` refuses ends the broker: nobody catches the error of
  the timer's callback (`VirtualMatterBrokerNode.ts:244`). Were it to go on, the sums would
  be published with the next ones, their samples weighted from the older start of the window
  (`missed` in `WindowBounded`).
* Each sample of the broker is weighted by the time since its window began, not since the
  previous sample, so areas overlap and the average may exceed every measured value
  (`VirtualMatterBrokerNode.ts:447`).

In `Commissioning`, most of them a value of `status` or of another history variable:

* A failsafe that ends while AddNOC derives keys leaves a fabric that no failsafe guards
  (*late*): the fabric is added whatever became of the context
  (`OperationalCredentialsServer.ts:244`). So does an UpdateNOC.
* RevokeCommissioning or RemoveFabric during the write of CommissioningComplete: the
  answer is Success, but the fabric is gone (*undone*, `FailsafeContext.ts:117`).
  A rollback that is over before `completeCommission()` wants to wait for it makes that
  command hang.
* A write refused in CommissioningComplete leaves the failsafe armed with its timers
  stopped, for ever (*refused*, the exception in `FailsafeWatched`).
* A failsafe armed over a CASE session that is older than the last UpdateNOC restores
  the `Fabric` object of that session, and with it an older certificate (*reverted*).
* The removal of a fabric while a failsafe of another one is armed makes the
  reactor of `CommissioningServer` throw: `commissioned` stays stale, and no factory reset
  happens (*missed*, `CommissioningServer.ts:95`).
* Any `persistFabrics()` writes the uncommitted fabric too; after a crash it is there
  without its failsafe (*recovered*, `FabricManager.ts:143`).
* A factory reset that waits for sessions to close is never withdrawn
  (`CommissioningServer.ts:129`): a fabric commissioned before they do is erased by it
  (*erased*, the premise `overtaken` of `NeverErased`).

In `DiskStorage`:

* A set called after a `clearAll()` may fail, because the removal lists the
  set's temporary file (the cause in `FailureHasCause`).
* With more than ten writes of a file ahead of it a removal gives up waiting, and an older
  set may undo it (the premise of `RemovalIsFinal`).
* A write that fails rejects every set that waits for it; they are not tried
  (`WriteFails`). A temporary file left by a crash looks like a context of its own.

In `Sessions`:

* The table is keyed by the exchange id alone (`ExchangeManager.ts:262`): a second
  peer with the same id replaces the entry of the first, whose exchange then finds no
  message and, closing, removes the entry of the other. So does the exchange that only
  acknowledges a duplicate. `TableAgrees` and `DelayedEnds` name the replacement as
  the only exception.
* An exchange that was replaced in the table goes on, but `#cleanupSessionExchanges()` counts
  what is in the table (`ExchangeManager.ts:417`). A session whose exchanges are
  replaced by those of another one may so have more of them open than the limit, which
  the comment at `:406` gives a reason for. `ExchangeLimit` names them as its exception.
* Between the removal of a session from the list and the end of its closer, its channel is in
  the row: `getChannel()` (`ChannelManager.ts:82`) looks at `closed` and
  `closingAfterExchangeFinished` only, so a new exchange may begin on the session that is
  ending (`late` in `EndedHasNoExchange`, `closing` in `ChannelsAreLive`).
* A session that is told to end after its exchange, while it is already ending at once, waits
  for itself: its closer calls `session.destroy()`, which awaits the closer
  (`ExchangeManager.ts:398`, `SecureSession.ts:328`). `CloserEnds` cannot happen then, and the
  channel stays; unless its close message fails before that.
* A PASE session that is to end after its exchange, but has none at that moment, never
  ends (`FailsafeContext.ts:170`, `:127`); neither does a session whose resumption failed
  (`CaseServer.ts:126`).
* A CASE session that ends later with a close message has lost its channel by then: the
  message throws before the session is taken from the list (`CloseFails`,
  `ExchangeManager.ts:376`, `SecureSession.ts:126`), and it stays there.
* Two messages that need a channel at once may choose the same session to evict
  (`ChannelManager.ts:58`), and the new channel may itself be the one closed (`:62`). A
  session that ends while its message waits leaves an orphan channel (`:164`) and an
  exchange on a dead session (`late` in `EndedHasNoExchange`).

## 4. Theorems

Checked by TLAPS for every value of the constants that the modules' assumptions allow:
these say no more than types, that limits are positive and that `NoTx`, `NoPeer` and the
like are none of the things they stand in for. Every safety property and every action
property that a passing run checks is a theorem here. Some theorems have a premise
about constants (`WithinReach`, `PromptSend`, `AwaitsCalls`); each is explained, and the
instance of the run satisfies it unless said otherwise.

**ReceptionWindow_proofs** — `PlainDeliversAtMostOnce`, `PlainRecordsAccepted`: for
the variant without rollover (the premise `Plain`), every window size and every
network. In the inductive invariant `IInv`, `Recorded` says that what was delivered is
`max`, is behind the window, or has its bit set; `DeliveredAtMostOnce` alone does not
say why a copy will be rejected.
`DeliversAtMostOnce`, `AcceptsNewest`, `FreshIsLostOnlyByFullShift` and `RecordsAccepted`
are about all three variants. Once counters return to 0 their values no longer tell which
message is newer, so the invariant `Ordered` speaks of the order of sending: the k-th message
has the counter at `Place` k (`Placed`), and bits stand for messages that many before
the newest delivered one (`Noted`). `Distance` shows that `calculateDiff` computes
distances in that order, or refuses. It can do so only `WithinReach`: less
than a whole range of counters is sent, copies of a session with rollover are not
overtaken by half a range of messages, copies without encryption not by more than a
window, and the sender of an unencrypted session has not come to the end of its counters
(behind it the source accepts copies, section 3). In 32 bits this is about
four billion messages of a session; TLC's instance, with 12 messages for 15 counters, sends
one more than `WithinReach` allows, and the properties hold there too.

**MessageExchange_proofs** — `AcknowledgedIsReceived` and `OnlyUnansweredIsLost`, for every
script, limit and network. `AckInv` follows an acknowledgement from the message that was
received over the timer, the packet or the answer that carries it to the promise of the
sender. `ConvInv` says what both peers know of the conversation: messages are sent in turn
(`InTurn`), so whoever sends one has received the earlier ones of its peer and waits for
no older acknowledgement (`Waiting`); what was received and not queued (`Queued`) therefore
lacked the acknowledgement that was waited for.
`TypeCorrect`, `FailureIsLast` and `AckedIsSilent` have the premise `PromptSend`. Without it
they would be false: `#retransmissionCounter` is shared by the messages of an exchange, and a
late `channel.send` of one resets what the next has counted (section 3). With it,
`PromptInv` ties the pending send, the one running timer and the counter of a peer to the
same message.

**Transaction_proofs** — `TypeCorrect`; `NoCyclicWait`: a new edge to `B` closes no
cycle if some set closed under waiting holds `B` and not the waiter (lemma
`WaitClosesNoCycle`), and every other step removes edges; `LocksAreHeld`,
`UpdatesAreKept`, `CommitsAreAtomic` from `LockInv`, which adds to the properties that
participants are resources, that `begin()` waits for the locks of everything the
transaction has, that nothing takes part before the transaction is exclusive, and that
the phase of a commit agrees with the status. It is proved for one transaction at a time:
lemmas `StepKeeps` (its own step) and `OthersKeepTheirs` (with `StepFrame`: a step of
another one neither touches it nor takes its locks).
`LocksAreReleased` has the premise `AwaitsCalls`: a lock granted to a `begin()` that nobody
awaited, after its transaction ended, is left behind (section 3). Its invariant `Ending`
relates stage, status and pending call of a transaction, so that every way to its end
but the limit of chained commits leads through the release of its locks.

**BrokerAggregation_proofs** — `AggregationLosesNothingElse`, `WindowsFollow`, for values of
either sign. The first is an equation, so every action has to move each area from one of
its terms to another: the invariant adds that all of them are integers, that nothing counts
as reported during a recalculation when none runs (`NothingDuring`), and that none runs when
the next timer fires (`TimersMet`, from the assumption in `Tick`).

**ServerSubscription_proofs** — `TypeCorrect`, `NothingForgotten`, `OrderKept`. The
invariant `IInv` adds `Queued` (what is outstanding is the newest value, and so is what
is being sent unless something newer is outstanding) and `Quiet` (nothing is being sent
unless an update runs, and nothing was reported before the initial report). All actions that
move the queues are handled by `MoveInv`; `ArrivesOrNot` is the argument that a report
which arrives after a newer change leaves that change outstanding. `OrderKept` has
`OrderInv`: the queue is ascending and ends before the next event.

**Commissioning_proofs** — for any number of indices, certificates, failsafes and faults.
The common invariant `Base` has four parts, each inductive with those before it: `Types`
(theorem `TypeCorrect`); `Writers`, who waits for which write of the fabric table;
`Contexts`, what is known of a failsafe context while a command or a CommissioningComplete
that began under it goes on; `Stored`, that a committed fabric is in the table and in every
state the storage may be in after a crash, write by write of those under way. On it rest
`CommittedIsNeverLost` (from `Stored`); `RemovedStaysOut` (`Removals`: the opposite of
`Stored`, for removed fabrics); `PendingIsGuarded` (`Pending`: the failsafe of a pending fabric
is armed, or held by the completion that will commit it); `CommittedNocStays` (`Nocs`: where a
committed fabric has another certificate, an update is not over); `FailsafeIsWatched`, which
is inductive on `Base`; `CommissionedIsRight` (`Agrees`: who is wrong about being commissioned
has a reactor, a listener or a rollback to come); `ResetErasesNothingBefore`
(`Erasures`). The actions are grouped by what they do to a context or to the table (`Arms`,
`Adds`, `RollsOrCloses`, `Restarts`), and each invariant is proved over these groups.

**DiskStorage_proofs** — `TypeCorrect`; `FilesAreAStore`: every step is a step of
`KeyValueStore` under the mapping, or changes nothing there (lemma `NextStore`);
`RemovalsAreFinal`; `FailuresHaveCauses`. The invariant has two parts. `RowInv` says what rows of
writers and calls know of each other: who is in a row is a set that still writes that file
(`InRow`), rows are in the order of the calls (`InOrder`), a removal that waits has
something to wait for (`WaitsOrFailed`). `FinalInv` has the argument why a removal is
final: while it waits, the writes older than it are counted down by its rounds
(`CountedDown`); when it removes, none of them is left (`NoneOlder`); so what is in a file
afterwards is younger (`Gone`). `FailuresHaveCauses` adds, for as long as nothing was
refused: a `clearAll()` waits for all files, so it never finishes a round before a
removal that was called earlier (`NotOvertaken`); a write that has lost its temporary file
lost it to a `clearAll()` which gave up waiting, or which was called before every write
and every removal that will fail with it (`Blamed`).

**Sessions_proofs** — `TableIsRight`, `LimitIsKept`, `EndIsComplete`,
`ChannelsEndWithSessions`. The invariants are stated of a network `n`, because a step may
pass through several, and `Less` says how one follows from the other: exchanges further on
their way, a table with fewer entries. `NetInv` has, besides types and the agreement of table
and exchanges: `SweepsAgree`, a sweep is at an exchange of its own session, and an index that
waits for it is that of a closed one; `Places`, places in the map are apart; `InOrder`,
the argument why the loop over the live map misses nothing: what the closer has not met is
late or has a place behind the one it is at; `Ended`, that a session which was swept has left
the list or is to end later, without which an end would leave its exchanges. `MaySweep` is what
lets a sweep begin, go on or end (lemma `SweepKeeps`). `Limited` is the limit, kept by the
eviction of the oldest (which exists: `FirstIsFirst`). `Fresh` adds that the exchanges still
to be made, behind a session that has to end first, have numbers of their own.
`Live` is the invariant of the channels, with the set `Ends` of the sessions whose `destroy()`
has yet to close them: each row is of one peer, and no session is in it twice (else
`removeChannel()`, which takes the first, might leave one).

Only model-checked: everything under fairness (`SendSettles`, `ClosedAtLast`,
`EveryTransactionEnds`, `ChangesReported`, `KeepsReporting`, `EveryCallReturns`,
`DelayedEnds`), which is out of the prover's reach, and the type of the broker's published
average, a fold over the endpoints.

## 5. Not modelled, and the plan

Left out for good: codecs, cryptography, certificates, the data model and its
generators, discovery, the shell, tests and measurement scripts. They are functions of
their input or I/O, and they are by far the most of the repository: generated
declarations of clusters and of the data model alone are more than half of its lines.

In the modelled parts: unreliable sends, `disableMrpLogic`, forced close and the
timed-interaction timer of an exchange; `updateSubscription()` after a change of
structure, the event history and version filters of the initial report, chunks;
`PersistedMessageCounter`, which no session uses; insecure and group sessions, the
allocation of session ids, resumption records and the channels of PASE sessions;
UpdateFabricLabel, the network state that a rollback restores, and AddNOC's answer when
the fabric is in the state of the cluster already; `close()` and `clear()` of the storage,
and what a loss of power does to a rename.

In this order:

1. `SubscriptionClient`, composed with `ServerSubscription`: the listener table and the
   timeout (`SubscriptionClient.ts:96`), against an abstract subscription (the client's
   values follow the publisher's) as a refinement; then `updateSubscription()`.
2. `MessageExchange` shown to implement an abstract reliable send; its type and limit of
   transmissions without the premise `PromptSend`, for conversations of two messages.
3. `BrokerPairing`: `pairNode` and `connectNode` with the commissioning they do not await,
   composed with `BrokerAggregation`; `PairedNode`: connection states and timers.
4. `DatasourceCommit`: versions and persistence of a value as a participant of
   `Transaction`, on `KeyValueStore`.
5. `TaskQueues`: `Mutex`, `PromiseQueue`, `DataReadQueue`, each against an abstract queue.
6. Insecure sessions and session ids in `Sessions`; `BtpSession`.

## 6. Running

    tlc -workers 2 -config tx_two.cfg MCTransaction
    tlc -workers 2 -config storage_files.cfg DiskStorage
    tlapm Transaction_proofs.tla

`commissioning_*.cfg` go with `Commissioning`, `storage_files.cfg` with `DiskStorage`,
`sessions.cfg` with `Sessions`; every other `.cfg` with the MC module of its prefix. The
longest runs are `commissioning_failsafe`, with two and a half minutes, and `tx_two`,
`exchange_liveness` and `subscription_reports`, with about two.
