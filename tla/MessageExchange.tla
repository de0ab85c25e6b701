-------------------------- MODULE MessageExchange --------------------------
(***************************************************************************)
(* One exchange of the Message Reliability Protocol between an initiator   *)
(* and a responder, both running protocol/src/protocol/MessageExchange.ts, *)
(* over a network that loses, duplicates and reorders packets.             *)
(*                                                                         *)
(* The conversation is the sequence Script: Script[n] is the peer that     *)
(* sends message n.  A peer sends message n after it has read message n-1  *)
(* (or, if it sent n-1 itself, after that send returned), the way the      *)
(* interaction and secure channel messengers use an exchange.  Messages    *)
(* are named by their number; a retransmission is the same message again.  *)
(* ExchangeManager.onMessage decides duplicate or not when a copy arrives. *)
(*                                                                         *)
(* Time is abstracted: a running timer may fire at any moment.             *)
(***************************************************************************)
EXTENDS Naturals, Sequences, FiniteSets

CONSTANTS
    Script,             \* who sends message 1, 2, ...
    MaxTransmissions,   \* MRP_MAX_TRANSMISSIONS (5)
    PromptSend,         \* channel.send completes before any answer arrives
    SendMayFail,        \* the first transmission of a message may be refused
    Evictable           \* peers whose manager may close the exchange early

Peers == {"initiator", "responder"}
Other(p) == CHOOSE q \in Peers : q # p
Messages == 1 .. Len(Script)
Sender(n) == Script[n]
Receiver(n) == Other(Script[n])
None == 0               \* undefined, where a message is expected

ASSUME ExchangeAssumption ==
    /\ Script \in Seq(Peers) /\ Script # <<>> /\ Script[1] = "initiator"
    /\ MaxTransmissions \in Nat \ {0}
    /\ PromptSend \in BOOLEAN /\ SendMayFail \in BOOLEAN
    /\ Evictable \subseteq Peers

Data(n) == [kind |-> "data", msg |-> n]
Ack(n) == [kind |-> "ack", msg |-> n]       \* a standalone acknowledgement

VARIABLES
    net,            \* packets in flight
    seen,           \* messages recorded by the receiver's duplicate detection
    exch,           \* state of each peer's exchange object
    receivedToAck,  \* #receivedMessageToAck
    ackTimer,       \* #receivedMessageAckTimer is running
    queue,          \* messages handed to #messagesQueue
    sentToAck,      \* #sentMessageToAck
    waiter,         \* message whose #sentMessageAckSuccess/Failure are set
    retries,        \* #retransmissionCounter
    timer,          \* message of the timer #retransmissionTimer refers to
    chain,          \* where the retransmission of each message stands
    ackOf,          \* ackedMessageId of each message
    call,           \* the send() call of each message
    result,         \* its ackPromise
    read,           \* messages taken from the queue by the application
    done,           \* the application has closed its exchange
    sends           \* transmissions of each message (history)

vars == <<net, seen, exch, receivedToAck, ackTimer, queue, sentToAck, waiter,
          retries, timer, chain, ackOf, call, result, read, done, sends>>

receiving == <<seen, receivedToAck, ackTimer, queue>>
sending == <<sentToAck, waiter, retries, timer, chain, ackOf, call, result, sends>>
application == <<read, done>>

-----------------------------------------------------------------------------
(* Helpers: the parts several handlers share. *)

\* Faulty: the timer is left running.
NotStopped(p) == chain

\* #retransmissionTimer?.stop(): stops the timer it refers to, if running.
Stopped(p) ==
    IF timer[p] # None /\ chain[timer[p]] \in {"running", "final"}
    THEN [chain EXCEPT ![timer[p]] = "stopped"]
    ELSE chain

\* #close(): the exchange leaves the manager; an unfinished send stays pending.
CloseNow(p) == exch' = [exch EXCEPT ![p] = "closed"] /\ chain' = Stopped(p)

\* The packet is consumed, or a copy of it stays in the network.
Take(packet, added) ==
    \E kept \in {net, net \ {packet}} : net' = kept \cup added

AcksPending(p) == IF receivedToAck[p] = None THEN {} ELSE {Ack(receivedToAck[p])}

\* Faulty: only the timer is stopped.
KeepReceivedToAck(p) ==
    /\ receivedToAck' = receivedToAck
    /\ ackTimer' = [ackTimer EXCEPT ![p] = FALSE]

ClearReceivedToAck(p) ==
    /\ receivedToAck' = [receivedToAck EXCEPT ![p] = None]
    /\ ackTimer' = [ackTimer EXCEPT ![p] = FALSE]

\* The other side has received the message that waited for an acknowledgement.
Acknowledged(p) ==
    /\ retries' = [retries EXCEPT ![p] = 0]
    /\ result' = [n \in Messages |-> IF n = waiter[p] THEN "ok" ELSE result[n]]
    /\ waiter' = [waiter EXCEPT ![p] = None]
    /\ sentToAck' = [sentToAck EXCEPT ![p] = None]

Unaffected(n) == UNCHANGED <<retries, result, waiter, sentToAck, chain>>

-----------------------------------------------------------------------------
(* The application. *)

\* Everything p sent so far was acknowledged and the send() calls returned.
SendsReturned(p) ==
    \A m \in Messages : Sender(m) = p /\ call[m] # "no" =>
                            call[m] = "awaiting" /\ result[m] = "ok"

SendFailed(p) ==
    \E m \in Messages : Sender(m) = p /\ \/ call[m] = "threw"
                                         \/ call[m] = "awaiting" /\ result[m] = "failed"

\* send() of a reliable message, up to the completion of its first channel.send
\* if that is prompt.  A message to acknowledge travels along.
Send(n) ==
    LET p == Sender(n) IN
    /\ call[n] = "no" /\ exch[p] = "open" /\ ~done[p]
    /\ n > 1 => n - 1 \in read \/ (Sender(n - 1) = p /\ call[n - 1] # "no")
    /\ SendsReturned(p)
    /\ sentToAck[p] = None
    /\ ackOf' = [ackOf EXCEPT ![n] = receivedToAck[p]]
    /\ ClearReceivedToAck(p)
    /\ sentToAck' = [sentToAck EXCEPT ![p] = n]
    /\ waiter' = [waiter EXCEPT ![p] = n]
    /\ timer' = [timer EXCEPT ![p] = n]
    /\ net' = net \cup {Data(n)}
    /\ sends' = [sends EXCEPT ![n] = 1]
    /\ IF PromptSend
       THEN /\ call' = [call EXCEPT ![n] = "awaiting"]
            /\ retries' = [retries EXCEPT ![p] = 0]
            /\ chain' = [chain EXCEPT ![n] = "running"]
       ELSE /\ call' = [call EXCEPT ![n] = "sending"]
            /\ UNCHANGED <<retries, chain>>
    /\ UNCHANGED <<seen, queue, exch, result, application>>

\* channel.send of the first transmission completes: the timer is started,
\* whatever arrived in the meantime.
FirstSendDone(n) ==
    /\ call[n] = "sending"
    /\ call' = [call EXCEPT ![n] = "awaiting"]
    /\ retries' = [retries EXCEPT ![Sender(n)] = 0]
    /\ chain' = [chain EXCEPT ![timer[Sender(n)]] = "running"]
    /\ UNCHANGED <<net, receiving, exch, sentToAck, waiter, timer, ackOf, result,
                   application, sends>>

\* channel.send rejects and send() throws; #sentMessageToAck stays set.
FirstSendFails(n) ==
    /\ SendMayFail /\ call[n] = "sending"
    /\ call' = [call EXCEPT ![n] = "threw"]
    /\ UNCHANGED <<net, receiving, exch, sentToAck, waiter, retries, timer, chain,
                   ackOf, result, application, sends>>

\* nextMessage() returns the oldest message of the queue.
Read(n) ==
    LET p == Receiver(n) IN
    /\ exch[p] \in {"open", "closing"} /\ ~done[p]
    /\ n \in queue \ read
    /\ \A m \in queue \ read : Receiver(m) = p => n <= m
    /\ SendsReturned(p)
    /\ read' = read \cup {n}
    /\ UNCHANGED <<net, receiving, exch, sending, done>>

\* close() when it is neither forced nor repeated.
CloseExchange(p) ==
    IF receivedToAck[p] # None
    THEN /\ net' = net \cup AcksPending(p)
         /\ ClearReceivedToAck(p)
         /\ exch' = [exch EXCEPT ![p] = "closing"]
         /\ UNCHANGED chain
    ELSE /\ IF sentToAck[p] = None
            THEN CloseNow(p)
            ELSE exch' = [exch EXCEPT ![p] = "closing"] /\ UNCHANGED chain
         /\ UNCHANGED <<net, receivedToAck, ackTimer>>

\* p has nothing left to send or to read.
Finished(p) ==
    \A n \in Messages : IF Sender(n) = p THEN call[n] # "no" ELSE n \in read

\* The application closes its exchange: at the end of the conversation, after a
\* failed send, or when the message it waits for did not come in time.
AppClose(p) ==
    /\ ~done[p] /\ exch[p] # "none"
    /\ SendFailed(p) \/ SendsReturned(p)
    /\ \/ Finished(p) \/ SendFailed(p)
       \/ \A n \in queue : Receiver(n) = p => n \in read
    /\ done' = [done EXCEPT ![p] = TRUE]
    /\ IF exch[p] = "open"
       THEN CloseExchange(p)
       ELSE UNCHANGED <<net, receivedToAck, ackTimer, exch, chain>>
    /\ UNCHANGED <<seen, queue, sentToAck, waiter, retries, timer, ackOf, call,
                   result, sends, read>>

-----------------------------------------------------------------------------
(* The network and the message handlers. *)

Lose(packet) ==
    /\ packet \in net
    /\ net' = net \ {packet}
    /\ UNCHANGED <<receiving, exch, sending, application>>

\* A copy of a message seen before, or any message after the exchange is gone,
\* is acknowledged without being looked at.
ReceiveUnexpected(n) ==
    /\ Data(n) \in net
    /\ n \in seen \/ exch[Receiver(n)] = "closed"
    /\ seen' = seen \cup {n}
    /\ Take(Data(n), {Ack(n)})
    /\ UNCHANGED <<exch, receivedToAck, ackTimer, queue, sending, application>>

IsNew(n) == Data(n) \in net /\ n \notin seen /\ exch[Receiver(n)] # "closed"

\* A message came that does not acknowledge the one p waits for: the handler
\* throws and the message is dropped.
ReceiveWithoutAck(n) ==
    LET p == Receiver(n) IN
    /\ IsNew(n)
    /\ sentToAck[p] # None /\ ackOf[n] # sentToAck[p]
    /\ seen' = seen \cup {n}
    /\ Take(Data(n), {})
    /\ UNCHANGED <<exch, receivedToAck, ackTimer, queue, sending, application>>

\* onMessageReceived of a new message that requires an acknowledgement.  If one
\* is already outstanding, that one is acknowledged and this message dropped.
ReceiveNew(n) ==
    LET p == Receiver(n) IN
    /\ IsNew(n)
    /\ sentToAck[p] # None => ackOf[n] = sentToAck[p]
    /\ IF sentToAck[p] # None
       THEN Acknowledged(p) /\ chain' = Stopped(p)
       ELSE Unaffected(n)
    /\ seen' = seen \cup {n}
    /\ exch' = [exch EXCEPT ![p] = IF @ = "none" THEN "open" ELSE @]
    /\ IF receivedToAck[p] # None
       THEN /\ Take(Data(n), AcksPending(p))
            /\ ackTimer' = [ackTimer EXCEPT ![p] = FALSE]
            /\ UNCHANGED <<receivedToAck, queue>>
       ELSE /\ Take(Data(n), {})
            /\ receivedToAck' = [receivedToAck EXCEPT ![p] = n]
            /\ ackTimer' = [ackTimer EXCEPT ![p] = TRUE]
            /\ queue' = queue \cup {n}
    /\ UNCHANGED <<timer, ackOf, call, sends, application>>

\* Faulty: any acknowledgement will do.
SomethingAwaited(n) == sentToAck[Sender(n)] # None

IsAwaited(n) == sentToAck[Sender(n)] = n

\* onMessageReceived of a standalone acknowledgement that is waited for; any
\* other one is ignored, which Lose covers.
ReceiveAck(n) ==
    LET p == Sender(n) IN
    /\ Ack(n) \in net /\ IsAwaited(n) /\ exch[p] # "closed"
    /\ Take(Ack(n), {})
    /\ Acknowledged(p)
    /\ chain' = Stopped(p)
    /\ exch' = [exch EXCEPT ![p] = IF @ = "closing" THEN "closed" ELSE @]
    /\ UNCHANGED <<receiving, timer, ackOf, call, sends, application>>

-----------------------------------------------------------------------------
(* The timers. *)

\* #receivedMessageAckTimer
AckTimeout(p) ==
    /\ ackTimer[p]
    /\ net' = net \cup AcksPending(p)
    /\ ClearReceivedToAck(p)
    /\ UNCHANGED <<seen, queue, exch, sending, application>>

RetransmissionFires(n) == chain[n] \in {"running", "final"}

\* Faulty: one transmission too few, or no limit at all.
EarlyLimit(p) == retries[p] + 2 >= MaxTransmissions
NoLimit(p) == FALSE

LimitHit(p) == retries[p] + 1 >= MaxTransmissions

\* #retransmitMessage below the limit: transmit again.
Retransmit(n) ==
    LET p == Sender(n) IN
    /\ RetransmissionFires(n) /\ ~LimitHit(p)
    /\ retries' = [retries EXCEPT ![p] = @ + 1]
    /\ net' = net \cup {Data(n)}
    /\ sends' = [sends EXCEPT ![n] = @ + 1]
    /\ IF PromptSend
       THEN chain' = [chain EXCEPT ![n] = "running"] /\ timer' = [timer EXCEPT ![p] = n]
       ELSE chain' = [chain EXCEPT ![n] = "sending"] /\ UNCHANGED timer
    /\ UNCHANGED <<receiving, exch, sentToAck, waiter, ackOf, call, result, application>>

\* #initializeResubmission, after channel.send completed or failed.
ResendDone(n) ==
    /\ chain[n] = "sending"
    /\ chain' = [chain EXCEPT ![n] = "running"]
    /\ timer' = [timer EXCEPT ![Sender(n)] = n]
    /\ UNCHANGED <<net, receiving, exch, sentToAck, waiter, retries, ackOf, call,
                   result, sends, application>>

\* All transmissions are done: wait for the peer's processing and retries.
FinalWait(n) ==
    LET p == Sender(n) IN
    /\ chain[n] = "running" /\ LimitHit(p)
    /\ chain' = [chain EXCEPT ![n] = "final"]
    /\ timer' = [timer EXCEPT ![p] = n]
    /\ UNCHANGED <<net, receiving, exch, sentToAck, waiter, retries, ackOf, call,
                   result, sends, application>>

\* Faulty: the promise of the pending send is forgotten.
RejectNothing(p) == UNCHANGED <<receivedToAck, result, waiter>>

RejectPending(p) ==
    IF sentToAck[p] # None /\ waiter[p] # None
    THEN /\ receivedToAck' = [receivedToAck EXCEPT ![p] = None]
         /\ result' = [result EXCEPT ![waiter[p]] = "failed"]
         /\ waiter' = [waiter EXCEPT ![p] = None]
    ELSE UNCHANGED <<receivedToAck, result, waiter>>

\* The limit is reached (at once if the final wait would not be positive): the
\* pending send fails, and an exchange that is closing is closed.
LimitReached(n) ==
    LET p == Sender(n) IN
    /\ RetransmissionFires(n) /\ LimitHit(p)
    /\ retries' = [retries EXCEPT ![p] = @ + 1]
    /\ RejectPending(p)
    /\ exch' = [exch EXCEPT ![p] = IF @ = "closing" THEN "closed" ELSE @]
    /\ chain' = [m \in Messages |->
                    IF m = n \/ (exch[p] = "closing" /\ m = timer[p])
                       THEN "stopped" ELSE chain[m]]
    /\ UNCHANGED <<net, seen, ackTimer, queue, sentToAck, timer, ackOf, call, sends,
                   application>>

\* Faulty: the timer only runs while a send is outstanding.
CloseTimeoutOfSend(p) ==
    /\ exch[p] = "closing" /\ sentToAck[p] # None
    /\ CloseNow(p)
    /\ UNCHANGED <<net, receiving, sentToAck, waiter, retries, timer, ackOf, call,
                   result, sends, application>>

\* #closeTimer
CloseTimeout(p) ==
    /\ exch[p] = "closing"
    /\ CloseNow(p)
    /\ UNCHANGED <<net, receiving, sentToAck, waiter, retries, timer, ackOf, call,
                   result, sends, application>>

\* ExchangeManager closes the oldest of too many exchanges: close() arrives while
\* the application may be waiting in send().
Evict(p) ==
    /\ p \in Evictable /\ exch[p] = "open"
    /\ CloseExchange(p)
    /\ UNCHANGED <<seen, queue, sentToAck, waiter, retries, timer, ackOf, call,
                   result, sends, application>>

-----------------------------------------------------------------------------
Init ==
    /\ net = {} /\ seen = {} /\ queue = {} /\ read = {}
    /\ exch = [p \in Peers |-> IF p = "initiator" THEN "open" ELSE "none"]
    /\ receivedToAck = [p \in Peers |-> None]
    /\ ackTimer = [p \in Peers |-> FALSE]
    /\ sentToAck = [p \in Peers |-> None]
    /\ waiter = [p \in Peers |-> None]
    /\ retries = [p \in Peers |-> 0]
    /\ timer = [p \in Peers |-> None]
    /\ chain = [n \in Messages |-> "unstarted"]
    /\ ackOf = [n \in Messages |-> None]
    /\ call = [n \in Messages |-> "no"]
    /\ result = [n \in Messages |-> "pending"]
    /\ done = [p \in Peers |-> FALSE]
    /\ sends = [n \in Messages |-> 0]

Timers(n) == Retransmit(n) \/ ResendDone(n) \/ FinalWait(n) \/ LimitReached(n)

Network == \/ \E packet \in net : Lose(packet)
           \/ \E n \in Messages : \/ ReceiveUnexpected(n) \/ ReceiveWithoutAck(n)
                                  \/ ReceiveNew(n) \/ ReceiveAck(n)

Next ==
    \/ \E n \in Messages : Send(n) \/ FirstSendDone(n) \/ FirstSendFails(n) \/ Read(n)
    \/ \E n \in Messages : Timers(n)
    \/ \E p \in Peers : AckTimeout(p) \/ CloseTimeout(p) \/ AppClose(p) \/ Evict(p)
    \/ Network

Spec == Init /\ [][Next]_vars

\* Timers fire, promises settle and the application runs; the network owes
\* nothing.
Fairness ==
    /\ \A n \in Messages : WF_vars(FirstSendDone(n)) /\ WF_vars(Read(n)) /\ WF_vars(Timers(n))
    /\ \A p \in Peers : WF_vars(AckTimeout(p)) /\ WF_vars(CloseTimeout(p)) /\ WF_vars(AppClose(p))

FairSpec == Spec /\ Fairness

-----------------------------------------------------------------------------
(* Properties. *)

\* Types, and the bound on the shared retransmission counter.
TypeOK ==
    /\ net \subseteq {Data(n) : n \in Messages} \cup {Ack(n) : n \in Messages}
    /\ seen \subseteq Messages /\ queue \subseteq Messages /\ read \subseteq Messages
    /\ exch \in [Peers -> {"none", "open", "closing", "closed"}]
    /\ receivedToAck \in [Peers -> {None} \cup Messages]
    /\ ackTimer \in [Peers -> BOOLEAN]
    /\ sentToAck \in [Peers -> {None} \cup Messages]
    /\ waiter \in [Peers -> {None} \cup Messages]
    /\ retries \in [Peers -> 0 .. MaxTransmissions]
    /\ timer \in [Peers -> {None} \cup Messages]
    /\ chain \in [Messages -> {"unstarted", "running", "sending", "final", "stopped"}]
    /\ ackOf \in [Messages -> {None} \cup Messages]
    /\ call \in [Messages -> {"no", "sending", "awaiting", "threw"}]
    /\ result \in [Messages -> {"pending", "ok", "failed"}]
    /\ done \in [Peers -> BOOLEAN]
    /\ sends \in [Messages -> Nat]

\* What send() reports is true: a message reported as acknowledged arrived at
\* the peer (the acknowledgement handling of onMessageReceived).
AckedWasReceived == \A n \in Messages : result[n] = "ok" => n \in seen

\* A send fails only after its message was transmitted as often as the protocol
\* allows (#retransmitMessage, MessageExchange.ts:529).
FailedAfterAllTransmissions ==
    \A n \in Messages : result[n] = "failed" => sends[n] = MaxTransmissions

\* Acknowledged, then lost: a message whose send succeeded while the receiver
\* still listens was handed to the receiver, unless it does not carry the
\* acknowledgement the receiver waits for (MessageExchange.ts:322 drops those, and
\* their copies are acknowledged at line 308 as duplicates).
LostOnlyWithoutAck ==
    \A n \in Messages \ {1} :
        result[n] = "ok" /\ exch[Receiver(n)] = "open" /\ n \notin queue
        => ackOf[n] # n - 1

\* Once acknowledged, a message is not transmitted again by the exchange that
\* sent it (the ack handling stops #retransmissionTimer).
AckStopsRetransmission ==
    [][\A n \in Messages : result[n] = "ok" => sends'[n] = sends[n]]_vars

\* Every send() comes to an end: the peer acknowledges or the retransmission
\* limit rejects the promise (the comment at MessageExchange.ts:445).
SendSettles == \A n \in Messages : (call[n] = "awaiting") ~> (result[n] # "pending")

\* An exchange the application is done with leaves the manager.
ClosedAtLast == \A p \in Peers : done[p] ~> (exch[p] = "closed")
=============================================================================
