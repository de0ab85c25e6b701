----------------------- MODULE MessageExchange_proofs -----------------------
(***************************************************************************)
(* Proofs about one exchange of the Message Reliability Protocol, for      *)
(* every conversation, every number of transmissions and every network.    *)
(*                                                                         *)
(* AckInv is why an acknowledgement is true, ConvInv what both peers know  *)
(* of the conversation when a message arrives, PromptInv ties the one      *)
(* running retransmission timer of a peer to its pending send.             *)
(***************************************************************************)
EXTENDS MessageExchange, TLAPS

Sent(n) == call[n] # "no"
Active(n) == chain[n] \in {"running", "final"}

\* TypeOK, with retransmission counters that may have any value.
Typed ==
    /\ net \subseteq {Data(n) : n \in Messages} \cup {Ack(n) : n \in Messages}
    /\ seen \subseteq Messages /\ queue \subseteq Messages /\ read \subseteq Messages
    /\ exch \in [Peers -> {"none", "open", "closing", "closed"}]
    /\ receivedToAck \in [Peers -> {None} \cup Messages]
    /\ ackTimer \in [Peers -> BOOLEAN]
    /\ sentToAck \in [Peers -> {None} \cup Messages]
    /\ waiter \in [Peers -> {None} \cup Messages]
    /\ retries \in [Peers -> Nat]
    /\ timer \in [Peers -> {None} \cup Messages]
    /\ chain \in [Messages -> {"unstarted", "running", "sending", "final", "stopped"}]
    /\ ackOf \in [Messages -> {None} \cup Messages]
    /\ call \in [Messages -> {"no", "sending", "awaiting", "threw"}]
    /\ result \in [Messages -> {"pending", "ok", "failed"}]
    /\ done \in [Peers -> BOOLEAN]
    /\ sends \in [Messages -> Nat]

\* Whatever is acknowledged, by a packet, along with a message or by the promise
\* of a send, was received.
AckInv ==
    /\ queue \subseteq seen /\ read \subseteq queue
    /\ \A n \in Messages : Ack(n) \in net => n \in seen
    /\ \A p \in Peers : receivedToAck[p] # None => receivedToAck[p] \in seen
    /\ \A n \in Messages : ackOf[n] # None => ackOf[n] \in seen
    /\ \A p \in Peers : waiter[p] \in {None, sentToAck[p]}
    /\ AckedWasReceived

\* Whatever has to do with a message comes after its send().
SentFirst ==
    /\ \A n \in Messages : Data(n) \in net \/ n \in seen => Sent(n)
    /\ \A n \in Messages : chain[n] # "unstarted" \/ result[n] # "pending" => Sent(n)
    /\ \A p \in Peers : timer[p] # None => Sent(timer[p])
    /\ \A p \in Peers : waiter[p] # None => Sent(waiter[p]) /\ result[waiter[p]] = "pending"

\* The messages are sent in turn: who sends one has had the earlier ones of its own
\* acknowledged and has received the earlier ones of its peer.
InTurn ==
    \A n, m \in Messages : Sent(n) /\ m < n =>
        /\ Sent(m)
        /\ Sender(m) = Sender(n) => result[m] = "ok"
        /\ Receiver(m) = Sender(n) => m \in seen

\* What a peer waits for is the last message it sent, and what it has to acknowledge
\* is newer than all of those.
Waiting ==
    /\ \A p \in Peers : sentToAck[p] # None => Sent(sentToAck[p]) /\ Sender(sentToAck[p]) = p
    /\ \A p \in Peers : receivedToAck[p] # None => Receiver(receivedToAck[p]) = p
    /\ \A p \in Peers, n \in Messages : Sent(n) /\ Sender(n) = p =>
           /\ sentToAck[p] # None => n <= sentToAck[p]
           /\ receivedToAck[p] # None => n < receivedToAck[p]
    /\ \A n \in Messages : ackOf[n] # None => Receiver(ackOf[n]) = Sender(n)

\* A received message that carries the acknowledgement waited for is queued.
Queued ==
    \A n \in Messages \ {1} :
        n \in seen /\ exch[Receiver(n)] \in {"none", "open"} /\ n \notin queue
        => ackOf[n] # n - 1

ConvInv == SentFirst /\ InTurn /\ Waiting /\ Queued

\* With prompt sends, a peer has one send pending and one timer running, both for
\* the same message, and the retransmission counter counts its transmissions.
PromptInv ==
    /\ \A n \in Messages : chain[n] # "sending" /\ call[n] \in {"no", "awaiting"}
    /\ \A n \in Messages : Sent(n) /\ result[n] = "pending" => waiter[Sender(n)] = n
    /\ \A p \in Peers : waiter[p] # None => Sender(waiter[p]) = p /\ Sent(waiter[p])
    /\ \A n \in Messages : Active(n) =>
          /\ Sent(n) /\ waiter[Sender(n)] = n /\ timer[Sender(n)] = n
          /\ sends[n] = retries[Sender(n)] + 1 /\ retries[Sender(n)] < MaxTransmissions
    /\ \A n \in Messages : result[n] # "pending" => Sent(n) /\ ~Active(n)
    /\ FailedAfterAllTransmissions
    /\ retries \in [Peers -> 0 .. MaxTransmissions]

-----------------------------------------------------------------------------
(* Peers, messages and packets. *)

LEMMA PeerFacts ==
    /\ \A p \in Peers : Other(p) \in Peers /\ Other(p) # p /\ Other(Other(p)) = p
    /\ \A n \in Messages : Sender(n) \in Peers /\ Receiver(n) \in Peers
                           /\ Receiver(n) = Other(Sender(n))
    /\ \A n \in Messages : n \in Nat /\ n # None
  <1>1. Other("initiator") = "responder" /\ Other("responder") = "initiator"
    BY DEF Other, Peers
  <1>2. \A p \in Peers : Other(p) \in Peers /\ Other(p) # p /\ Other(Other(p)) = p
    BY <1>1 DEF Peers
  <1>3. \A n \in Messages : Sender(n) \in Peers
    BY ExchangeAssumption DEF Messages, Sender
  <1>4. \A n \in Messages : n \in Nat /\ n # None
    BY ExchangeAssumption DEF Messages, None
  <1>5. QED  BY <1>2, <1>3, <1>4 DEF Receiver, Sender

LEMMA PacketFacts ==
    /\ \A m, n : Data(m) = Data(n) <=> m = n
    /\ \A m, n : Ack(m) = Ack(n) <=> m = n
    /\ \A m, n : Data(m) # Ack(n)
  BY DEF Data, Ack

\* What consuming a packet leaves in the network.
LEMMA TakeAdds ==
    ASSUME NEW packet, NEW added, Take(packet, added)
    PROVE  net' \subseteq net \cup added
  BY DEF Take

\* Stopping a timer stops one chain and touches no other.
LEMMA StoppedFacts ==
    ASSUME Typed, NEW p \in Peers
    PROVE  /\ Stopped(p) \in [Messages -> {"unstarted", "running", "sending", "final", "stopped"}]
           /\ \A n \in Messages : Stopped(p)[n] \in {chain[n], "stopped"}
           /\ \A n \in Messages : timer[p] = n => Stopped(p)[n] \notin {"running", "final"}
  <1>1. chain \in [Messages -> {"unstarted", "running", "sending", "final", "stopped"}]
    BY DEF Typed
  <1>2. CASE timer[p] # None /\ chain[timer[p]] \in {"running", "final"}
    <2>1. Stopped(p) = [chain EXCEPT ![timer[p]] = "stopped"]
      BY <1>2 DEF Stopped
    <2>2. QED  BY <1>1, <2>1
  <1>3. CASE ~(timer[p] # None /\ chain[timer[p]] \in {"running", "final"})
    BY <1>1, <1>3, PeerFacts DEF Stopped
  <1>4. QED  BY <1>2, <1>3

-----------------------------------------------------------------------------
(* Types. *)

LEMMA InitTyped == Init => Typed
  BY PeerFacts DEF Init, Typed, Peers, None

LEMMA TypedStep == Typed /\ [Next]_vars => Typed'
  <1> SUFFICES ASSUME Typed, [Next]_vars PROVE Typed'
    OBVIOUS
  <1> USE PeerFacts
  <1> DEFINE Packets == {Data(n) : n \in Messages} \cup {Ack(n) : n \in Messages}
  <1>0. \A p \in Peers : AcksPending(p) \subseteq Packets
    BY DEF AcksPending, Typed, None
  <1>1. ASSUME NEW n \in Messages, Send(n) PROVE Typed'
    BY <1>1 DEF Typed, Send, ClearReceivedToAck, application
  <1>2. ASSUME NEW n \in Messages, FirstSendDone(n) PROVE Typed'
    BY <1>2 DEF Typed, FirstSendDone, receiving, application
  <1>3. ASSUME NEW n \in Messages, FirstSendFails(n) PROVE Typed'
    BY <1>3 DEF Typed, FirstSendFails, receiving, application
  <1>4. ASSUME NEW n \in Messages, Read(n) PROVE Typed'
    BY <1>4 DEF Typed, Read, receiving, sending
  <1>5. ASSUME NEW n \in Messages, Retransmit(n) PROVE Typed'
    BY <1>5 DEF Typed, Retransmit, receiving, application
  <1>6. ASSUME NEW n \in Messages, ResendDone(n) PROVE Typed'
    BY <1>6 DEF Typed, ResendDone, receiving, application
  <1>7. ASSUME NEW n \in Messages, FinalWait(n) PROVE Typed'
    BY <1>7 DEF Typed, FinalWait, receiving, application
  <1>8. ASSUME NEW n \in Messages, LimitReached(n) PROVE Typed'
    BY <1>8 DEF Typed, LimitReached, RejectPending, application
  <1>9. ASSUME NEW p \in Peers, AckTimeout(p) PROVE Typed'
    BY <1>9, <1>0 DEF Typed, AckTimeout, ClearReceivedToAck, sending, application
  <1>10. ASSUME NEW p \in Peers, CloseTimeout(p) PROVE Typed'
    BY <1>10, StoppedFacts DEF Typed, CloseTimeout, CloseNow, receiving, application
  <1>11. ASSUME NEW p \in Peers, CloseExchange(p),
                UNCHANGED <<seen, queue, sentToAck, waiter, retries, timer, ackOf, call,
                            result, sends, read>>,
                done' \in [Peers -> BOOLEAN]
         PROVE Typed'
    <2>1. /\ net' \subseteq Packets
          /\ receivedToAck' \in [Peers -> {None} \cup Messages]
          /\ ackTimer' \in [Peers -> BOOLEAN]
      BY <1>11, <1>0 DEF Typed, CloseExchange, ClearReceivedToAck
    <2>2. exch' \in [Peers -> {"none", "open", "closing", "closed"}]
      BY <1>11 DEF Typed, CloseExchange, CloseNow
    <2>3. chain' \in [Messages -> {"unstarted", "running", "sending", "final", "stopped"}]
      BY <1>11, StoppedFacts DEF Typed, CloseExchange, CloseNow
    <2>4. QED  BY <1>11, <2>1, <2>2, <2>3 DEF Typed
  <1>12. ASSUME NEW p \in Peers, AppClose(p) PROVE Typed'
    <2>1. done' \in [Peers -> BOOLEAN]
      BY <1>12 DEF AppClose, Typed
    <2>2. CASE exch[p] = "open"
      BY <1>11, <1>12, <2>1, <2>2 DEF AppClose
    <2>3. CASE exch[p] # "open"
      BY <1>12, <2>1, <2>3 DEF AppClose, Typed
    <2>4. QED  BY <2>2, <2>3
  <1>13. ASSUME NEW p \in Peers, Evict(p) PROVE Typed'
    BY <1>11, <1>13 DEF Evict, application, Typed
  <1>14. ASSUME NEW packet \in net, Lose(packet) PROVE Typed'
    BY <1>14 DEF Typed, Lose, receiving, sending, application
  <1>15. ASSUME NEW n \in Messages, ReceiveUnexpected(n) PROVE Typed'
    BY <1>15, TakeAdds DEF Typed, ReceiveUnexpected, sending, application
  <1>16. ASSUME NEW n \in Messages, ReceiveWithoutAck(n) PROVE Typed'
    BY <1>16, TakeAdds DEF Typed, ReceiveWithoutAck, sending, application
  <1>17. ASSUME NEW n \in Messages, ReceiveNew(n) PROVE Typed'
    <2> DEFINE p == Receiver(n)
    <2>1. net' \subseteq net \cup AcksPending(p)
      BY <1>17, TakeAdds DEF ReceiveNew
    <2>2. /\ retries' \in [Peers -> Nat]
          /\ result' \in [Messages -> {"pending", "ok", "failed"}]
          /\ waiter' \in [Peers -> {None} \cup Messages]
          /\ sentToAck' \in [Peers -> {None} \cup Messages]
          /\ chain' \in [Messages -> {"unstarted", "running", "sending", "final", "stopped"}]
      <3>1. p \in Peers
        OBVIOUS
      <3>2. CASE Acknowledged(p) /\ chain' = Stopped(p)
        BY <3>1, <3>2, StoppedFacts DEF Acknowledged, Typed
      <3>3. CASE Unaffected(n)
        BY <3>3 DEF Unaffected, Typed
      <3>4. QED  BY <1>17, <3>2, <3>3 DEF ReceiveNew
    <2>3. /\ receivedToAck' \in [Peers -> {None} \cup Messages]
          /\ ackTimer' \in [Peers -> BOOLEAN]
          /\ queue' \subseteq Messages /\ seen' \subseteq Messages
          /\ exch' \in [Peers -> {"none", "open", "closing", "closed"}]
      <3>1. CASE receivedToAck[p] # None
        BY <1>17, <3>1 DEF ReceiveNew, Typed
      <3>2. CASE receivedToAck[p] = None
        <4>1. /\ receivedToAck' = [receivedToAck EXCEPT ![p] = n]
              /\ ackTimer' = [ackTimer EXCEPT ![p] = TRUE]
              /\ queue' = queue \cup {n} /\ seen' = seen \cup {n}
              /\ exch' = [exch EXCEPT ![p] = IF @ = "none" THEN "open" ELSE @]
          BY <1>17, <3>2 DEF ReceiveNew
        <4>2. QED  BY <4>1 DEF Typed
      <3>3. QED  BY <3>1, <3>2
    <2>4. QED  BY <1>17, <1>0, <2>1, <2>2, <2>3 DEF ReceiveNew, Typed, application
  <1>18. ASSUME NEW n \in Messages, ReceiveAck(n) PROVE Typed'
    <2> DEFINE p == Sender(n)
    <2>1. net' \subseteq net
      BY <1>18, TakeAdds DEF ReceiveAck
    <2>2. chain' \in [Messages -> {"unstarted", "running", "sending", "final", "stopped"}]
      BY <1>18, StoppedFacts DEF ReceiveAck
    <2>3. /\ retries' \in [Peers -> Nat]
          /\ result' \in [Messages -> {"pending", "ok", "failed"}]
          /\ waiter' \in [Peers -> {None} \cup Messages]
          /\ sentToAck' \in [Peers -> {None} \cup Messages]
          /\ exch' \in [Peers -> {"none", "open", "closing", "closed"}]
      BY <1>18 DEF ReceiveAck, Acknowledged, Typed
    <2>4. QED  BY <1>18, <2>1, <2>2, <2>3 DEF ReceiveAck, Typed, receiving, application
  <1>19. CASE UNCHANGED vars
    BY <1>19 DEF Typed, vars
  <1>20. QED
    BY <1>1, <1>2, <1>3, <1>4, <1>5, <1>6, <1>7, <1>8, <1>9, <1>10, <1>12, <1>13, <1>14,
       <1>15, <1>16, <1>17, <1>18, <1>19 DEF Next, Timers, Network

LEMMA AlwaysTyped == Spec => []Typed
  BY InitTyped, TypedStep, PTL DEF Spec

-----------------------------------------------------------------------------
(* Acknowledgements are true. *)

LEMMA InitAckInv == Init => AckInv
  BY PeerFacts DEF Init, AckInv, AckedWasReceived, None

\* A step that only moves timers and adds or loses data packets.
LEMMA AckFrame ==
    ASSUME AckInv, UNCHANGED <<seen, queue, read, receivedToAck, ackOf, waiter, sentToAck, result>>,
           \A n \in Messages : Ack(n) \in net' => Ack(n) \in net
    PROVE  AckInv'
  BY DEF AckInv, AckedWasReceived

\* The outstanding acknowledgement is sent, if there is one.
LEMMA AckSent ==
    ASSUME AckInv, Typed, NEW p \in Peers,
           net' \subseteq net \cup AcksPending(p),
           receivedToAck' \in {receivedToAck, [receivedToAck EXCEPT ![p] = None]},
           UNCHANGED <<seen, queue, read, ackOf, waiter, sentToAck, result>>
    PROVE  AckInv'
  <1>1. \A n \in Messages : Ack(n) \in net' => n \in seen
    BY PacketFacts DEF AckInv, Typed, AcksPending
  <1>2. \A q \in Peers : receivedToAck'[q] # None => receivedToAck'[q] \in seen
    BY DEF AckInv, Typed
  <1>3. QED  BY <1>1, <1>2 DEF AckInv, AckedWasReceived

\* The acknowledgement handling of a message or packet that acknowledges m.
LEMMA AckTaken ==
    ASSUME AckInv, Typed, NEW p \in Peers, Acknowledged(p), sentToAck[p] \in seen
    PROVE  /\ \A q \in Peers : waiter'[q] \in {None, sentToAck'[q]}
           /\ \A n \in Messages : result'[n] = "ok" => n \in seen
  <1>1. \A q \in Peers : waiter'[q] \in {None, sentToAck'[q]}
    BY DEF AckInv, Typed, Acknowledged
  <1>2. ASSUME NEW n \in Messages, result'[n] = "ok" PROVE n \in seen
    <2>1. CASE n = waiter[p]
      BY <2>1, PeerFacts DEF AckInv
    <2>2. CASE n # waiter[p]
      BY <1>2, <2>2 DEF AckInv, AckedWasReceived, Acknowledged
    <2>3. QED  BY <2>1, <2>2
  <1>3. QED  BY <1>1, <1>2

LEMMA AckInvStep == Typed /\ AckInv /\ [Next]_vars => AckInv'
  <1> SUFFICES ASSUME Typed, AckInv, [Next]_vars PROVE AckInv'
    OBVIOUS
  <1> USE PeerFacts, PacketFacts
  <1>1. ASSUME NEW n \in Messages, Send(n) PROVE AckInv'
    <2> DEFINE p == Sender(n)
    <2>1. /\ ackOf' = [ackOf EXCEPT ![n] = receivedToAck[p]]
          /\ receivedToAck' = [receivedToAck EXCEPT ![p] = None]
          /\ sentToAck' = [sentToAck EXCEPT ![p] = n]
          /\ waiter' = [waiter EXCEPT ![p] = n]
          /\ net' = net \cup {Data(n)}
          /\ UNCHANGED <<seen, queue, read, result>>
      BY <1>1 DEF Send, ClearReceivedToAck, application
    <2>2. \A m \in Messages : ackOf'[m] # None => ackOf'[m] \in seen
      BY <2>1 DEF AckInv, Typed
    <2>3. /\ \A q \in Peers : receivedToAck'[q] # None => receivedToAck'[q] \in seen
          /\ \A q \in Peers : waiter'[q] \in {None, sentToAck'[q]}
      BY <2>1 DEF AckInv, Typed
    <2>4. \A m \in Messages : Ack(m) \in net' => m \in seen
      BY <2>1 DEF AckInv
    <2>5. QED  BY <2>1, <2>2, <2>3, <2>4 DEF AckInv, AckedWasReceived
  <1>2. ASSUME NEW n \in Messages, FirstSendDone(n) \/ FirstSendFails(n) \/ Retransmit(n)
                                    \/ ResendDone(n) \/ FinalWait(n)
        PROVE  AckInv'
    BY <1>2, AckFrame DEF FirstSendDone, FirstSendFails, Retransmit, ResendDone, FinalWait,
                          receiving, application
  <1>3. ASSUME NEW n \in Messages, Read(n) PROVE AckInv'
    BY <1>3 DEF Read, AckInv, AckedWasReceived, receiving, sending
  <1>4. ASSUME NEW n \in Messages, LimitReached(n) PROVE AckInv'
    <2> DEFINE p == Sender(n)
    <2>1. CASE UNCHANGED <<receivedToAck, result, waiter>>
      BY <1>4, <2>1, AckFrame DEF LimitReached, application
    <2>2. CASE /\ receivedToAck' = [receivedToAck EXCEPT ![p] = None]
               /\ result' = [result EXCEPT ![waiter[p]] = "failed"]
               /\ waiter' = [waiter EXCEPT ![p] = None]
      <3>1. /\ \A q \in Peers : receivedToAck'[q] # None => receivedToAck'[q] \in seen
            /\ \A q \in Peers : waiter'[q] \in {None, sentToAck[q]}
            /\ \A m \in Messages : result'[m] = "ok" => result[m] = "ok"
        BY <2>2 DEF AckInv, Typed
      <3>2. QED  BY <1>4, <3>1 DEF LimitReached, AckInv, AckedWasReceived, application
    <2>3. QED  BY <1>4, <2>1, <2>2 DEF LimitReached, RejectPending
  <1>5. ASSUME NEW p \in Peers, AckTimeout(p) PROVE AckInv'
    BY <1>5, AckSent DEF AckTimeout, ClearReceivedToAck, sending, application
  <1>6. ASSUME NEW p \in Peers, CloseTimeout(p) PROVE AckInv'
    BY <1>6, AckFrame DEF CloseTimeout, receiving, application
  <1>7. ASSUME NEW p \in Peers, AppClose(p) \/ Evict(p) PROVE AckInv'
    <2>1. CASE CloseExchange(p)
      BY <1>7, <2>1, AckSent DEF AppClose, Evict, CloseExchange, ClearReceivedToAck, application
    <2>2. CASE UNCHANGED <<net, receivedToAck>>
      BY <1>7, <2>2, AckFrame DEF AppClose, Evict, application
    <2>3. QED  BY <1>7, <2>1, <2>2 DEF AppClose, Evict
  <1>8. ASSUME NEW packet \in net, Lose(packet) PROVE AckInv'
    BY <1>8, AckFrame DEF Lose, receiving, sending, application
  <1>9. ASSUME NEW n \in Messages, ReceiveUnexpected(n) \/ ReceiveWithoutAck(n) PROVE AckInv'
    <2>1. /\ seen' = seen \cup {n} /\ net' \subseteq net \cup {Ack(n)}
          /\ UNCHANGED <<queue, read, receivedToAck, ackOf, waiter, sentToAck, result>>
      BY <1>9, TakeAdds DEF ReceiveUnexpected, ReceiveWithoutAck, sending, application
    <2>2. QED  BY <2>1 DEF AckInv, AckedWasReceived
  <1>10. ASSUME NEW n \in Messages, ReceiveNew(n) PROVE AckInv'
    <2> DEFINE p == Receiver(n)
    <2>1. /\ \A q \in Peers : waiter'[q] \in {None, sentToAck'[q]}
          /\ \A m \in Messages : result'[m] = "ok" => m \in seen
      <3>1. CASE sentToAck[p] = None
        BY <1>10, <3>1 DEF ReceiveNew, Unaffected, AckInv, AckedWasReceived
      <3>2. CASE sentToAck[p] # None
        <4>1. Acknowledged(p) /\ sentToAck[p] \in seen
          BY <1>10, <3>2 DEF ReceiveNew, AckInv
        <4>2. QED  BY <4>1, AckTaken
      <3>3. QED  BY <3>1, <3>2
    <2>2. /\ seen' = seen \cup {n} /\ queue' \subseteq queue \cup {n} /\ queue \subseteq queue'
          /\ UNCHANGED <<read, ackOf>>
      BY <1>10 DEF ReceiveNew, application
    <2>3. \A q \in Peers : receivedToAck'[q] # None => receivedToAck'[q] \in seen'
      BY <1>10, <2>2 DEF ReceiveNew, AckInv, Typed
    <2>4. net' \subseteq net \cup AcksPending(p)
      BY <1>10, TakeAdds DEF ReceiveNew
    <2>5. \A m \in Messages : Ack(m) \in net' => m \in seen'
      BY <2>2, <2>4 DEF AcksPending, AckInv, Typed
    <2>6. QED  BY <2>1, <2>2, <2>3, <2>5 DEF AckInv, AckedWasReceived
  <1>11. ASSUME NEW n \in Messages, ReceiveAck(n) PROVE AckInv'
    <2>1. Acknowledged(Sender(n)) /\ sentToAck[Sender(n)] \in seen
      BY <1>11 DEF ReceiveAck, IsAwaited, AckInv
    <2>2. net' \subseteq net /\ UNCHANGED <<seen, queue, read, receivedToAck, ackOf>>
      BY <1>11, TakeAdds DEF ReceiveAck, receiving, application
    <2>3. QED  BY <2>1, <2>2, AckTaken DEF AckInv, AckedWasReceived
  <1>12. CASE UNCHANGED vars
    BY <1>12, AckFrame DEF vars
  <1>13. QED
    BY <1>1, <1>2, <1>3, <1>4, <1>5, <1>6, <1>7, <1>8, <1>9, <1>10, <1>11, <1>12
       DEF Next, Timers, Network

\* What send() reports is true: a message reported as acknowledged was received by
\* the peer, over any network and with sends that complete late or fail (the
\* acknowledgement handling of onMessageReceived).
THEOREM AcknowledgedIsReceived == Spec => []AckedWasReceived
  <1>1. AckInv => AckedWasReceived
    BY DEF AckInv
  <1>2. Spec => []AckInv
    BY InitAckInv, AckInvStep, AlwaysTyped, PTL DEF Spec
  <1>3. QED  BY <1>1, <1>2, PTL

-----------------------------------------------------------------------------
(* One timer for one pending send. *)

LEMMA InitPromptInv == Init => PromptInv
  BY PeerFacts, ExchangeAssumption
     DEF Init, PromptInv, Sent, Active, FailedAfterAllTransmissions, None

LEMMA PromptFrame ==
    ASSUME PromptInv, UNCHANGED <<chain, call, result, waiter, timer, sends, retries>>
    PROVE  PromptInv'
  BY DEF PromptInv, Sent, Active, FailedAfterAllTransmissions

\* Stopping the timer of p leaves nothing of p running.
LEMMA StoppedAll ==
    ASSUME PromptInv, Typed, NEW p \in Peers, NEW n \in Messages,
           Stopped(p)[n] \in {"running", "final"}
    PROVE  Active(n) /\ Sender(n) # p
  BY StoppedFacts DEF PromptInv, Active

LEMMA PromptStopped ==
    ASSUME PromptInv, Typed, NEW p \in Peers, chain' \in {chain, Stopped(p)},
           UNCHANGED <<call, result, waiter, timer, sends, retries>>
    PROVE  PromptInv'
  <1>1. \A n \in Messages : chain'[n] # "sending" /\ (Active(n)' => Active(n))
    BY StoppedFacts DEF PromptInv, Active
  <1>2. QED  BY <1>1 DEF PromptInv, Sent, FailedAfterAllTransmissions

\* The pending send of p is acknowledged and its timer stopped.
LEMMA PromptAcknowledged ==
    ASSUME PromptInv, AckInv, Typed, NEW p \in Peers, Acknowledged(p), chain' = Stopped(p),
           UNCHANGED <<timer, call, sends>>
    PROVE  PromptInv'
  <1> USE PeerFacts
  <1>1. \A n \in Messages : chain'[n] # "sending" /\ (Active(n)' => Active(n) /\ Sender(n) # p)
    BY StoppedFacts, StoppedAll DEF PromptInv, Active
  <1>2. ASSUME NEW n \in Messages PROVE result'[n] = IF n = waiter[p] THEN "ok" ELSE result[n]
    BY DEF Acknowledged
  <1>3. /\ waiter' = [waiter EXCEPT ![p] = None]
        /\ retries' = [retries EXCEPT ![p] = 0]
    BY DEF Acknowledged
  <1>4. ASSUME NEW n \in Messages, Sent(n)', result'[n] = "pending" PROVE waiter'[Sender(n)] = n
    BY <1>2, <1>3, <1>4 DEF PromptInv, Sent, Typed
  <1>5. ASSUME NEW n \in Messages, Active(n)'
        PROVE  /\ Sent(n)' /\ waiter'[Sender(n)] = n /\ timer'[Sender(n)] = n
               /\ sends'[n] = retries'[Sender(n)] + 1 /\ retries'[Sender(n)] < MaxTransmissions
               /\ result'[n] = "pending"
    <2>1. Active(n) /\ Sender(n) # p
      BY <1>1, <1>5
    <2>2. waiter[Sender(n)] = n /\ result[n] = "pending"
      BY <2>1 DEF PromptInv, Typed
    <2>3. waiter'[Sender(n)] = n /\ retries'[Sender(n)] = retries[Sender(n)]
      BY <2>1, <2>2, <1>3 DEF Typed
    <2>4. n # waiter[p]
      BY <2>1 DEF PromptInv
    <2>5. QED  BY <2>1, <2>2, <2>3, <2>4, <1>2 DEF PromptInv, Sent
  <1>6. ASSUME NEW n \in Messages, result'[n] # "pending" PROVE Sent(n)' /\ ~Active(n)'
    BY <1>1, <1>2, <1>5, <1>6 DEF PromptInv, Sent
  <1>7. \A q \in Peers : (waiter[q] # None => Sender(waiter[q]) = q /\ Sent(waiter[q]))'
    BY <1>3 DEF PromptInv, Sent, Typed
  <1>8. /\ \A n \in Messages : chain'[n] # "sending" /\ call'[n] \in {"no", "awaiting"}
        /\ retries' \in [Peers -> 0 .. MaxTransmissions]
    BY <1>1, <1>3, ExchangeAssumption DEF PromptInv
  <1>9. FailedAfterAllTransmissions'
    BY <1>2 DEF PromptInv, FailedAfterAllTransmissions
  <1>10. QED  BY <1>4, <1>5, <1>6, <1>7, <1>8, <1>9 DEF PromptInv

LEMMA PromptInvStep == PromptSend /\ Typed /\ AckInv /\ PromptInv /\ [Next]_vars => PromptInv'
  <1> SUFFICES ASSUME PromptSend, Typed, AckInv, PromptInv, [Next]_vars PROVE PromptInv'
    OBVIOUS
  <1> USE PeerFacts
  <1>1. ASSUME NEW n \in Messages, Send(n) PROVE PromptInv'
    <2> DEFINE p == Sender(n)
    <2>1. /\ waiter' = [waiter EXCEPT ![p] = n]
          /\ timer' = [timer EXCEPT ![p] = n]
          /\ sends' = [sends EXCEPT ![n] = 1]
          /\ call' = [call EXCEPT ![n] = "awaiting"]
          /\ retries' = [retries EXCEPT ![p] = 0]
          /\ chain' = [chain EXCEPT ![n] = "running"]
          /\ UNCHANGED result
          /\ call[n] = "no" /\ SendsReturned(p)
      BY <1>1 DEF Send
    <2>2. result[n] = "pending" /\ ~Active(n)
      BY <2>1 DEF PromptInv, Sent
    <2>3. ASSUME NEW m \in Messages, m # n, Sender(m) = p, Sent(m)
          PROVE  result[m] = "ok" /\ ~Active(m)
      BY <2>1, <2>3 DEF SendsReturned, Sent, PromptInv
    <2>4. ASSUME NEW m \in Messages, m # n
          PROVE  /\ Sent(m)' = Sent(m) /\ Active(m)' = Active(m) /\ sends'[m] = sends[m]
                 /\ Active(m) => Sender(m) # p
                 /\ Sent(m) /\ result[m] = "pending" => Sender(m) # p
      BY <2>1, <2>3, <2>4 DEF Sent, Active, PromptInv, Typed
    <2>5. ASSUME NEW q \in Peers, q # p
          PROVE  waiter'[q] = waiter[q] /\ timer'[q] = timer[q] /\ retries'[q] = retries[q]
      BY <2>1, <2>5 DEF Typed
    <2>6. /\ waiter'[p] = n /\ timer'[p] = n /\ retries'[p] = 0 /\ sends'[n] = 1
          /\ Sent(n)' /\ Active(n)' /\ 0 < MaxTransmissions
      BY <2>1, ExchangeAssumption DEF Typed, Sent, Active
    <2>7. \A m \in Messages : Active(m)' =>
            /\ Sent(m)' /\ waiter'[Sender(m)] = m /\ timer'[Sender(m)] = m
            /\ sends'[m] = retries'[Sender(m)] + 1 /\ retries'[Sender(m)] < MaxTransmissions
      BY <2>4, <2>5, <2>6 DEF PromptInv
    <2>8. /\ \A m \in Messages : Sent(m)' /\ result'[m] = "pending" => waiter'[Sender(m)] = m
          /\ \A m \in Messages : result'[m] # "pending" => Sent(m)' /\ ~Active(m)'
          /\ FailedAfterAllTransmissions'
      BY <2>1, <2>2, <2>4, <2>5, <2>6 DEF PromptInv, FailedAfterAllTransmissions
    <2>9. \A q \in Peers : (waiter[q] # None => Sender(waiter[q]) = q /\ Sent(waiter[q]))'
      BY <2>1, <2>5, <2>6 DEF PromptInv, Sent, Typed
    <2>10. /\ \A m \in Messages : chain'[m] # "sending" /\ call'[m] \in {"no", "awaiting"}
           /\ retries' \in [Peers -> 0 .. MaxTransmissions]
      BY <2>1, ExchangeAssumption DEF PromptInv, Typed
    <2>11. QED  BY <2>7, <2>8, <2>9, <2>10 DEF PromptInv
  <1>2. ASSUME NEW n \in Messages, FirstSendDone(n) \/ FirstSendFails(n) \/ ResendDone(n)
        PROVE  PromptInv'
    BY <1>2 DEF FirstSendDone, FirstSendFails, ResendDone, PromptInv
  <1>3. ASSUME NEW n \in Messages, Read(n) PROVE PromptInv'
    BY <1>3, PromptFrame DEF Read, sending
  <1>4. ASSUME NEW n \in Messages, Retransmit(n) PROVE PromptInv'
    <2> DEFINE p == Sender(n)
    <2>1. /\ retries' = [retries EXCEPT ![p] = @ + 1]
          /\ sends' = [sends EXCEPT ![n] = @ + 1]
          /\ chain' = [chain EXCEPT ![n] = "running"]
          /\ timer' = [timer EXCEPT ![p] = n]
          /\ UNCHANGED <<waiter, call, result>>
          /\ Active(n) /\ retries[p] + 1 < MaxTransmissions
      BY <1>4, ExchangeAssumption
         DEF Retransmit, RetransmissionFires, LimitHit, Active, application, Typed
    <2>2. result[n] = "pending"
      BY <2>1 DEF PromptInv, Typed
    <2>3. /\ \A m \in Messages : (Active(m)' <=> Active(m)) /\ (Sent(m)' <=> Sent(m))
          /\ \A m \in Messages : Active(m) /\ m # n => Sender(m) # p
      <3>1. waiter[p] = n
        BY <2>1 DEF PromptInv
      <3>2. \A m \in Messages : Active(m) /\ m # n => Sender(m) # p
        BY <3>1 DEF PromptInv
      <3>3. QED  BY <2>1, <3>2 DEF Active, Sent, Typed
    <2>8. /\ timer'[p] = n /\ retries'[p] = retries[p] + 1 /\ sends'[n] = sends[n] + 1
          /\ \A m \in Messages : m # n => sends'[m] = sends[m]
          /\ \A q \in Peers : q # p => timer'[q] = timer[q] /\ retries'[q] = retries[q]
      BY <2>1 DEF Typed
    <2>4. ASSUME NEW m \in Messages, Active(m)'
          PROVE  /\ Sent(m)' /\ waiter'[Sender(m)] = m /\ timer'[Sender(m)] = m
                 /\ sends'[m] = retries'[Sender(m)] + 1
                 /\ retries'[Sender(m)] < MaxTransmissions
      <3> USE <2>4
      <3>1. CASE m = n
        BY <2>1, <2>3, <2>8, <3>1 DEF PromptInv
      <3>2. CASE m # n
        BY <2>1, <2>3, <2>8, <3>2 DEF PromptInv, Sent, Active
      <3>3. QED  BY <3>1, <3>2
    <2>5. FailedAfterAllTransmissions'
      BY <2>1, <2>2 DEF PromptInv, FailedAfterAllTransmissions, Typed
    <2>6. /\ \A m \in Messages : chain'[m] # "sending"
          /\ retries' \in [Peers -> 0 .. MaxTransmissions]
      BY <2>1, ExchangeAssumption DEF PromptInv, Typed
    <2>7. QED  BY <2>1, <2>3, <2>4, <2>5, <2>6 DEF PromptInv, Sent, Active
  <1>5. ASSUME NEW n \in Messages, FinalWait(n) PROVE PromptInv'
    <2> DEFINE p == Sender(n)
    <2>1. /\ chain[n] = "running" /\ chain' = [chain EXCEPT ![n] = "final"]
          /\ timer' = [timer EXCEPT ![p] = n]
          /\ UNCHANGED <<retries, sends, waiter, call, result>>
      BY <1>5 DEF FinalWait
    <2>2. Active(n) /\ timer[p] = n
      BY <2>1 DEF Active, PromptInv
    <2>3. timer' = timer
      BY <2>1, <2>2 DEF Typed
    <2>4. \A m \in Messages : chain'[m] # "sending" /\ Active(m)' = Active(m)
      BY <2>1, <2>2 DEF Active, Typed, PromptInv
    <2>5. QED  BY <2>1, <2>3, <2>4 DEF PromptInv, Sent, FailedAfterAllTransmissions
  <1>6. ASSUME NEW n \in Messages, LimitReached(n) PROVE PromptInv'
    <2> DEFINE p == Sender(n)
    <2>1. /\ Active(n) /\ retries[p] + 1 >= MaxTransmissions
          /\ retries' = [retries EXCEPT ![p] = @ + 1]
          /\ UNCHANGED <<timer, call, sends>>
      BY <1>6 DEF LimitReached, RetransmissionFires, LimitHit, Active, application
    <2>2. /\ waiter[p] = n /\ sentToAck[p] = n
          /\ sends[n] = MaxTransmissions /\ retries[p] + 1 = MaxTransmissions
      BY <2>1, ExchangeAssumption DEF PromptInv, AckInv, Typed
    <2>3. /\ result' = [result EXCEPT ![n] = "failed"]
          /\ waiter' = [waiter EXCEPT ![p] = None]
      BY <1>6, <2>2 DEF LimitReached, RejectPending
    <2>4. \A m \in Messages : /\ chain'[m] # "sending" /\ (Sent(m)' <=> Sent(m))
                              /\ Active(m)' => Active(m) /\ m # n
      BY <1>6, <2>1 DEF LimitReached, Active, Sent, PromptInv
    <2>5. \A m \in Messages : Active(m) /\ m # n => Sender(m) # p
      BY <2>2 DEF PromptInv
    <2>13. /\ result'[n] = "failed" /\ \A m \in Messages : m # n => result'[m] = result[m]
           /\ \A q \in Peers : q # p => waiter'[q] = waiter[q] /\ retries'[q] = retries[q]
      BY <2>1, <2>3 DEF Typed
    <2>6. ASSUME NEW m \in Messages, Active(m)'
          PROVE  /\ Sent(m)' /\ waiter'[Sender(m)] = m /\ timer'[Sender(m)] = m
                 /\ sends'[m] = retries'[Sender(m)] + 1
                 /\ retries'[Sender(m)] < MaxTransmissions
      <3>1. Active(m) /\ Sender(m) # p
        BY <2>4, <2>5, <2>6 DEF Sent, Active
      <3>2. QED  BY <2>1, <2>4, <2>13, <3>1 DEF PromptInv, Sent, Active
    <2>7. ASSUME NEW m \in Messages, Sent(m)', result'[m] = "pending"
          PROVE  waiter'[Sender(m)] = m
      <3>1. m # n /\ Sent(m) /\ result[m] = "pending"
        BY <2>4, <2>7, <2>13 DEF Sent, Active
      <3>2. waiter[Sender(m)] = m
        BY <3>1 DEF PromptInv
      <3>3. QED  BY <2>2, <2>13, <3>1, <3>2
    <2>8. \A m \in Messages : result'[m] # "pending" => Sent(m)' /\ ~Active(m)'
      BY <2>1, <2>4, <2>13 DEF PromptInv, Sent, Active
    <2>9. \A q \in Peers : (waiter[q] # None => Sender(waiter[q]) = q /\ Sent(waiter[q]))'
      BY <2>1, <2>3 DEF PromptInv, Sent, Typed
    <2>10. FailedAfterAllTransmissions'
      BY <2>1, <2>2, <2>3 DEF PromptInv, FailedAfterAllTransmissions, Typed
    <2>11. /\ retries' \in [Peers -> 0 .. MaxTransmissions]
           /\ \A m \in Messages : call'[m] \in {"no", "awaiting"}
      BY <2>1, <2>2, ExchangeAssumption DEF PromptInv
    <2>12. QED  BY <2>4, <2>6, <2>7, <2>8, <2>9, <2>10, <2>11 DEF PromptInv, Sent, Active
  <1>7. ASSUME NEW p \in Peers, AckTimeout(p) PROVE PromptInv'
    BY <1>7, PromptFrame DEF AckTimeout, sending
  <1>8. ASSUME NEW p \in Peers, CloseTimeout(p) \/ AppClose(p) \/ Evict(p) PROVE PromptInv'
    BY <1>8, PromptStopped DEF CloseTimeout, AppClose, Evict, CloseExchange, CloseNow
  <1>9. ASSUME NEW packet \in net, Lose(packet) PROVE PromptInv'
    BY <1>9, PromptFrame DEF Lose, sending
  <1>10. ASSUME NEW n \in Messages, ReceiveUnexpected(n) \/ ReceiveWithoutAck(n)
         PROVE  PromptInv'
    BY <1>10, PromptFrame DEF ReceiveUnexpected, ReceiveWithoutAck, sending
  <1>11. ASSUME NEW n \in Messages, ReceiveNew(n) PROVE PromptInv'
    <2>1. CASE sentToAck[Receiver(n)] = None
      BY <1>11, <2>1, PromptFrame DEF ReceiveNew, Unaffected
    <2>2. CASE sentToAck[Receiver(n)] # None
      BY <1>11, <2>2, PromptAcknowledged DEF ReceiveNew
    <2>3. QED  BY <2>1, <2>2
  <1>12. ASSUME NEW n \in Messages, ReceiveAck(n) PROVE PromptInv'
    BY <1>12, PromptAcknowledged DEF ReceiveAck
  <1>13. CASE UNCHANGED vars
    BY <1>13, PromptFrame DEF vars
  <1>14. QED
    BY <1>1, <1>2, <1>3, <1>4, <1>5, <1>6, <1>7, <1>8, <1>9, <1>10, <1>11, <1>12, <1>13
       DEF Next, Timers, Network

LEMMA AlwaysPromptInv ==
    ASSUME PromptSend
    PROVE  Spec => [](Typed /\ AckInv /\ PromptInv)
  <1>1. Init => Typed /\ AckInv /\ PromptInv
    BY InitTyped, InitAckInv, InitPromptInv
  <1>2. Typed /\ AckInv /\ PromptInv /\ [Next]_vars => (Typed /\ AckInv /\ PromptInv)'
    BY TypedStep, AckInvStep, PromptInvStep
  <1>3. QED  BY <1>1, <1>2, PTL DEF Spec

\* With prompt sends, the retransmission counter never passes the limit, and the
\* state of an exchange has its types.
THEOREM TypeCorrect == ASSUME PromptSend PROVE Spec => []TypeOK
  <1>1. Typed /\ AckInv /\ PromptInv => TypeOK
    BY DEF Typed, PromptInv, TypeOK
  <1>2. QED  BY <1>1, AlwaysPromptInv, PTL

\* With prompt sends, a send fails only after all its transmissions
\* (#retransmitMessage), whatever is lost, evicted or acknowledged meanwhile.
THEOREM FailureIsLast == ASSUME PromptSend PROVE Spec => []FailedAfterAllTransmissions
  <1>1. Typed /\ AckInv /\ PromptInv => FailedAfterAllTransmissions
    BY DEF PromptInv
  <1>2. QED  BY <1>1, AlwaysPromptInv, PTL

\* With prompt sends, an acknowledged message is not transmitted again (the
\* acknowledgement handling stops #retransmissionTimer).
THEOREM AckedIsSilent == ASSUME PromptSend PROVE Spec => AckStopsRetransmission
  <1>1. ASSUME Typed, PromptInv, [Next]_vars, NEW n \in Messages, result[n] = "ok"
        PROVE  sends'[n] = sends[n]
    <2>1. Sent(n) /\ ~Active(n)
      BY <1>1 DEF PromptInv
    <2>2. ASSUME NEW m \in Messages, Send(m) \/ Retransmit(m) PROVE sends'[n] = sends[n]
      <3>1. m # n
        BY <2>1, <2>2 DEF Send, Retransmit, RetransmissionFires, Sent, Active
      <3>2. sends' \in {[sends EXCEPT ![m] = 1], [sends EXCEPT ![m] = @ + 1]}
        BY <2>2 DEF Send, Retransmit
      <3>3. QED  BY <1>1, <3>1, <3>2 DEF Typed
    <2>3. CASE UNCHANGED sends
      BY <2>3
    <2>4. (\E m \in Messages : Send(m) \/ Retransmit(m)) \/ UNCHANGED sends
      BY <1>1 DEF Next, Timers, Network, FirstSendDone, FirstSendFails, Read, ResendDone,
         FinalWait, LimitReached, AckTimeout, CloseTimeout, AppClose, Evict, Lose,
         ReceiveUnexpected, ReceiveWithoutAck, ReceiveNew, ReceiveAck, sending, vars
    <2>5. QED  BY <2>2, <2>3, <2>4
  <1>2. Typed /\ PromptInv /\ [Next]_vars
        => [\A n \in Messages : result[n] = "ok" => sends'[n] = sends[n]]_vars
    BY <1>1
  <1>3. QED  BY <1>2, AlwaysPromptInv, PTL DEF Spec, AckStopsRetransmission

-----------------------------------------------------------------------------
(* The conversation. *)

LEMMA TwoPeers ==
    /\ \A p, q \in Peers : q # p => q = Other(p)
    /\ \A p, q, r \in Peers : q # p /\ r # p => q = r
  BY PeerFacts DEF Peers

LEMMA InitConvInv == Init => ConvInv
  BY PeerFacts DEF Init, ConvInv, SentFirst, InTurn, Waiting, Queued, Sent, None

\* A step in which no message is sent for the first time or received, acknowledgements
\* are forgotten but not promised, and a promise may be settled.
ConvFrame ==
    /\ \A n \in Messages : call'[n] # "no" <=> call[n] # "no"
    /\ \A n \in Messages : Data(n) \in net' => Data(n) \in net \/ Sent(n)
    /\ UNCHANGED <<seen, queue, ackOf>>
    /\ \A n \in Messages : chain'[n] # "unstarted" \/ result'[n] # "pending" => Sent(n)
    /\ \A n \in Messages : result[n] = "ok" => result'[n] = "ok"
    /\ \A p \in Peers : timer'[p] \in Messages => Sent(timer'[p])
    /\ \A p \in Peers : waiter'[p] = None \/ (waiter'[p] = waiter[p]
                                              /\ result'[waiter[p]] = result[waiter[p]])
    /\ \A p \in Peers : sentToAck'[p] \in {sentToAck[p], None}
    /\ \A p \in Peers : receivedToAck'[p] \in {receivedToAck[p], None}
    /\ \A p \in Peers : exch'[p] \in {"none", "open"} => exch[p] \in {"none", "open"}

LEMMA ConvFrameKeeps == Typed /\ Typed' /\ ConvInv /\ ConvFrame => ConvInv'
  <1> SUFFICES ASSUME Typed, Typed', ConvInv, ConvFrame PROVE ConvInv'
    OBVIOUS
  <1> USE PeerFacts
  <1>1. SentFirst'
    BY DEF ConvFrame, ConvInv, SentFirst, Sent, Typed
  <1>2. InTurn'
    BY DEF ConvFrame, ConvInv, InTurn, Sent
  <1>3. Waiting'
    <2>1. /\ \A p \in Peers : sentToAck'[p] # None => sentToAck'[p] = sentToAck[p]
          /\ \A p \in Peers : receivedToAck'[p] # None => receivedToAck'[p] = receivedToAck[p]
          /\ ackOf' = ackOf
      BY DEF ConvFrame
    <2>2. \A p \in Peers : sentToAck[p] # None => sentToAck[p] \in Messages
      BY DEF Typed
    <2>3. QED  BY <2>1, <2>2 DEF ConvFrame, ConvInv, Waiting, Sent
  <1>4. Queued'
    BY DEF ConvFrame, ConvInv, Queued
  <1>5. QED  BY <1>1, <1>2, <1>3, <1>4 DEF ConvInv

\* send() of message n: the earlier messages are settled on both sides.
LEMMA SendConv ==
    ASSUME Typed, Typed', AckInv, ConvInv, NEW n \in Messages, Send(n)
    PROVE  ConvInv'
  <1> DEFINE p == Sender(n)
  <1> USE PeerFacts
  <1>1. /\ call[n] = "no" /\ SendsReturned(p)
        /\ n > 1 => n - 1 \in read \/ (Sender(n - 1) = p /\ call[n - 1] # "no")
        /\ ackOf' = [ackOf EXCEPT ![n] = receivedToAck[p]]
        /\ receivedToAck' = [receivedToAck EXCEPT ![p] = None]
        /\ sentToAck' = [sentToAck EXCEPT ![p] = n]
        /\ waiter' = [waiter EXCEPT ![p] = n]
        /\ timer' = [timer EXCEPT ![p] = n]
        /\ net' = net \cup {Data(n)}
        /\ UNCHANGED <<seen, queue, exch, result>>
    BY DEF Send, ClearReceivedToAck
  <1>2. /\ call' = [call EXCEPT ![n] = "awaiting"] \/ call' = [call EXCEPT ![n] = "sending"]
        /\ chain' = [chain EXCEPT ![n] = "running"] \/ chain' = chain
    BY DEF Send
  <1>3. /\ call'[n] # "no"
        /\ \A m \in Messages : m # n => call'[m] = call[m] /\ chain'[m] = chain[m]
    BY <1>2 DEF Typed
  <1>4. result[n] = "pending"
    BY <1>1 DEF ConvInv, SentFirst, Sent, Typed
  <1>5. SentFirst'
    <2>1. \A m \in Messages : Data(m) \in net' \/ m \in seen' => call'[m] # "no"
      BY <1>1, <1>3, PacketFacts DEF ConvInv, SentFirst, Sent
    <2>2. \A m \in Messages : chain'[m] # "unstarted" \/ result'[m] # "pending" => call'[m] # "no"
      BY <1>1, <1>3 DEF ConvInv, SentFirst, Sent
    <2>3. \A q \in Peers : timer'[q] # None => call'[timer'[q]] # "no"
      BY <1>1, <1>3 DEF ConvInv, SentFirst, Sent, Typed
    <2>4. \A q \in Peers : waiter'[q] # None => /\ call'[waiter'[q]] # "no"
                                                /\ result'[waiter'[q]] = "pending"
      BY <1>1, <1>3, <1>4 DEF ConvInv, SentFirst, Sent, Typed
    <2>5. QED  BY <2>1, <2>2, <2>3, <2>4 DEF SentFirst, Sent
  <1>6. \A k \in Messages : Sent(k) => k < n
    BY <1>1 DEF ConvInv, InTurn, Sent
  <1>7. ASSUME NEW m \in Messages, m < n
        PROVE  /\ call[m] # "no"
               /\ Sender(m) = p => result[m] = "ok"
               /\ Receiver(m) = p => m \in seen
    <2>1. n - 1 \in Messages
      BY <1>7, ExchangeAssumption DEF Messages
    <2>2. n - 1 \in read \/ (Sender(n - 1) = p /\ call[n - 1] # "no")
      BY <1>1, <1>7 DEF None
    <2>3. n - 1 \in read => n - 1 \in seen
      BY DEF AckInv
    <2>4. Sent(n - 1)
      BY <2>1, <2>2, <2>3 DEF ConvInv, SentFirst, Sent
    <2>5. m = n - 1 \/ m < n - 1
      BY <1>7, <2>1
    <2>6. call[m] # "no"
      BY <2>1, <2>4, <2>5 DEF ConvInv, InTurn, Sent
    <2>7. Sender(m) = p => result[m] = "ok"
      BY <1>1, <2>6 DEF SendsReturned
    <2>8. ASSUME Receiver(m) = p PROVE m \in seen
      <3>1. CASE m = n - 1
        BY <2>2, <2>3, <2>8, <3>1
      <3>2. CASE m < n - 1 /\ Sender(n - 1) = p
        BY <2>1, <2>4, <2>8, <3>2 DEF ConvInv, InTurn
      <3>3. CASE m < n - 1 /\ Sender(n - 1) # p
        <4>1. Sender(m) = Sender(n - 1)
          BY <2>1, <2>8, <3>3, TwoPeers
        <4>2. result[m] = "ok"
          BY <2>1, <2>4, <3>3, <4>1 DEF ConvInv, InTurn
        <4>3. QED  BY <4>2 DEF AckInv, AckedWasReceived
      <3>4. QED  BY <2>5, <3>1, <3>2, <3>3
    <2>9. QED  BY <2>6, <2>7, <2>8
  <1>8. InTurn'
    <2> SUFFICES ASSUME NEW k \in Messages, NEW m \in Messages, call'[k] # "no", m < k
                 PROVE  /\ call'[m] # "no"
                        /\ Sender(m) = Sender(k) => result[m] = "ok"
                        /\ Receiver(m) = Sender(k) => m \in seen
      BY <1>1 DEF InTurn, Sent
    <2>1. CASE k = n
      BY <1>3, <1>7, <2>1
    <2>2. CASE k # n
      BY <1>3, <1>6, <2>2 DEF ConvInv, InTurn, Sent
    <2>3. QED  BY <2>1, <2>2
  <1>9. Waiting'
    <2>1. \A k \in Messages : call'[k] # "no" => k = n \/ Sent(k)
      BY <1>3 DEF Sent
    <2>2. /\ sentToAck'[p] = n /\ receivedToAck'[p] = None
          /\ \A q \in Peers : q # p => sentToAck'[q] = sentToAck[q]
                                       /\ receivedToAck'[q] = receivedToAck[q]
      BY <1>1 DEF Typed
    <2>3. \A q \in Peers : sentToAck'[q] # None => /\ call'[sentToAck'[q]] # "no"
                                                   /\ Sender(sentToAck'[q]) = q
      BY <1>3, <2>2 DEF ConvInv, Waiting, Sent, Typed
    <2>4. \A q \in Peers : receivedToAck'[q] # None => Receiver(receivedToAck'[q]) = q
      BY <2>2 DEF ConvInv, Waiting
    <2>5. ASSUME NEW q \in Peers, NEW k \in Messages, call'[k] # "no", Sender(k) = q
          PROVE  /\ sentToAck'[q] # None => k <= sentToAck'[q]
                 /\ receivedToAck'[q] # None => k < receivedToAck'[q]
      <3>1. CASE q = p
        BY <1>6, <2>1, <2>2, <2>5, <3>1
      <3>2. CASE q # p
        BY <2>1, <2>2, <2>5, <3>2 DEF ConvInv, Waiting
      <3>3. QED  BY <3>1, <3>2
    <2>6. \A m \in Messages : ackOf'[m] # None => Receiver(ackOf'[m]) = Sender(m)
      BY <1>1 DEF ConvInv, Waiting, Typed
    <2>7. QED  BY <2>3, <2>4, <2>5, <2>6 DEF Waiting, Sent
  <1>10. Queued'
    <2>1. n \notin seen
      BY <1>1 DEF ConvInv, SentFirst, Sent
    <2>2. QED  BY <1>1, <2>1 DEF ConvInv, Queued, Typed
  <1>11. QED  BY <1>5, <1>8, <1>9, <1>10 DEF ConvInv

\* The first copy of message n arrives, with whatever becomes of it: the peer may be
\* sent an acknowledgement, and the one it waited for may come along.
LEMMA ReceiptConv ==
    ASSUME Typed, Typed', AckInv, ConvInv, NEW n \in Messages, Data(n) \in net, n \notin seen,
           seen' = seen \cup {n},
           \A m \in Messages : Data(m) \in net' => Data(m) \in net,
           UNCHANGED <<ackOf, timer, call>>,
           \A m \in Messages : chain'[m] # "unstarted" => chain[m] # "unstarted",
           \/ UNCHANGED <<sentToAck, waiter, result>>
           \/ Acknowledged(Receiver(n)),
           receivedToAck' \in {receivedToAck, [receivedToAck EXCEPT ![Receiver(n)] = n]},
           \A p \in Peers : exch'[p] \in {"none", "open"} => exch[p] \in {"none", "open"},
           queue \subseteq queue',
           \/ n \in queue' \/ n = 1 \/ ackOf[n] # n - 1
           \/ exch'[Receiver(n)] \notin {"none", "open"}
    PROVE  ConvInv'
  <1> DEFINE p == Receiver(n)
  <1> USE PeerFacts
  <1>1. /\ call[n] # "no" /\ call' = call
    BY DEF ConvInv, SentFirst, Sent
  <1>2. /\ \A m \in Messages : result'[m] # "pending" => call[m] # "no"
        /\ \A m \in Messages : result[m] = "ok" => result'[m] = "ok"
        /\ \A q \in Peers : waiter'[q] # None => /\ waiter'[q] = waiter[q]
                                                 /\ result'[waiter[q]] = "pending"
        /\ \A q \in Peers : sentToAck'[q] # None => sentToAck'[q] = sentToAck[q]
    <2>1. CASE UNCHANGED <<sentToAck, waiter, result>>
      BY <2>1 DEF ConvInv, SentFirst, Sent
    <2>2. CASE Acknowledged(p)
      <3>1. /\ \A m \in Messages : result'[m] = IF m = waiter[p] THEN "ok" ELSE result[m]
            /\ waiter' = [waiter EXCEPT ![p] = None]
            /\ sentToAck' = [sentToAck EXCEPT ![p] = None]
        BY <2>2 DEF Acknowledged
      <3>2. \A q \in Peers : waiter[q] # None => waiter[q] \in Messages /\ Sender(waiter[q]) = q
        BY DEF AckInv, ConvInv, Waiting, Typed
      <3>3. \A q \in Peers : q # p /\ waiter[q] # None => waiter[q] # waiter[p]
        BY <3>2
      <3>4. \A q \in Peers : waiter'[q] # None => /\ waiter'[q] = waiter[q]
                                                  /\ result'[waiter[q]] = "pending"
        BY <3>1, <3>2, <3>3 DEF ConvInv, SentFirst, Typed
      <3>5. \A q \in Peers : sentToAck'[q] # None => sentToAck'[q] = sentToAck[q]
        BY <3>1 DEF Typed
      <3>6. QED  BY <3>1, <3>4, <3>5 DEF ConvInv, SentFirst, Sent
    <2>3. QED  BY <2>1, <2>2
  <1>3. SentFirst'
    <2>1. \A m \in Messages : chain'[m] # "unstarted" \/ result'[m] # "pending" => call[m] # "no"
      BY <1>2 DEF ConvInv, SentFirst, Sent
    <2>2. \A m \in Messages : Data(m) \in net' \/ m \in seen' => call[m] # "no"
      BY <1>1 DEF ConvInv, SentFirst, Sent
    <2>3. \A q \in Peers : waiter'[q] # None => /\ call[waiter'[q]] # "no"
                                                /\ result'[waiter'[q]] = "pending"
      BY <1>2 DEF ConvInv, SentFirst, Sent
    <2>4. QED  BY <1>1, <2>1, <2>2, <2>3 DEF ConvInv, SentFirst, Sent
  <1>4. InTurn'
    BY <1>1, <1>2 DEF ConvInv, InTurn, Sent
  <1>5. ASSUME NEW k \in Messages, Sent(k), Sender(k) = p PROVE k < n
    <2>1. k # n
      BY <1>5
    <2>2. ~(n < k)
      BY <1>5 DEF ConvInv, InTurn
    <2>3. QED  BY <2>1, <2>2
  <1>6. Waiting'
    <2>1. \A q \in Peers : sentToAck'[q] # None => call[sentToAck'[q]] # "no" /\ Sender(sentToAck'[q]) = q
      BY <1>2 DEF ConvInv, Waiting, Sent
    <2>2. /\ \A q \in Peers : receivedToAck'[q] = receivedToAck[q] \/ (q = p /\ receivedToAck'[q] = n)
      BY DEF Typed
    <2>3. \A q \in Peers : receivedToAck'[q] # None => Receiver(receivedToAck'[q]) = q
      BY <2>2 DEF ConvInv, Waiting
    <2>4. \A q \in Peers, k \in Messages : call[k] # "no" /\ Sender(k) = q =>
             /\ sentToAck'[q] # None => k <= sentToAck'[q]
             /\ receivedToAck'[q] # None => k < receivedToAck'[q]
      BY <1>2, <1>5, <2>2 DEF ConvInv, Waiting, Sent
    <2>5. QED  BY <1>1, <2>1, <2>3, <2>4 DEF ConvInv, Waiting, Sent
  <1>7. Queued'
    BY DEF ConvInv, Queued
  <1>8. QED  BY <1>3, <1>4, <1>6, <1>7 DEF ConvInv

\* A message that acknowledges the peer's latest one carries exactly what the peer
\* waits for, if it waits, and finds no other message unacknowledged there.
LEMMA NewIsWelcome ==
    ASSUME Typed, AckInv, ConvInv, NEW n \in Messages, Data(n) \in net, n \notin seen,
           n # 1, ackOf[n] = n - 1
    PROVE  /\ sentToAck[Receiver(n)] \in {None, n - 1}
           /\ receivedToAck[Receiver(n)] = None
  <1> DEFINE p == Receiver(n)
  <1> USE PeerFacts
  <1>1. n - 1 \in Messages /\ n - 1 # None
    BY ExchangeAssumption DEF Messages, None
  <1>2. Sender(n - 1) = p /\ Sent(n) /\ Sent(n - 1)
    BY <1>1, TwoPeers DEF ConvInv, Waiting, SentFirst, InTurn
  <1>3. ASSUME NEW s \in Messages, s = sentToAck[p] PROVE s = n - 1
    <2>1. Sent(s) /\ Sender(s) = p /\ n - 1 <= s
      BY <1>1, <1>2, <1>3 DEF ConvInv, Waiting
    <2>2. s # n /\ ~(n < s)
      BY <2>1 DEF ConvInv, InTurn
    <2>3. QED  BY <2>1, <2>2
  <1>4. ASSUME NEW r \in Messages, r = receivedToAck[p] PROVE FALSE
    <2>1. Receiver(r) = p /\ n - 1 < r /\ r \in seen
      BY <1>1, <1>2, <1>4 DEF ConvInv, Waiting, AckInv
    <2>2. n < r /\ Sent(r) /\ Sender(n) = Sender(r)
      BY <2>1, TwoPeers DEF ConvInv, SentFirst
    <2>3. n \in seen
      BY <2>2 DEF ConvInv, InTurn, AckInv, AckedWasReceived
    <2>4. QED  BY <2>3
  <1>5. QED  BY <1>3, <1>4 DEF Typed

LEMMA ConvInvStep == Typed /\ Typed' /\ AckInv /\ ConvInv /\ [Next]_vars => ConvInv'
  <1> SUFFICES ASSUME Typed, Typed', AckInv, ConvInv, [Next]_vars PROVE ConvInv'
    OBVIOUS
  <1> USE PeerFacts, PacketFacts
  <1>0. /\ \A m \in Messages : chain[m] # "unstarted" \/ result[m] # "pending" => Sent(m)
        /\ \A p \in Peers : timer[p] \in Messages => Sent(timer[p])
    BY DEF ConvInv, SentFirst
  <1>1. ASSUME NEW n \in Messages, Send(n) PROVE ConvInv'
    BY <1>1, SendConv
  <1>2. ASSUME NEW n \in Messages, FirstSendDone(n) PROVE ConvInv'
    <2>1. \A m \in Messages : chain'[m] # "unstarted" => Sent(m)
      BY <1>2, <1>0 DEF FirstSendDone, Typed
    <2>2. ConvFrame
      BY <1>2, <1>0, <2>1 DEF FirstSendDone, ConvFrame, Typed, Sent, receiving, application
    <2>3. QED  BY <2>2, ConvFrameKeeps
  <1>3. ASSUME NEW n \in Messages, FirstSendFails(n) PROVE ConvInv'
    BY <1>3, <1>0, ConvFrameKeeps
       DEF FirstSendFails, ConvFrame, Typed, Sent, receiving, application
  <1>4. ASSUME NEW n \in Messages, Read(n) PROVE ConvInv'
    BY <1>4, <1>0, ConvFrameKeeps DEF Read, ConvFrame, Sent, receiving, sending
  <1>5. ASSUME NEW n \in Messages, Retransmit(n) \/ ResendDone(n) \/ FinalWait(n)
        PROVE  ConvInv'
    <2>1. Sent(n)
      BY <1>5, <1>0 DEF Retransmit, ResendDone, FinalWait, RetransmissionFires
    <2>2. /\ timer' = timer \/ timer' = [timer EXCEPT ![Sender(n)] = n]
          /\ \E x : chain' = [chain EXCEPT ![n] = x]
          /\ net' \subseteq net \cup {Data(n)}
          /\ UNCHANGED <<seen, queue, ackOf, call, result, waiter, sentToAck, receivedToAck, exch>>
      BY <1>5 DEF Retransmit, ResendDone, FinalWait, receiving, application
    <2>3. /\ \A m \in Messages : chain'[m] # "unstarted" \/ result'[m] # "pending" => Sent(m)
          /\ \A p \in Peers : timer'[p] \in Messages => Sent(timer'[p])
      BY <1>0, <2>1, <2>2 DEF Typed
    <2>4. ConvFrame
      BY <2>1, <2>2, <2>3 DEF ConvFrame, Sent
    <2>5. QED  BY <2>4, ConvFrameKeeps
  <1>6. ASSUME NEW n \in Messages, LimitReached(n) PROVE ConvInv'
    <2> DEFINE p == Sender(n)
    <2>1. Sent(n)
      BY <1>6, <1>0 DEF LimitReached, RetransmissionFires
    <2>2. \A m \in Messages : chain'[m] # "unstarted" => Sent(m)
      BY <1>6, <1>0, <2>1 DEF LimitReached
    <2>3. CASE UNCHANGED <<receivedToAck, result, waiter>>
      <3>1. ConvFrame
        BY <1>6, <1>0, <2>2, <2>3 DEF LimitReached, ConvFrame, Sent, application, Typed
      <3>2. QED  BY <3>1, ConvFrameKeeps
    <2>4. CASE /\ waiter[p] # None
               /\ receivedToAck' = [receivedToAck EXCEPT ![p] = None]
               /\ result' = [result EXCEPT ![waiter[p]] = "failed"]
               /\ waiter' = [waiter EXCEPT ![p] = None]
      <3>1. \A q \in Peers : waiter[q] # None => /\ waiter[q] \in Messages
                                                 /\ Sender(waiter[q]) = q /\ Sent(waiter[q])
                                                 /\ result[waiter[q]] = "pending"
        BY DEF AckInv, ConvInv, Waiting, SentFirst, Typed
      <3>2. \A q \in Peers : waiter'[q] = None \/ (waiter'[q] = waiter[q]
                                                  /\ result'[waiter[q]] = result[waiter[q]])
        BY <2>4, <3>1 DEF Typed
      <3>3. /\ \A m \in Messages : result'[m] # "pending" => Sent(m)
            /\ \A m \in Messages : result[m] = "ok" => result'[m] = "ok"
            /\ \A q \in Peers : receivedToAck'[q] \in {receivedToAck[q], None}
        BY <1>0, <2>4, <3>1 DEF Typed
      <3>4. ConvFrame
        BY <1>6, <1>0, <2>2, <3>2, <3>3 DEF LimitReached, ConvFrame, Sent, application, Typed
      <3>5. QED  BY <3>4, ConvFrameKeeps
    <2>5. QED  BY <1>6, <2>3, <2>4 DEF LimitReached, RejectPending
  <1>7. ASSUME NEW p \in Peers, AckTimeout(p) PROVE ConvInv'
    <2>1. ConvFrame
      BY <1>7, <1>0 DEF AckTimeout, ClearReceivedToAck, AcksPending, ConvFrame, Sent, Typed,
         sending, application
    <2>2. QED  BY <2>1, ConvFrameKeeps
  <1>8. ASSUME NEW p \in Peers, CloseTimeout(p) \/ AppClose(p) \/ Evict(p) PROVE ConvInv'
    <2>1. /\ \A m \in Messages : Data(m) \in net' => Data(m) \in net
          /\ receivedToAck' \in {receivedToAck, [receivedToAck EXCEPT ![p] = None]}
          /\ exch' \in {exch, [exch EXCEPT ![p] = "closing"], [exch EXCEPT ![p] = "closed"]}
          /\ chain' \in {chain, Stopped(p)}
      BY <1>8 DEF CloseTimeout, AppClose, Evict, CloseExchange, CloseNow, ClearReceivedToAck,
                  AcksPending, receiving
    <2>2. UNCHANGED <<seen, queue, sentToAck, waiter, timer, ackOf, call, result>>
      BY <1>8 DEF CloseTimeout, AppClose, Evict, receiving
    <2>3. \A m \in Messages : chain'[m] # "unstarted" => Sent(m)
      <3>1. CASE chain' = chain
        BY <1>0, <3>1
      <3>2. CASE chain' = Stopped(p)
        BY <1>0, <3>2 DEF Stopped, Typed
      <3>3. QED  BY <2>1, <3>1, <3>2
    <2>4. ConvFrame
      BY <1>0, <2>1, <2>2, <2>3 DEF ConvFrame, Sent, Typed
    <2>5. QED  BY <2>4, ConvFrameKeeps
  <1>9. ASSUME NEW packet \in net, Lose(packet) PROVE ConvInv'
    BY <1>9, <1>0, ConvFrameKeeps DEF Lose, ConvFrame, Sent, receiving, sending, application
  <1>10. ASSUME NEW n \in Messages, ReceiveUnexpected(n) PROVE ConvInv'
    <2>1. \A m \in Messages : Data(m) \in net' => Data(m) \in net
      BY <1>10, TakeAdds DEF ReceiveUnexpected
    <2>2. CASE n \in seen
      BY <1>10, <1>0, <2>1, <2>2, ConvFrameKeeps
         DEF ReceiveUnexpected, ConvFrame, Sent, sending, application
    <2>3. CASE n \notin seen
      BY <1>10, <2>1, <2>3, ReceiptConv DEF ReceiveUnexpected, sending, application
    <2>4. QED  BY <2>2, <2>3
  <1>11. ASSUME NEW n \in Messages, ReceiveWithoutAck(n) PROVE ConvInv'
    <2>1. \A m \in Messages : Data(m) \in net' => Data(m) \in net
      BY <1>11, TakeAdds DEF ReceiveWithoutAck
    <2>2. n = 1 \/ ackOf[n] # n - 1
      BY <1>11, NewIsWelcome DEF ReceiveWithoutAck, IsNew
    <2>3. QED
      BY <1>11, <2>1, <2>2, ReceiptConv DEF ReceiveWithoutAck, IsNew, sending, application
  <1>12. ASSUME NEW n \in Messages, ReceiveNew(n) PROVE ConvInv'
    <2> DEFINE p == Receiver(n)
    <2>1. \A m \in Messages : Data(m) \in net' => Data(m) \in net
      BY <1>12, TakeAdds DEF ReceiveNew, AcksPending
    <2>2. receivedToAck[p] = None \/ n = 1 \/ ackOf[n] # n - 1
      BY <1>12, NewIsWelcome DEF ReceiveNew, IsNew
    <2>3. /\ queue \subseteq queue'
          /\ n \in queue' \/ n = 1 \/ ackOf[n] # n - 1
          /\ receivedToAck' \in {receivedToAck, [receivedToAck EXCEPT ![p] = n]}
      BY <1>12, <2>2 DEF ReceiveNew
    <2>4. UNCHANGED <<sentToAck, waiter, result>> \/ Acknowledged(p)
      BY <1>12 DEF ReceiveNew, Unaffected
    <2>5. \A m \in Messages : chain'[m] # "unstarted" => chain[m] # "unstarted"
      BY <1>12 DEF ReceiveNew, Unaffected, Stopped, Typed
    <2>6. \A q \in Peers : exch'[q] \in {"none", "open"} => exch[q] \in {"none", "open"}
      BY <1>12 DEF ReceiveNew, Typed
    <2>7. /\ Data(n) \in net /\ n \notin seen /\ seen' = seen \cup {n}
          /\ UNCHANGED <<ackOf, timer, call>>
      BY <1>12 DEF ReceiveNew, IsNew
    <2>8. QED  BY <2>1, <2>3, <2>4, <2>5, <2>6, <2>7, ReceiptConv
  <1>13. ASSUME NEW n \in Messages, ReceiveAck(n) PROVE ConvInv'
    <2> DEFINE p == Sender(n)
    <2>1. /\ \A m \in Messages : result'[m] = IF m = waiter[p] THEN "ok" ELSE result[m]
          /\ waiter' = [waiter EXCEPT ![p] = None]
          /\ sentToAck' = [sentToAck EXCEPT ![p] = None]
          /\ exch' = [exch EXCEPT ![p] = IF @ = "closing" THEN "closed" ELSE @]
          /\ chain' = Stopped(p)
          /\ UNCHANGED <<seen, receivedToAck, queue, timer, ackOf, call>>
      BY <1>13 DEF ReceiveAck, Acknowledged, receiving
    <2>2. \A m \in Messages : Data(m) \in net' => Data(m) \in net
      BY <1>13, TakeAdds DEF ReceiveAck
    <2>3. \A q \in Peers : waiter[q] # None => /\ waiter[q] \in Messages
                                               /\ Sender(waiter[q]) = q /\ Sent(waiter[q])
      BY DEF AckInv, ConvInv, Waiting, SentFirst, Typed
    <2>4. \A q \in Peers : waiter'[q] = None \/ (waiter'[q] = waiter[q]
                                                /\ result'[waiter[q]] = result[waiter[q]])
      BY <2>1, <2>3 DEF Typed
    <2>5. \A m \in Messages : chain'[m] # "unstarted" \/ result'[m] # "pending" => Sent(m)
      BY <1>0, <2>1, <2>3 DEF Stopped, Typed
    <2>6. ConvFrame
      BY <1>0, <2>1, <2>2, <2>4, <2>5 DEF ConvFrame, Sent, Typed
    <2>7. QED  BY <2>6, ConvFrameKeeps
  <1>14. CASE UNCHANGED vars
    BY <1>14, <1>0, ConvFrameKeeps DEF vars, ConvFrame, Sent
  <1>15. QED
    BY <1>1, <1>2, <1>3, <1>4, <1>5, <1>6, <1>7, <1>8, <1>9, <1>10, <1>11, <1>12, <1>13, <1>14
       DEF Next, Timers, Network

\* Acknowledged, then lost: while the receiver listens, only a message that does not
\* carry the acknowledgement it waits for is dropped after it was acknowledged
\* (MessageExchange.ts:322, :354), for every conversation.
THEOREM OnlyUnansweredIsLost == Spec => []LostOnlyWithoutAck
  <1>1. AckInv /\ ConvInv => LostOnlyWithoutAck
    BY DEF AckInv, ConvInv, Queued, AckedWasReceived, LostOnlyWithoutAck
  <1>2. Init => Typed /\ AckInv /\ ConvInv
    BY InitTyped, InitAckInv, InitConvInv
  <1>3. Typed /\ AckInv /\ ConvInv /\ [Next]_vars => (Typed /\ AckInv /\ ConvInv)'
    BY TypedStep, AckInvStep, ConvInvStep
  <1>4. QED  BY <1>1, <1>2, <1>3, PTL DEF Spec
=============================================================================
