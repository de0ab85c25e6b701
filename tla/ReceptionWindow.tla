-------------------------- MODULE ReceptionWindow --------------------------
(***************************************************************************)
(* Duplicate detection of received messages: the sender's MessageCounter   *)
(* and the receiver's MessageReceptionState, joined by a network that may  *)
(* lose, duplicate, delay and reorder what was sent.                       *)
(*                                                                         *)
(* protocol/src/protocol/MessageReceptionState.ts keeps the largest        *)
(* counter seen and a 32-bit word in which bit i-1 says that the counter i *)
(* below the maximum was seen.  Here the word is a subset of 1..Window.    *)
(* The three classes of that file differ in calculateDiff only; variant    *)
(* says which of them the session has.                                     *)
(***************************************************************************)
EXTENDS Integers, Sequences

CONSTANTS
    MaxCounter,     \* MAX_COUNTER_VALUE_32BIT (0xfffffffe): 0..MaxCounter are legal
    Window,         \* MSG_COUNTER_WINDOW_SIZE (32), also the width of the word
    HalfRange,      \* MAX_COUNTER_INCREASE_2POW31
    RolloverAllowed,\* the sender's counter was given an aboutToRolloverCallback
    RolloverInfo,   \* rolloverInfoDifference
    FirstCounters,  \* initial values of the sender's counter, for each variant
    PeerMax,        \* the counter after which the sender restarts at 0
    MaxSent,        \* bound: messages the sender produces
    MaxDelay        \* bound, for each variant: a copy arrives before that many
                    \* newer messages are sent

Variants == {"EncryptedWithoutRollover", "EncryptedWithRollover", "UnencryptedWithRollover"}

ASSUME ConstantsAssumption ==
    /\ MaxCounter \in Nat /\ Window \in Nat \ {0} /\ HalfRange \in Nat
    /\ PeerMax \in Nat /\ RolloverInfo \in Nat
    /\ MaxSent \in Nat /\ MaxDelay \in [Variants -> Nat]
    /\ RolloverAllowed \in BOOLEAN
    /\ FirstCounters \in [Variants -> SUBSET (0 .. PeerMax)]

Undefined == -1     \* maximumMessageCounter === undefined

VARIABLES
    variant,        \* which subclass of the reception state the session uses
    counter,        \* MessageCounter.messageCounter of the sender
    expiring,       \* aboutToRolloverCallback was called
    sent,           \* the counters of the messages sent so far, in order
    max,            \* maximumMessageCounter
    bitmap,         \* messageCounterBitmap, as the set of offsets below max
    delivered,      \* how often message k passed the check (history)
    fullShift       \* the window once moved by exactly Window (history)

vars == <<variant, counter, expiring, sent, max, bitmap, delivered, fullShift>>

-----------------------------------------------------------------------------
(* calculateDiff of the three classes: how far c is ahead of the maximum m. *)

PlainDiff(m, c) == c - m

\* Faulty: the end of the range is forgotten.
UnwrappedDiff(m, c) == c - m

RolloverDiff(m, c) ==
    LET d == c - m IN
    CASE d >= HalfRange  -> d - MaxCounter - 1
      [] d < -HalfRange  -> d + MaxCounter + 1
      [] OTHER           -> d

\* A counter behind the window is taken for a sender that restarted, and the
\* distance is counted forwards (MaxCounter + d in the source).
UnencryptedDiff(m, c) ==
    LET d == c - m IN
    CASE d > 0 /\ MaxCounter - d < Window -> d - MaxCounter - 1
      [] d < -Window                      -> MaxCounter + d
      [] OTHER                            -> d

Diff(m, c) ==
    CASE variant = "EncryptedWithoutRollover" -> PlainDiff(m, c)
      [] variant = "EncryptedWithRollover"    -> RolloverDiff(m, c)
      [] variant = "UnencryptedWithRollover"  -> UnencryptedDiff(m, c)

-----------------------------------------------------------------------------
(* The bitmap. *)

\* The shift operator takes its distance modulo the width of the word.
ShiftDistance(d) == IF d = Window THEN 0 ELSE d

ShiftLeft(bits, d) == {i + ShiftDistance(d) : i \in bits} \cap 1 .. Window

\* Faulty: the bit of the former maximum is not set.
ForgetfulBitmap(bits, d) ==
    CASE d < 0                -> bits \cup {-d}
      [] d \in 0 .. Window    -> ShiftLeft(bits, d)
      [] OTHER                -> {}

\* Faulty: after a large jump everything counts as seen, as at the start.
ClosedBitmap(bits, d) ==
    CASE d < 0                -> bits \cup {-d}
      [] d = 0                -> bits
      [] d \in 1 .. Window    -> ShiftLeft(bits, d) \cup {d}
      [] OTHER                -> 1 .. Window

\* calculateMessageCounterBitmap
MovedBitmap(bits, d) ==
    CASE d < 0                -> bits \cup {-d}
      [] d = 0                -> bits
      [] d \in 1 .. Window    -> ShiftLeft(bits, d) \cup {d}
      [] OTHER                -> {}

\* The tests of updateMessageCounter that end in a DuplicateMessageError.
IsDuplicate(c) ==
    /\ max # Undefined
    /\ \/ c = max
       \/ Diff(max, c) < -Window
       \/ Diff(max, c) < 0 /\ -Diff(max, c) \in bitmap

\* A counter above MAX_COUNTER_VALUE_32BIT ends in an InternalError.
IsAccepted(c) == c <= MaxCounter /\ ~IsDuplicate(c)

\* updateMessageCounterAndBitmap
UpdateWindow(c) ==
    IF max = Undefined
    THEN max' = c /\ bitmap' = 1 .. Window /\ fullShift' = FALSE
    ELSE LET d == Diff(max, c) IN
         /\ max' = IF d > 0 THEN c ELSE max
         /\ bitmap' = MovedBitmap(bitmap, d)
         /\ fullShift' = (fullShift \/ d = Window)

-----------------------------------------------------------------------------
Init ==
    /\ variant \in Variants
    /\ counter \in FirstCounters[variant]
    /\ expiring = FALSE
    /\ sent = <<>>
    /\ max = Undefined
    /\ bitmap = 1 .. Window
    /\ delivered = <<>>
    /\ fullShift = FALSE

Announced(c) == RolloverAllowed /\ c = PeerMax - RolloverInfo

\* MessageCounter.getIncrementedCounter: without a callback it throws at the
\* end of the range and nothing is sent.
Send ==
    /\ Len(sent) < MaxSent
    /\ counter < PeerMax \/ RolloverAllowed
    /\ counter' = IF counter = PeerMax THEN 0 ELSE counter + 1
    /\ expiring' = (expiring \/ Announced(counter'))
    /\ sent' = Append(sent, counter')
    /\ delivered' = Append(delivered, 0)
    /\ UNCHANGED <<variant, max, bitmap, fullShift>>

\* Copies the network still may hold.
InTransit == {k \in 1 .. Len(sent) : k + MaxDelay[variant] > Len(sent)}

\* updateMessageCounter on a copy of message k that passes the check.
Accept(k) ==
    /\ IsAccepted(sent[k])
    /\ UpdateWindow(sent[k])
    /\ delivered' = [delivered EXCEPT ![k] = @ + 1]
    /\ UNCHANGED <<variant, counter, expiring, sent>>

\* updateMessageCounter on a copy that it rejects: the state is kept.
Reject(k) == ~IsAccepted(sent[k]) /\ UNCHANGED vars

Receive == \E k \in InTransit : Accept(k) \/ Reject(k)

Next == Send \/ Receive

Spec == Init /\ [][Next]_vars

-----------------------------------------------------------------------------
(* Properties. *)

\* Types: the maximum is a legal counter or undefined, the bitmap fits the
\* word, and every sent message has a delivery count.
TypeOK ==
    /\ variant \in Variants
    /\ counter \in 0 .. PeerMax
    /\ expiring \in BOOLEAN
    /\ sent \in Seq(0 .. PeerMax)
    /\ max \in {Undefined} \cup 0 .. MaxCounter
    /\ bitmap \subseteq 1 .. Window
    /\ delivered \in Seq(Nat)
    /\ Len(delivered) = Len(sent)
    /\ fullShift \in BOOLEAN

\* No message passes the duplicate check twice, in whatever order and however
\* often its copies arrive (updateMessageCounter, MessageReceptionState.ts:111).
DeliveredAtMostOnce == \A k \in 1 .. Len(delivered) : delivered[k] <= 1

\* The message accepted most recently cannot be accepted again by a copy that
\* follows it directly: accepting a message always records it.
\* (updateMessageCounterAndBitmap, MessageReceptionState.ts:86)
AcceptedIsRecorded ==
    [][\A k \in 1 .. Len(sent) :
           delivered'[k] > delivered[k] => ~IsAccepted(sent[k])']_vars

\* Message k was sent after some accepted one, is older than the newest one and
\* inside the window below it, and was never received.
NotYetStale(k) ==
    /\ max # Undefined
    /\ delivered[k] = 0
    /\ sent[k] <= MaxCounter
    /\ \E j \in 1 .. Len(sent) :
          /\ delivered[j] > 0 /\ sent[j] = max
          /\ j - k \in 1 .. Window
    /\ \E j \in 1 .. k - 1 : delivered[j] > 0

\* A message that was never received and is inside the window is no duplicate,
\* as the comments at MessageReceptionState.ts:26 and 126 say, unless the window
\* once moved by exactly its own width: that shift is the only way a fresh
\* message is lost.
FreshLostOnlyByFullShift ==
    fullShift \/ \A k \in DOMAIN sent : NotYetStale(k) => ~IsDuplicate(sent[k])

\* A message newer than everything accepted so far is accepted, across the end
\* of the counter range too, unless half of that range was lost before it
\* (calculateDiff, MessageReceptionState.ts:54, 147, 181).
NewestAccepted ==
    \A k \in DOMAIN sent :
        LET accepted == {j \in DOMAIN sent : delivered[j] > 0} IN
        /\ \A j \in accepted : j < k
        /\ \E j \in accepted : k - j <= HalfRange - 2
        => IsAccepted(sent[k])
=============================================================================
