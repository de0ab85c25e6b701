----------------------- MODULE ReceptionWindow_proofs -----------------------
(***************************************************************************)
(* Proofs about the reception window, for every window size, every counter *)
(* range and every order in which copies arrive: first of a secure session *)
(* (MessageReceptionStateEncryptedWithoutRollover), from what the window   *)
(* records of counters; then of all three classes, from the order in which *)
(* messages were sent, as far as calculateDiff can tell it.                *)
(***************************************************************************)
EXTENDS ReceptionWindow, TLAPS

Plain == variant = "EncryptedWithoutRollover"

\* A message that was delivered is behind the maximum, and if the window still
\* reaches it, its bit is set.
Recorded ==
    \A k \in 1 .. Len(sent) :
        delivered[k] > 0 =>
            /\ max # Undefined
            /\ sent[k] <= max
            /\ max - sent[k] \in 1 .. Window => max - sent[k] \in bitmap

IInv == Plain /\ TypeOK /\ DeliveredAtMostOnce /\ Recorded

-----------------------------------------------------------------------------
\* Moving the bitmap keeps it inside the word, records the message it is moved
\* for and keeps every recorded offset that is still inside the window
\* (calculateMessageCounterBitmap).
LEMMA MovedBitmapRecords ==
    ASSUME NEW bits \in SUBSET (1 .. Window), NEW d \in Int, d # 0, d >= -Window
    PROVE  /\ MovedBitmap(bits, d) \subseteq 1 .. Window
           /\ d < 0 => -d \in MovedBitmap(bits, d) /\ bits \subseteq MovedBitmap(bits, d)
           /\ d \in 1 .. Window => d \in MovedBitmap(bits, d)
           /\ \A i \in bits : (d > 0 /\ i + d <= Window) => i + d \in MovedBitmap(bits, d)
  <1>1. Window \in Nat \ {0}
    BY ConstantsAssumption
  <1>2. CASE d < 0
    BY <1>1, <1>2 DEF MovedBitmap
  <1>3. CASE d \in 1 .. Window
    <2>1. MovedBitmap(bits, d) = ShiftLeft(bits, d) \cup {d}
      BY <1>1, <1>3 DEF MovedBitmap
    <2>2. ASSUME NEW i \in bits, i + d <= Window PROVE i + d \in ShiftLeft(bits, d)
      <3>1. d # Window /\ i + d \in 1 .. Window
        BY <1>1, <1>3, <2>2
      <3>2. QED  BY <1>3, <3>1 DEF ShiftLeft, ShiftDistance
    <2>3. ShiftLeft(bits, d) \subseteq 1 .. Window
      BY DEF ShiftLeft
    <2>4. QED  BY <1>1, <1>3, <2>1, <2>2, <2>3
  <1>4. CASE d > Window
    BY <1>1, <1>4 DEF MovedBitmap
  <1>5. QED  BY <1>1, <1>2, <1>3, <1>4

-----------------------------------------------------------------------------
LEMMA InitInv == Init /\ Plain => IInv
  <1> SUFFICES ASSUME Init, Plain PROVE IInv
    OBVIOUS
  <1>1. /\ sent \in Seq(0 .. PeerMax) /\ delivered \in Seq(Nat)
        /\ Len(sent) = 0 /\ Len(delivered) = 0
    BY DEF Init
  <1>2. TypeOK
    BY <1>1, ConstantsAssumption DEF Init, TypeOK
  <1>3. DeliveredAtMostOnce /\ Recorded
    BY <1>1 DEF DeliveredAtMostOnce, Recorded
  <1>4. QED  BY <1>2, <1>3 DEF IInv

\* Sending a message adds one that was not delivered.
LEMMA SendInv == IInv /\ Send => IInv'
  <1> SUFFICES ASSUME IInv, Send PROVE IInv'
    OBVIOUS
  <1> USE DEF IInv
  <1>1. counter' \in 0 .. PeerMax /\ expiring' \in BOOLEAN
    BY ConstantsAssumption DEF Send, TypeOK
  <1>2. /\ sent' \in Seq(0 .. PeerMax) /\ delivered' \in Seq(Nat)
        /\ Len(sent') = Len(sent) + 1 /\ Len(delivered') = Len(delivered) + 1
    BY <1>1 DEF Send, TypeOK
  <1>3. \A k \in 1 .. Len(sent) : sent'[k] = sent[k] /\ delivered'[k] = delivered[k]
    BY <1>1 DEF Send, TypeOK
  <1>4. delivered'[Len(sent')] = 0
    BY <1>2 DEF Send, TypeOK
  <1>5. TypeOK'
    BY <1>1, <1>2 DEF Send, TypeOK
  <1>6. DeliveredAtMostOnce'
    BY <1>2, <1>3, <1>4 DEF TypeOK, DeliveredAtMostOnce
  <1>7. Recorded'
    BY <1>2, <1>3, <1>4 DEF TypeOK, Recorded, Send
  <1>8. Plain'
    BY DEF Plain, Send
  <1>9. QED  BY <1>5, <1>6, <1>7, <1>8

\* An accepted message was not delivered before and is recorded afterwards; what
\* was recorded stays so or falls behind the window.
LEMMA AcceptInv ==
    ASSUME IInv, NEW k \in InTransit, Accept(k)
    PROVE  IInv'
  <1> USE DEF IInv
  <1>1. /\ k \in 1 .. Len(sent) /\ sent[k] \in 0 .. MaxCounter /\ MaxCounter \in Nat
        /\ Window \in Nat \ {0} /\ delivered[k] \in Nat
    BY ConstantsAssumption DEF Accept, InTransit, IsAccepted, TypeOK
  <1>2. /\ delivered' \in Seq(Nat) /\ Len(delivered') = Len(delivered)
        /\ delivered'[k] = delivered[k] + 1 /\ sent' = sent
        /\ \A j \in 1 .. Len(sent) : j # k => delivered'[j] = delivered[j]
    BY <1>1 DEF Accept, TypeOK
  <1>0. Plain'
    BY DEF Plain, Accept
  <1>3. CASE max = Undefined
    <2>1. max' = sent[k] /\ bitmap' = 1 .. Window /\ fullShift' = FALSE
      BY <1>3 DEF Accept, UpdateWindow
    <2>2. \A j \in 1 .. Len(sent) : ~(delivered[j] > 0)
      BY <1>3 DEF Recorded
    <2>3. delivered[k] = 0
      BY <1>1, <2>2
    <2>4. TypeOK'
      BY <1>1, <1>2, <2>1 DEF TypeOK, Accept, Undefined
    <2>5. DeliveredAtMostOnce'
      BY <1>1, <1>2, <2>3 DEF TypeOK, DeliveredAtMostOnce
    <2>6. Recorded'
      BY <1>1, <1>2, <2>1, <2>2 DEF TypeOK, Recorded, Undefined
    <2>7. QED  BY <1>0, <2>4, <2>5, <2>6
  <1>4. CASE max # Undefined
    <2> DEFINE d == sent[k] - max
    <2>1. max \in 0 .. MaxCounter
      BY <1>4 DEF TypeOK
    <2>2. Diff(max, sent[k]) = d /\ d \in Int
      BY <1>1, <2>1 DEF Diff, PlainDiff, Plain
    <2>3. d # 0 /\ d >= -Window /\ ~(d < 0 /\ -d \in bitmap)
      <3>1. ~IsDuplicate(sent[k])
        BY DEF Accept, IsAccepted
      <3>2. QED  BY <1>1, <1>4, <2>1, <2>2, <3>1 DEF IsDuplicate
    <2>4. /\ max' = (IF d > 0 THEN sent[k] ELSE max)
          /\ bitmap' = MovedBitmap(bitmap, d)
          /\ fullShift' = (fullShift \/ d = Window)
      BY <1>4, <2>2 DEF Accept, UpdateWindow
    <2>5. bitmap \in SUBSET (1 .. Window)
      BY DEF TypeOK
    <2> HIDE DEF d
    <2>6. /\ bitmap' \subseteq 1 .. Window
          /\ d < 0 => -d \in bitmap' /\ bitmap \subseteq bitmap'
          /\ d \in 1 .. Window => d \in bitmap'
          /\ \A i \in bitmap : (d > 0 /\ i + d <= Window) => i + d \in bitmap'
      BY <2>2, <2>3, <2>4, <2>5, MovedBitmapRecords
    <2>7. delivered[k] = 0
      BY <1>1, <2>1, <2>3 DEF Recorded, d
    <2>8. TypeOK'
      BY <1>1, <1>2, <2>1, <2>4, <2>6 DEF TypeOK, Accept
    <2>9. DeliveredAtMostOnce'
      BY <1>1, <1>2, <2>7 DEF TypeOK, DeliveredAtMostOnce
    <2>10. Recorded'
      <3> SUFFICES ASSUME NEW j \in 1 .. Len(sent), delivered'[j] > 0
                   PROVE  /\ max' # Undefined /\ sent[j] <= max'
                          /\ max' - sent[j] \in 1 .. Window => max' - sent[j] \in bitmap'
        BY <1>2 DEF Recorded
      <3>0. sent[j] \in Nat /\ sent[k] \in Nat /\ max \in Nat
        BY <1>1, <2>1, ConstantsAssumption DEF TypeOK
      <3>1. CASE j = k
        <4>1. CASE d > 0
          BY <2>4, <3>0, <3>1, <4>1 DEF Undefined
        <4>2. CASE d < 0
          <5>1. max' = max /\ max' - sent[j] = -d /\ sent[j] < max'
            BY <2>4, <3>0, <3>1, <4>2 DEF d
          <5>2. QED  BY <2>6, <3>0, <4>2, <5>1 DEF Undefined
        <4>3. QED  BY <2>2, <2>3, <4>1, <4>2
      <3>2. CASE j # k
        <4>1. /\ sent[j] <= max
              /\ max - sent[j] \in 1 .. Window => max - sent[j] \in bitmap
          BY <1>2, <3>2 DEF Recorded
        <4>2. CASE d < 0
          <5>1. max' = max /\ bitmap \subseteq bitmap'
            BY <2>2, <2>4, <2>6, <4>2
          <5>2. QED  BY <3>0, <4>1, <5>1 DEF Undefined
        <4>3. CASE d > 0
          <5>1. max' = sent[k] /\ max' = max + d
            BY <2>4, <3>0, <4>3 DEF d
          <5>2. ASSUME max' - sent[j] \in 1 .. Window PROVE max' - sent[j] \in bitmap'
            <6>1. CASE sent[j] = max
              BY <2>2, <2>6, <3>0, <4>3, <5>1, <5>2, <6>1
            <6>2. CASE sent[j] < max
              <7>1. max - sent[j] \in bitmap
                BY <1>1, <2>2, <3>0, <4>1, <4>3, <5>1, <5>2, <6>2
              <7>2. max' - sent[j] = (max - sent[j]) + d
                BY <2>2, <3>0, <5>1
              <7>3. QED  BY <1>1, <2>6, <4>3, <5>2, <7>1, <7>2
            <6>3. QED  BY <3>0, <4>1, <6>1, <6>2
          <5>3. QED  BY <2>2, <3>0, <4>1, <4>3, <5>1, <5>2 DEF Undefined
        <4>4. QED  BY <2>2, <2>3, <4>2, <4>3
      <3>3. QED  BY <3>1, <3>2
    <2>11. QED  BY <1>0, <2>8, <2>9, <2>10
  <1>5. QED  BY <1>3, <1>4

LEMMA StepInv == IInv /\ [Next]_vars => IInv'
  <1> SUFFICES ASSUME IInv, [Next]_vars PROVE IInv'
    OBVIOUS
  <1>1. CASE Send
    BY <1>1, SendInv
  <1>2. ASSUME NEW k \in InTransit, Accept(k) PROVE IInv'
    BY <1>2, AcceptInv
  <1>3. CASE UNCHANGED vars
    BY <1>3 DEF vars, IInv, Plain, TypeOK, DeliveredAtMostOnce, Recorded
  <1>4. QED  BY <1>1, <1>2, <1>3 DEF Next, Receive, Reject

\* The inductive invariant holds throughout.
THEOREM InvariantHolds == Spec /\ Plain => []IInv
  <1>1. Init /\ Plain => IInv
    BY InitInv
  <1>2. IInv /\ [Next]_vars => IInv'
    BY StepInv
  <1>3. QED  BY <1>1, <1>2, PTL DEF Spec

\* In a secure session no message passes the duplicate check twice, whatever the
\* network does with its copies (updateMessageCounter).
THEOREM PlainDeliversAtMostOnce == Spec /\ Plain => []DeliveredAtMostOnce
  <1>1. IInv => DeliveredAtMostOnce
    BY DEF IInv
  <1>2. QED  BY <1>1, InvariantHolds, PTL

\* In a secure session a message that was accepted is a duplicate ever after.
\* (updateMessageCounter, updateMessageCounterAndBitmap)
THEOREM PlainRecordsAccepted == Spec /\ Plain => AcceptedIsRecorded
  <1>1. ASSUME IInv, IInv', [Next]_vars
        PROVE  [\A k \in 1 .. Len(sent) :
                   delivered'[k] > delivered[k] => ~IsAccepted(sent[k])']_vars
    <2> SUFFICES ASSUME NEW k \in 1 .. Len(sent), delivered'[k] > delivered[k]
                 PROVE  ~IsAccepted(sent[k])'
      OBVIOUS
    <2>1. k \in 1 .. Len(sent') /\ sent'[k] \in Nat
      <3>1. CASE Send
        BY <1>1, <3>1, ConstantsAssumption DEF IInv, TypeOK, Send
      <3>2. CASE sent' = sent
        BY <1>1, <3>2, ConstantsAssumption DEF IInv, TypeOK
      <3>3. QED  BY <1>1, <3>1, <3>2 DEF Next, Receive, Accept, Reject, vars
    <2>2. delivered'[k] > 0
      <3>1. delivered[k] \in Nat /\ delivered'[k] \in Nat
        BY <1>1, <2>1 DEF IInv, TypeOK
      <3>2. QED  BY <3>1
    <2>3. /\ max' # Undefined /\ sent'[k] <= max' /\ max' \in Nat
          /\ max' - sent'[k] \in 1 .. Window => max' - sent'[k] \in bitmap'
      <3>1. Recorded' /\ TypeOK'
        BY <1>1 DEF IInv
      <3>2. max' # Undefined
        BY <2>1, <2>2, <3>1 DEF Recorded
      <3>3. max' \in Nat
        BY <3>1, <3>2, ConstantsAssumption DEF TypeOK
      <3>4. QED  BY <2>1, <2>2, <3>1, <3>2, <3>3 DEF Recorded
    <2>4. Diff(max, sent[k])' = sent'[k] - max'
      BY <1>1 DEF Diff, PlainDiff, Plain, IInv
    <2>5. IsDuplicate(sent[k])'
      BY <2>1, <2>3, <2>4, ConstantsAssumption DEF IsDuplicate
    <2>6. QED  BY <2>5 DEF IsAccepted
  <1>2. QED  BY <1>1, InvariantHolds, PTL DEF Spec, AcceptedIsRecorded

-----------------------------------------------------------------------------
(* The three variants together, by the order in which messages were sent.   *)
(* Counters that return to 0, and those of copies that come late, can be    *)
(* told apart only as far as the distances of calculateDiff reach.          *)

\* Less than a whole range of counters is sent, the sender of a session without
\* rollover (and an unencrypted one) does not get to its end, and a copy is not
\* overtaken by more messages than calculateDiff can count backwards.
WithinReach ==
    /\ PeerMax = MaxCounter /\ MaxCounter = 2 * HalfRange - 2 /\ Window < HalfRange
    /\ MaxSent + Window <= MaxCounter + 1
    /\ \A v \in Variants \ {"EncryptedWithRollover"} :
          \A c \in FirstCounters[v] : c + MaxSent <= PeerMax
    /\ MaxDelay["EncryptedWithRollover"] <= HalfRange
    /\ MaxDelay["UnencryptedWithRollover"] <= Window + 1

\* The counter of the k-th message
Place(first, k) == IF first + k <= PeerMax THEN first + k ELSE first + k - PeerMax - 1

Placed(first) ==
    /\ Len(sent) <= MaxSent /\ counter = Place(first, Len(sent))
    /\ \A k \in 1 .. Len(sent) : sent[k] = Place(first, k)

\* new is the newest message delivered.  What was delivered has its bit while the
\* window reaches it; without a full shift, the bits are those of the delivered
\* messages and of everything before the first one delivered, low.
Noted(new, low) ==
    IF max = Undefined
    THEN \A k \in 1 .. Len(sent) : delivered[k] = 0
    ELSE /\ new \in 1 .. Len(sent) /\ low \in 1 .. new
         /\ sent[new] = max /\ delivered[new] > 0
         /\ \A j \in 1 .. Len(sent) : delivered[j] > 0 =>
               j <= new /\ (new - j \in 1 .. Window => new - j \in bitmap)
         /\ ~fullShift =>
               /\ \A j \in 1 .. Len(sent) : delivered[j] > 0 => low <= j
               /\ \A o \in 1 .. Window :
                     /\ new - o < low => o \in bitmap
                     /\ o \in bitmap /\ low <= new - o => delivered[new - o] > 0

Ordered ==
    /\ TypeOK /\ DeliveredAtMostOnce
    /\ \E first \in FirstCounters[variant], new, low \in Int : Placed(first) /\ Noted(new, low)

\* calculateDiff is the distance in the order of sending, or refuses.
LEMMA Distance ==
    ASSUME WithinReach, variant \in Variants, NEW first \in FirstCounters[variant],
           NEW m \in 1 .. MaxSent, NEW k \in 1 .. MaxSent
    PROVE  LET d == Diff(Place(first, m), Place(first, k))
           IN  /\ Place(first, k) \in 0 .. MaxCounter
               /\ Place(first, k) = Place(first, m) => k = m
               /\ k <= m /\ (m - k <= Window \/ m - k < MaxDelay[variant]) => d = k - m
               /\ m < k => d = k - m \/ (d < -Window /\ k - m > HalfRange - 2)
  <1>0. /\ MaxCounter \in Nat /\ Window \in Nat \ {0} /\ HalfRange \in Nat /\ MaxSent \in Nat
        /\ first \in 0 .. PeerMax /\ PeerMax = MaxCounter /\ MaxCounter = 2 * HalfRange - 2
        /\ MaxSent + Window <= MaxCounter + 1 /\ Window < HalfRange
        /\ MaxDelay[variant] \in Nat /\ k \in Nat /\ m \in Nat /\ k >= 1 /\ m >= 1
        /\ k <= MaxSent /\ m <= MaxSent
    BY ConstantsAssumption DEF WithinReach
  <1> DEFINE p == Place(first, m)
             q == Place(first, k)
  <1>1. /\ p = first + m \/ (p = first + m - MaxCounter - 1 /\ first + m > MaxCounter)
        /\ q = first + k \/ (q = first + k - MaxCounter - 1 /\ first + k > MaxCounter)
        /\ p \in 0 .. MaxCounter /\ q \in 0 .. MaxCounter
    BY <1>0 DEF Place
  <1> HIDE DEF p, q
  <1>2. q = p => k = m
    BY <1>0, <1>1
  <1>3. CASE variant = "EncryptedWithRollover"
    <2>1. Diff(p, q) = RolloverDiff(p, q) /\ MaxDelay[variant] <= HalfRange
      BY <1>3 DEF Diff, WithinReach
    <2>2. RolloverDiff(p, q) = IF q - p >= HalfRange THEN q - p - MaxCounter - 1
                               ELSE IF q - p < -HalfRange THEN q - p + MaxCounter + 1 ELSE q - p
      BY <1>0, <1>1 DEF RolloverDiff
    <2>3. k <= m /\ (m - k <= Window \/ m - k < MaxDelay[variant]) => Diff(p, q) = k - m
      BY <1>0, <1>1, <2>1, <2>2
    <2>4. m < k => Diff(p, q) = k - m \/ (Diff(p, q) < -Window /\ k - m > HalfRange - 2)
      BY <1>0, <1>1, <2>1, <2>2
    <2> QED  BY <1>1, <1>2, <2>3, <2>4 DEF p, q
  <1>4. CASE variant # "EncryptedWithRollover"
    <2>1. p = first + m /\ q = first + k
      <3>1. first + MaxSent <= PeerMax
        BY <1>4 DEF WithinReach
      <3> QED  BY <1>0, <1>1, <3>1
    <2>2. CASE variant = "EncryptedWithoutRollover"
      <3>1. Diff(p, q) = k - m
        BY <1>0, <2>1, <2>2 DEF Diff, PlainDiff
      <3> QED  BY <1>1, <1>2, <3>1 DEF p, q
    <2>3. CASE variant = "UnencryptedWithRollover"
      <3>1. Diff(p, q) = UnencryptedDiff(p, q) /\ MaxDelay[variant] <= Window + 1
        BY <2>3 DEF Diff, WithinReach
      <3>2. UnencryptedDiff(p, q) =
              IF q - p > 0 /\ MaxCounter - (q - p) < Window THEN q - p - MaxCounter - 1
              ELSE IF q - p < -Window THEN MaxCounter + (q - p) ELSE q - p
        BY <1>0, <1>1 DEF UnencryptedDiff
      <3>3. q - p = k - m /\ ~(q - p > 0 /\ MaxCounter - (q - p) < Window)
        BY <1>0, <2>1
      <3>4. k <= m /\ (m - k <= Window \/ m - k < MaxDelay[variant]) => Diff(p, q) = k - m
        BY <1>0, <3>1, <3>2, <3>3
      <3>5. m < k => Diff(p, q) = k - m
        BY <1>0, <3>1, <3>2, <3>3
      <3> QED  BY <1>1, <1>2, <3>4, <3>5 DEF p, q
    <2> QED  BY <1>4, <2>2, <2>3 DEF Variants
  <1> QED  BY <1>3, <1>4

LEMMA OrderedInit == ASSUME WithinReach, Init PROVE Ordered
  <1>1. TypeOK /\ DeliveredAtMostOnce /\ Len(sent) = 0
    <2>1. /\ sent \in Seq(0 .. PeerMax) /\ delivered \in Seq(Nat)
          /\ Len(sent) = 0 /\ Len(delivered) = 0
      BY DEF Init
    <2>2. TypeOK
      BY <2>1, ConstantsAssumption DEF Init, TypeOK
    <2> QED  BY <2>1, <2>2 DEF DeliveredAtMostOnce
  <1>2. counter \in FirstCounters[variant] /\ counter \in 0 .. PeerMax
    BY ConstantsAssumption DEF Init
  <1>3. Placed(counter)
    BY <1>1, <1>2, ConstantsAssumption DEF Placed, Place
  <1>4. Noted(0, 0)
    BY <1>1 DEF Noted, Init
  <1> QED  BY <1>1, <1>2, <1>3, <1>4 DEF Ordered

\* Sending takes the next place, and nothing that was delivered changes.
LEMMA OrderedSend == ASSUME WithinReach, Ordered, Send PROVE Ordered'
  <1>1. PICK first \in FirstCounters[variant], new \in Int, low \in Int :
             Placed(first) /\ Noted(new, low)
    BY DEF Ordered
  <1>2. /\ TypeOK /\ DeliveredAtMostOnce /\ first \in 0 .. PeerMax /\ PeerMax \in Nat
        /\ MaxSent \in Nat /\ MaxSent <= PeerMax /\ Window \in Nat \ {0}
    <2>1. first \in 0 .. PeerMax
      BY <1>1, ConstantsAssumption DEF Ordered, TypeOK
    <2> QED  BY <2>1, ConstantsAssumption DEF Ordered, WithinReach
  <1>3. counter' \in 0 .. PeerMax /\ expiring' \in BOOLEAN
    BY <1>2 DEF Send, TypeOK
  <1>4. /\ sent' \in Seq(0 .. PeerMax) /\ delivered' \in Seq(Nat)
        /\ Len(sent') = Len(sent) + 1 /\ Len(delivered') = Len(delivered) + 1
        /\ Len(sent) \in Nat /\ Len(delivered) = Len(sent) /\ Len(sent) < MaxSent
    BY <1>2, <1>3 DEF Send, TypeOK
  <1>5. /\ \A j \in 1 .. Len(sent) : sent'[j] = sent[j] /\ delivered'[j] = delivered[j]
        /\ sent'[Len(sent')] = counter' /\ delivered'[Len(sent')] = 0
    BY <1>2, <1>3, <1>4 DEF Send, TypeOK
  <1>6. TypeOK' /\ DeliveredAtMostOnce'
    <2>1. TypeOK'
      BY <1>2, <1>3, <1>4 DEF Send, TypeOK
    <2>2. ASSUME NEW j \in 1 .. Len(delivered') PROVE delivered'[j] <= 1
      <3>1. CASE j \in 1 .. Len(sent)
        BY <1>2, <1>4, <1>5, <3>1 DEF DeliveredAtMostOnce
      <3>2. CASE j = Len(sent')
        BY <1>5, <3>2
      <3> QED  BY <1>4, <3>1, <3>2
    <2> QED  BY <2>1, <2>2 DEF DeliveredAtMostOnce
  <1>7. counter' = Place(first, Len(sent'))
    <2>1. counter = Place(first, Len(sent)) /\ counter' = IF counter = PeerMax THEN 0 ELSE counter + 1
      BY <1>1 DEF Placed, Send
    <2> QED  BY <1>2, <1>4, <2>1 DEF Place
  <1>8. Placed(first)'
    <2>1. \A j \in 1 .. Len(sent) : sent[j] = Place(first, j)
      BY <1>1 DEF Placed
    <2>2. \A j \in 1 .. Len(sent') : sent'[j] = Place(first, j)
      BY <1>4, <1>5, <1>7, <2>1
    <2>3. Len(sent') <= MaxSent
      BY <1>2, <1>4
    <2> QED  BY <1>7, <2>2, <2>3 DEF Placed
  <1>9. Noted(new, low)'
    <2>0. max' = max /\ bitmap' = bitmap /\ fullShift' = fullShift /\ variant' = variant
      BY DEF Send
    <2>1. CASE max = Undefined
      <3>1. \A j \in 1 .. Len(sent') : delivered'[j] = 0
        BY <1>1, <1>4, <1>5, <2>1 DEF Noted
      <3> QED  BY <2>0, <2>1, <3>1 DEF Noted
    <2>2. CASE max # Undefined
      <3>1. new \in 1 .. Len(sent) /\ low \in 1 .. new /\ sent[new] = max /\ delivered[new] > 0
        BY <1>1, <2>2 DEF Noted
      <3>2. new \in 1 .. Len(sent') /\ sent'[new] = max' /\ delivered'[new] > 0
        BY <1>4, <1>5, <2>0, <3>1
      <3>3. ASSUME NEW j \in 1 .. Len(sent'), delivered'[j] > 0
            PROVE  /\ j \in 1 .. Len(sent) /\ delivered[j] > 0
        BY <1>4, <1>5, <3>3
      <3>4. \A j \in 1 .. Len(sent') : delivered'[j] > 0 =>
               j <= new /\ (new - j \in 1 .. Window => new - j \in bitmap')
        BY <1>1, <2>0, <2>2, <3>3 DEF Noted
      <3>5. ASSUME ~fullShift'
            PROVE  /\ \A j \in 1 .. Len(sent') : delivered'[j] > 0 => low <= j
                   /\ \A o \in 1 .. Window :
                         /\ new - o < low => o \in bitmap'
                         /\ o \in bitmap' /\ low <= new - o => delivered'[new - o] > 0
        <4>1. \A j \in 1 .. Len(sent') : delivered'[j] > 0 => low <= j
          BY <1>1, <2>0, <2>2, <3>3, <3>5 DEF Noted
        <4>2. ASSUME NEW o \in 1 .. Window
              PROVE  /\ new - o < low => o \in bitmap'
                     /\ o \in bitmap' /\ low <= new - o => delivered'[new - o] > 0
          <5>1. /\ new - o < low => o \in bitmap
                /\ o \in bitmap /\ low <= new - o => delivered[new - o] > 0
            BY <1>1, <2>0, <2>2, <3>5 DEF Noted
          <5>2. low <= new - o => new - o \in 1 .. Len(sent)
            BY <1>2, <1>4, <3>1
          <5> QED  BY <1>5, <2>0, <5>1, <5>2
        <4> QED  BY <4>1, <4>2
      <3> QED  BY <2>0, <2>2, <3>1, <3>2, <3>4, <3>5 DEF Noted
    <2> QED  BY <2>1, <2>2
  <1> QED
    <2>1. variant' = variant
      BY DEF Send
    <2> QED  BY <1>1, <1>6, <1>8, <1>9, <2>1 DEF Ordered

\* Without a full shift, a bit of the moved bitmap is the former maximum's or one
\* of those there were (calculateMessageCounterBitmap).
LEMMA MovedBitmapExact ==
    ASSUME NEW bits \in SUBSET (1 .. Window), NEW d \in Int, d > 0, d # Window,
           NEW o \in MovedBitmap(bits, d)
    PROVE  d < Window /\ o \in 1 .. Window /\ (o = d \/ o - d \in bits)
  <1>1. Window \in Nat \ {0}
    BY ConstantsAssumption
  <1>2. CASE d > Window
    BY <1>1, <1>2 DEF MovedBitmap
  <1>3. CASE d < Window
    <2>1. MovedBitmap(bits, d) = ShiftLeft(bits, d) \cup {d}
      BY <1>1, <1>3 DEF MovedBitmap
    <2>2. o # d => o \in 1 .. Window /\ \E i \in bits : o = i + d
      BY <1>1, <1>3, <2>1 DEF ShiftLeft, ShiftDistance
    <2> QED  BY <1>1, <1>3, <2>2
  <1> QED  BY <1>1, <1>2, <1>3

\* An accepted copy was not delivered before, and its distance to the maximum is
\* the number of messages sent in between.
LEMMA AcceptedIsNew ==
    ASSUME WithinReach, TypeOK, max # Undefined,
           NEW first \in FirstCounters[variant], NEW new \in Int, NEW low \in Int,
           Placed(first), Noted(new, low), NEW k \in InTransit, Accept(k)
    PROVE  /\ Diff(max, sent[k]) = k - new /\ k # new /\ k - new >= -Window
           /\ k < new => new - k \notin bitmap
           /\ delivered[k] = 0
  <1>1. /\ k \in 1 .. Len(sent) /\ new \in 1 .. Len(sent) /\ new - k < MaxDelay[variant]
        /\ Len(sent) <= MaxSent /\ Len(sent) \in Nat /\ MaxSent \in Nat
        /\ Window \in Nat \ {0} /\ variant \in Variants /\ MaxDelay[variant] \in Nat
        /\ delivered[k] \in Nat
    <2>1. /\ variant \in Variants /\ MaxDelay[variant] \in Nat /\ Len(sent) \in Nat
          /\ MaxSent \in Nat /\ Window \in Nat \ {0}
      BY ConstantsAssumption DEF TypeOK
    <2>2. k \in 1 .. Len(sent) /\ k + MaxDelay[variant] > Len(sent)
      BY DEF InTransit
    <2>3. delivered[k] \in Nat
      BY <2>2 DEF TypeOK
    <2>4. new \in 1 .. Len(sent) /\ Len(sent) <= MaxSent
      BY DEF Noted, Placed
    <2> QED  BY <2>1, <2>2, <2>3, <2>4
  <1>2. /\ max = Place(first, new) /\ sent[k] = Place(first, k)
        /\ k \in 1 .. MaxSent /\ new \in 1 .. MaxSent
    BY <1>1 DEF Noted, Placed
  <1>3. /\ k <= new => Diff(max, sent[k]) = k - new
        /\ new < k => Diff(max, sent[k]) = k - new \/ Diff(max, sent[k]) < -Window
    BY <1>1, <1>2, Distance
  <1>4. /\ sent[k] # max /\ ~(Diff(max, sent[k]) < -Window)
        /\ ~(Diff(max, sent[k]) < 0 /\ -Diff(max, sent[k]) \in bitmap)
    BY DEF Accept, IsAccepted, IsDuplicate
  <1>5. Diff(max, sent[k]) = k - new /\ k # new /\ k - new >= -Window
    BY <1>1, <1>2, <1>3, <1>4
  <1>6. k < new => new - k \notin bitmap
    BY <1>1, <1>4, <1>5
  <1>7. delivered[k] > 0 => k <= new /\ (new - k \in 1 .. Window => new - k \in bitmap)
    BY <1>1 DEF Noted
  <1> QED  BY <1>1, <1>5, <1>6, <1>7

\* The newest message delivered and the window below it after a copy of k passed:
\* in front of the window, it becomes the newest one.
LEMMA NotedForward ==
    ASSUME TypeOK, max # Undefined, NEW new \in Int, NEW low \in Int, Noted(new, low),
           NEW k \in 1 .. Len(sent), k > new, Diff(max, sent[k]) = k - new, Accept(k)
    PROVE  Noted(k, low)'
  <1> DEFINE d == k - new
  <1>1. /\ new \in 1 .. Len(sent) /\ low \in 1 .. new /\ d \in Int /\ d > 0 /\ k = new + d
        /\ Window \in Nat \ {0} /\ Len(sent) \in Nat /\ bitmap \in SUBSET (1 .. Window)
    BY ConstantsAssumption DEF Noted, TypeOK
  <1>2. /\ max' = sent[k] /\ bitmap' = MovedBitmap(bitmap, d)
        /\ (fullShift' <=> fullShift \/ d = Window) /\ sent' = sent
    BY <1>1 DEF Accept, UpdateWindow
  <1> HIDE DEF d
  <1>3. /\ d \in 1 .. Window => d \in bitmap'
        /\ \A i \in bitmap : i + d <= Window => i + d \in bitmap'
    <2>1. d # 0 /\ d >= -Window
      BY <1>1
    <2> QED  BY <1>1, <1>2, <2>1, MovedBitmapRecords
  <1>4. /\ delivered' \in Seq(Nat) /\ Len(delivered') = Len(sent) /\ delivered'[k] > 0
        /\ \A j \in 1 .. Len(sent) : j # k => delivered'[j] = delivered[j]
    BY <1>1 DEF Accept, TypeOK
  <1>5. max' # Undefined
    <2>1. sent[k] \in Nat
      BY ConstantsAssumption DEF TypeOK
    <2> QED  BY <1>2, <2>1 DEF Undefined
  <1>6. ASSUME NEW j \in 1 .. Len(sent), delivered'[j] > 0
        PROVE  j <= k /\ (k - j \in 1 .. Window => k - j \in bitmap')
    <2>1. CASE j # k
      <3>1. j <= new /\ (new - j \in 1 .. Window => new - j \in bitmap)
        BY <1>4, <1>6, <2>1 DEF Noted
      <3>2. CASE j = new
        BY <1>1, <1>3, <3>2
      <3>3. CASE j < new
        BY <1>1, <1>3, <3>1, <3>3
      <3> QED  BY <1>1, <3>1, <3>2, <3>3
    <2> QED  BY <1>1, <2>1
  <1>7. ASSUME ~fullShift'
        PROVE  /\ \A j \in 1 .. Len(sent) : delivered'[j] > 0 => low <= j
               /\ \A o \in 1 .. Window :
                     /\ k - o < low => o \in bitmap'
                     /\ o \in bitmap' /\ low <= k - o => delivered'[k - o] > 0
    <2>1. ~fullShift /\ d # Window
      BY <1>2, <1>7
    <2>2. \A j \in 1 .. Len(sent) : delivered'[j] > 0 => low <= j
      <3>1. \A j \in 1 .. Len(sent) : delivered[j] > 0 => low <= j
        BY <2>1 DEF Noted
      <3>2. low <= k
        BY <1>1
      <3> QED  BY <1>4, <3>1, <3>2
    <2>3. ASSUME NEW o \in 1 .. Window, k - o < low PROVE o \in bitmap'
      <3>1. o - d \in 1 .. Window /\ new - (o - d) < low
        BY <1>1, <2>3
      <3>2. o - d \in bitmap
        BY <2>1, <3>1 DEF Noted
      <3>3. (o - d) + d = o
        BY <1>1
      <3> QED  BY <1>1, <1>3, <3>2, <3>3
    <2>4. ASSUME NEW o \in 1 .. Window, o \in bitmap', low <= k - o
          PROVE  delivered'[k - o] > 0
      <3>1. d < Window /\ (o = d \/ o - d \in bitmap)
        BY <1>1, <1>2, <2>1, <2>4, MovedBitmapExact
      <3>2. CASE o = d
        <4>1. k - o = new /\ new # k /\ delivered[new] > 0
          BY <1>1, <3>2 DEF Noted
        <4> QED  BY <1>1, <1>4, <4>1
      <3>3. CASE o - d \in bitmap
        <4>1. o - d \in 1 .. Window /\ low <= new - (o - d) /\ k - o = new - (o - d)
          BY <1>1, <2>4, <3>3
        <4>2. delivered[new - (o - d)] > 0
          BY <2>1, <3>3, <4>1 DEF Noted
        <4>3. k - o \in 1 .. Len(sent) /\ k - o # k
          BY <1>1, <2>4
        <4> QED  BY <1>4, <4>1, <4>2, <4>3
      <3> QED  BY <3>1, <3>2, <3>3
    <2> QED  BY <2>2, <2>3, <2>4
  <1>8. low \in 1 .. k
    BY <1>1
  <1> QED  BY <1>2, <1>4, <1>5, <1>6, <1>7, <1>8 DEF Noted

\* Behind the window's end, it fills its place in the window.
LEMMA NotedBackward ==
    ASSUME TypeOK, max # Undefined, NEW new \in Int, NEW low \in Int, Noted(new, low),
           NEW k \in 1 .. Len(sent), k < new, Diff(max, sent[k]) = k - new, Accept(k),
           k - new >= -Window, new - k \notin bitmap
    PROVE  Noted(new, low)'
  <1>1. /\ new \in 1 .. Len(sent) /\ low \in 1 .. new /\ new - k \in 1 .. Window
        /\ Window \in Nat \ {0} /\ Len(sent) \in Nat /\ bitmap \in SUBSET (1 .. Window)
    BY ConstantsAssumption DEF Noted, TypeOK
  <1>2. /\ max' = max /\ bitmap' = bitmap \cup {new - k}
        /\ (fullShift' <=> fullShift) /\ sent' = sent
    <2> DEFINE d == k - new
    <2>1. d \in Int /\ d < 0 /\ -d = new - k /\ d # Window
      BY <1>1
    <2>2. /\ max' = (IF d > 0 THEN sent[k] ELSE max) /\ bitmap' = MovedBitmap(bitmap, d)
          /\ fullShift' = (fullShift \/ d = Window) /\ sent' = sent
      BY DEF Accept, UpdateWindow
    <2> HIDE DEF d
    <2>3. MovedBitmap(bitmap, d) = bitmap \cup {-d}
      BY <2>1 DEF MovedBitmap
    <2>4. fullShift \in BOOLEAN
      BY DEF TypeOK
    <2> QED  BY <2>1, <2>2, <2>3, <2>4
  <1>3. /\ delivered' \in Seq(Nat) /\ Len(delivered') = Len(sent) /\ delivered'[k] > 0
        /\ \A j \in 1 .. Len(sent) : j # k => delivered'[j] = delivered[j]
    BY <1>1 DEF Accept, TypeOK
  <1>4. ASSUME NEW j \in 1 .. Len(sent), delivered'[j] > 0
        PROVE  j <= new /\ (new - j \in 1 .. Window => new - j \in bitmap')
    BY <1>1, <1>2, <1>3, <1>4 DEF Noted
  <1>5. ASSUME ~fullShift'
        PROVE  /\ \A j \in 1 .. Len(sent) : delivered'[j] > 0 => low <= j
               /\ \A o \in 1 .. Window :
                     /\ new - o < low => o \in bitmap'
                     /\ o \in bitmap' /\ low <= new - o => delivered'[new - o] > 0
    <2>1. /\ \A j \in 1 .. Len(sent) : delivered[j] > 0 => low <= j
          /\ \A o \in 1 .. Window :
                /\ new - o < low => o \in bitmap
                /\ o \in bitmap /\ low <= new - o => delivered[new - o] > 0
      BY <1>2, <1>5 DEF Noted
    <2>2. new - (new - k) = k
      BY <1>1
    <2>3. low <= k
      BY <1>1, <2>1, <2>2
    <2>4. \A j \in 1 .. Len(sent) : delivered'[j] > 0 => low <= j
      BY <1>3, <2>1, <2>3
    <2>5. ASSUME NEW o \in 1 .. Window, o \in bitmap', low <= new - o
          PROVE  delivered'[new - o] > 0
      <3>1. CASE new - o = k
        BY <1>3, <3>1
      <3>2. CASE new - o # k
        <4>1. o \in bitmap /\ new - o \in 1 .. Len(sent)
          BY <1>1, <1>2, <2>5, <3>2
        <4> QED  BY <1>3, <2>1, <2>5, <3>2, <4>1
      <3> QED  BY <3>1, <3>2
    <2> QED  BY <1>2, <2>1, <2>4, <2>5
  <1>6. new # k /\ delivered'[new] > 0 /\ sent'[new] = max'
    BY <1>1, <1>2, <1>3 DEF Noted
  <1> QED  BY <1>1, <1>2, <1>3, <1>4, <1>5, <1>6 DEF Noted

LEMMA OrderedAccept ==
    ASSUME WithinReach, Ordered, NEW k \in InTransit, Accept(k) PROVE Ordered'
  <1>1. PICK first \in FirstCounters[variant], new \in Int, low \in Int :
             Placed(first) /\ Noted(new, low)
    BY DEF Ordered
  <1>2. TypeOK /\ DeliveredAtMostOnce
    BY DEF Ordered
  <1>3. /\ k \in 1 .. Len(sent) /\ k \in Int /\ sent[k] \in 0 .. MaxCounter
        /\ Window \in Nat \ {0} /\ MaxCounter \in Nat
    BY <1>2, ConstantsAssumption DEF Accept, InTransit, IsAccepted, TypeOK
  <1>4. /\ delivered' \in Seq(Nat) /\ Len(delivered') = Len(sent)
        /\ delivered'[k] = delivered[k] + 1 /\ sent' = sent
        /\ \A j \in 1 .. Len(sent) : j # k => delivered'[j] = delivered[j]
    BY <1>2, <1>3 DEF Accept, TypeOK
  <1>5. delivered[k] = 0 /\ max' \in 0 .. MaxCounter /\ bitmap' \subseteq 1 .. Window
        /\ fullShift' \in BOOLEAN /\ \E n, l \in Int : Noted(n, l)'
    <2>1. CASE max = Undefined
      <3>1. max' = sent[k] /\ bitmap' = 1 .. Window /\ fullShift' = FALSE
        BY <2>1 DEF Accept, UpdateWindow
      <3>2. \A j \in 1 .. Len(sent) : delivered[j] = 0
        BY <1>1, <2>1 DEF Noted
      <3>3. \A j \in 1 .. Len(sent) : delivered'[j] > 0 => j = k
        BY <1>4, <3>2
      <3>4. max' # Undefined /\ delivered[k] = 0 /\ delivered'[k] > 0
        BY <1>3, <1>4, <3>1, <3>2 DEF Undefined
      <3>5. k \in 1 .. Len(sent') /\ k \in 1 .. k /\ sent'[k] = max'
        BY <1>3, <1>4, <3>1
      <3>6. \A j \in 1 .. Len(sent') : delivered'[j] > 0 =>
               /\ j <= k /\ (k - j \in 1 .. Window => k - j \in bitmap')
               /\ k <= j
        BY <1>3, <1>4, <3>1, <3>3
      <3>7. \A o \in 1 .. Window : o \in bitmap' /\ ~(k <= k - o)
        BY <1>3, <3>1
      <3>8. Noted(k, k)'
        BY <3>4, <3>5, <3>6, <3>7 DEF Noted
      <3> QED  BY <1>3, <3>1, <3>4, <3>8
    <2>2. CASE max # Undefined
      <3>1. /\ Diff(max, sent[k]) = k - new /\ k # new /\ k - new >= -Window
            /\ k < new => new - k \notin bitmap
            /\ delivered[k] = 0
        BY <1>1, <1>2, <2>2, AcceptedIsNew
      <3>2. /\ max' = (IF k - new > 0 THEN sent[k] ELSE max)
            /\ bitmap' = MovedBitmap(bitmap, k - new)
            /\ fullShift' = (fullShift \/ k - new = Window)
        BY <2>2, <3>1 DEF Accept, UpdateWindow
      <3>3. bitmap \in SUBSET (1 .. Window) /\ k - new \in Int /\ k - new # 0
        BY <1>2, <1>3, <3>1 DEF TypeOK
      <3>4. bitmap' \subseteq 1 .. Window
        BY <3>1, <3>2, <3>3, MovedBitmapRecords
      <3>5. max' \in 0 .. MaxCounter
        BY <1>2, <1>3, <2>2, <3>2 DEF TypeOK
      <3>6. k > new => Noted(k, low)'
        BY <1>1, <1>2, <1>3, <2>2, <3>1, NotedForward
      <3>7. k < new => Noted(new, low)'
        BY <1>1, <1>2, <1>3, <2>2, <3>1, NotedBackward
      <3>8. fullShift' \in BOOLEAN
        BY <3>2
      <3>9. k > new \/ k < new
        BY <1>3, <3>1
      <3> QED  BY <1>3, <3>1, <3>4, <3>5, <3>6, <3>7, <3>8, <3>9
    <2> QED  BY <2>1, <2>2
  <1>6. TypeOK'
    BY <1>2, <1>4, <1>5 DEF TypeOK, Accept
  <1>7. DeliveredAtMostOnce'
    <2>1. \A j \in 1 .. Len(sent) : delivered[j] <= 1 /\ Len(delivered) = Len(sent)
      BY <1>2 DEF TypeOK, DeliveredAtMostOnce
    <2>2. \A j \in 1 .. Len(delivered') : delivered'[j] <= 1
      BY <1>4, <1>5, <2>1
    <2> QED  BY <2>2 DEF DeliveredAtMostOnce
  <1>8. Placed(first)' /\ variant' = variant
    BY <1>1 DEF Placed, Accept
  <1> QED  BY <1>1, <1>5, <1>6, <1>7, <1>8 DEF Ordered

\* The order of delivery is kept throughout, for the three variants.
THEOREM OrderKept == ASSUME WithinReach PROVE Spec => []Ordered
  <1>1. Init => Ordered
    BY OrderedInit
  <1>2. Ordered /\ [Next]_vars => Ordered'
    <2> SUFFICES ASSUME Ordered, [Next]_vars PROVE Ordered'
      OBVIOUS
    <2>1. CASE Send
      BY <2>1, OrderedSend
    <2>2. ASSUME NEW k \in InTransit, Accept(k) PROVE Ordered'
      BY <2>2, OrderedAccept
    <2>3. CASE UNCHANGED vars
      BY <2>3 DEF vars, Ordered, TypeOK, DeliveredAtMostOnce, Placed, Noted
    <2> QED  BY <2>1, <2>2, <2>3 DEF Next, Receive, Reject
  <1> QED  BY <1>1, <1>2, PTL DEF Spec

\* No message passes the duplicate check twice, in a session of any of the three
\* kinds, when counters return to 0 too (updateMessageCounter).
THEOREM DeliversAtMostOnce == ASSUME WithinReach PROVE Spec => []DeliveredAtMostOnce
  <1>1. Ordered => DeliveredAtMostOnce
    BY DEF Ordered
  <1> QED  BY <1>1, OrderKept, PTL

\* A message newer than all accepted ones is accepted, across the end of the
\* counter range too (calculateDiff).
THEOREM AcceptsNewest == ASSUME WithinReach PROVE Spec => []NewestAccepted
  <1>1. Ordered => NewestAccepted
    <2> SUFFICES ASSUME Ordered, NEW k \in DOMAIN sent,
                        \A j \in DOMAIN sent : delivered[j] > 0 => j < k,
                        NEW i \in DOMAIN sent, delivered[i] > 0, k - i <= HalfRange - 2
                 PROVE  IsAccepted(sent[k])
      BY DEF NewestAccepted
    <2>1. PICK first \in FirstCounters[variant], new \in Int, low \in Int :
               Placed(first) /\ Noted(new, low)
      BY DEF Ordered
    <2>2. /\ TypeOK /\ DOMAIN sent = 1 .. Len(sent) /\ Len(sent) \in Nat /\ Len(sent) <= MaxSent
          /\ MaxSent \in Nat /\ HalfRange \in Nat /\ Window \in Nat \ {0} /\ variant \in Variants
      BY <2>1, ConstantsAssumption DEF Ordered, TypeOK, Placed
    <2>3. max # Undefined
      BY <2>1, <2>2 DEF Noted
    <2>4. /\ new \in 1 .. Len(sent) /\ delivered[new] > 0 /\ max = Place(first, new)
          /\ sent[k] = Place(first, k) /\ i <= new
      BY <2>1, <2>2, <2>3 DEF Noted, Placed
    <2>5. new < k /\ k - new <= HalfRange - 2 /\ new \in 1 .. MaxSent /\ k \in 1 .. MaxSent
      BY <2>2, <2>4
    <2>6. /\ Diff(max, sent[k]) = k - new /\ sent[k] # max /\ sent[k] <= MaxCounter
      <3>1. /\ Place(first, k) \in 0 .. MaxCounter
            /\ Place(first, k) = Place(first, new) => k = new
            /\ new < k => \/ Diff(Place(first, new), Place(first, k)) = k - new
                          \/ k - new > HalfRange - 2
        BY <2>2, <2>5, Distance
      <3>2. Place(first, k) <= MaxCounter
        BY <3>1, ConstantsAssumption
      <3>3. ~(k - new > HalfRange - 2) /\ k # new
        BY <2>2, <2>5
      <3> QED  BY <2>4, <2>5, <3>1, <3>2, <3>3
    <2>7. ~(k - new < -Window) /\ ~(k - new < 0)
      BY <2>2, <2>5
    <2> QED  BY <2>6, <2>7 DEF IsAccepted, IsDuplicate
  <1> QED  BY <1>1, OrderKept, PTL

\* Only a shift by exactly the window's width makes a message that never came
\* look like a duplicate (updateMessageCounter, calculateMessageCounterBitmap).
THEOREM FreshIsLostOnlyByFullShift ==
    ASSUME WithinReach PROVE Spec => []FreshLostOnlyByFullShift
  <1>1. Ordered => FreshLostOnlyByFullShift
    <2> SUFFICES ASSUME Ordered, ~fullShift, NEW k \in DOMAIN sent, NotYetStale(k)
                 PROVE  ~IsDuplicate(sent[k])
      BY DEF FreshLostOnlyByFullShift
    <2>1. PICK first \in FirstCounters[variant], new \in Int, low \in Int :
               Placed(first) /\ Noted(new, low)
      BY DEF Ordered
    <2>2. /\ TypeOK /\ DOMAIN sent = 1 .. Len(sent) /\ Len(sent) \in Nat /\ Len(sent) <= MaxSent
          /\ MaxSent \in Nat /\ Window \in Nat \ {0} /\ variant \in Variants
      BY <2>1, ConstantsAssumption DEF Ordered, TypeOK, Placed
    <2>3. PICK j \in 1 .. Len(sent) : delivered[j] > 0 /\ sent[j] = max /\ j - k \in 1 .. Window
      BY DEF NotYetStale
    <2>4. PICK i \in 1 .. k - 1 : delivered[i] > 0
      BY DEF NotYetStale
    <2>5. max # Undefined /\ delivered[k] = 0
      BY DEF NotYetStale
    <2>6. /\ new \in 1 .. Len(sent) /\ max = Place(first, new) /\ max = Place(first, j)
          /\ sent[k] = Place(first, k)
      BY <2>1, <2>2, <2>3, <2>5 DEF Noted, Placed
    <2>7. new \in 1 .. MaxSent /\ j \in 1 .. MaxSent /\ k \in 1 .. MaxSent /\ i \in 1 .. Len(sent)
      BY <2>2, <2>6
    <2>8. j = new
      BY <2>2, <2>6, <2>7, Distance
    <2>9. low <= k
      <3>1. low <= i
        BY <2>1, <2>4, <2>5, <2>7 DEF Noted
      <3> QED  BY <2>2, <3>1
    <2>10. new - k \notin bitmap
      <3>1. new - k \in bitmap /\ low <= new - (new - k) => delivered[new - (new - k)] > 0
        BY <2>1, <2>3, <2>5, <2>8 DEF Noted
      <3>2. new - (new - k) = k
        BY <2>2, <2>7
      <3> QED  BY <2>5, <2>9, <3>1, <3>2
    <2>11. k <= new /\ new - k <= Window /\ k # new
      BY <2>2, <2>3, <2>7, <2>8
    <2>12. Diff(max, sent[k]) = k - new /\ sent[k] # max
      <3>1. /\ k <= new /\ new - k <= Window =>
                  Diff(Place(first, new), Place(first, k)) = k - new
            /\ Place(first, k) = Place(first, new) => k = new
        BY <2>2, <2>7, Distance
      <3> QED  BY <2>6, <2>11, <3>1
    <2>13. ~(k - new < -Window) /\ -(k - new) = new - k
      BY <2>2, <2>7, <2>11
    <2> QED  BY <2>10, <2>12, <2>13 DEF IsDuplicate
  <1> QED  BY <1>1, OrderKept, PTL

\* An accepted copy is recorded at once, so that the next one is a duplicate, in a
\* session of any kind (updateMessageCounterAndBitmap).
THEOREM RecordsAccepted == ASSUME WithinReach PROVE Spec => AcceptedIsRecorded
  <1>1. ASSUME Ordered, Ordered', [Next]_vars
        PROVE  [\A k \in 1 .. Len(sent) :
                   delivered'[k] > delivered[k] => ~IsAccepted(sent[k])']_vars
    <2> SUFFICES ASSUME NEW k \in 1 .. Len(sent), delivered'[k] > delivered[k]
                 PROVE  ~IsAccepted(sent[k])'
      OBVIOUS
    <2>1. k \in InTransit /\ sent' = sent /\ variant' = variant /\ delivered'[k] > 0
      <3>0. delivered \in Seq(Nat) /\ Len(delivered) = Len(sent)
        BY <1>1 DEF Ordered, TypeOK
      <3>1. CASE Send
        BY <3>0, <3>1 DEF Send
      <3>2. ASSUME NEW j \in InTransit, Accept(j)
            PROVE  k \in InTransit /\ sent' = sent /\ variant' = variant /\ delivered'[k] > 0
        <4>1. j = k /\ delivered'[k] = delivered[k] + 1 /\ delivered[k] \in Nat
          BY <3>0, <3>2 DEF Accept
        <4> QED  BY <3>2, <4>1 DEF Accept
      <3>3. CASE UNCHANGED vars
        BY <3>0, <3>3 DEF vars
      <3> QED  BY <1>1, <3>1, <3>2, <3>3 DEF Next, Receive, Reject
    <2>2. PICK first \in FirstCounters[variant], new \in Int, low \in Int :
               Placed(first)' /\ Noted(new, low)'
      BY <1>1, <2>1 DEF Ordered
    <2>3. /\ sent' \in Seq(0 .. PeerMax) /\ Len(sent') \in Nat /\ Len(sent') <= MaxSent
          /\ MaxSent \in Nat /\ Window \in Nat \ {0} /\ variant \in Variants
          /\ MaxDelay[variant] \in Nat
      BY <1>1, <2>1, <2>2, ConstantsAssumption DEF Ordered, TypeOK, Placed
    <2>4. /\ max' # Undefined /\ new \in 1 .. Len(sent') /\ max' = Place(first, new)
          /\ sent'[k] = Place(first, k) /\ k <= new
          /\ new - k \in 1 .. Window => new - k \in bitmap'
      <3>1. max' # Undefined
        BY <2>1, <2>2 DEF Noted
      <3>2. new \in 1 .. Len(sent') /\ sent'[new] = max'
        BY <2>2, <3>1 DEF Noted
      <3>3. \A j \in 1 .. Len(sent') : sent'[j] = Place(first, j)
        BY <2>2 DEF Placed
      <3>4. k <= new /\ (new - k \in 1 .. Window => new - k \in bitmap')
        BY <2>1, <2>2, <3>1 DEF Noted
      <3> QED  BY <2>1, <3>1, <3>2, <3>3, <3>4
    <2>5. /\ k <= new /\ new - k < MaxDelay[variant] /\ k \in 1 .. MaxSent /\ new \in 1 .. MaxSent
      BY <2>1, <2>3, <2>4 DEF InTransit
    <2>6. Diff(Place(first, new), Place(first, k)) = k - new
      BY <2>3, <2>5, Distance
    <2>7. Diff(max, sent[k])' = k - new
      <3>1. Diff(max, sent[k])' = Diff(Place(first, new), Place(first, k))
        BY <2>1, <2>4 DEF Diff, PlainDiff, RolloverDiff, UnencryptedDiff
      <3> QED  BY <2>6, <3>1
    <2>8. CASE k = new
      <3>1. sent'[k] = max'
        BY <2>4, <2>8
      <3> QED  BY <2>4, <3>1 DEF IsAccepted, IsDuplicate
    <2>9. CASE k # new
      <3>1. k - new < -Window \/ (k - new < 0 /\ -(k - new) \in bitmap')
        <4>1. new - k \in 1 .. Window \/ new - k > Window
          BY <2>3, <2>5, <2>9
        <4>2. -(k - new) = new - k
          BY <2>3, <2>5
        <4> QED  BY <2>3, <2>4, <2>5, <4>1, <4>2
      <3> QED  BY <2>4, <2>7, <3>1 DEF IsAccepted, IsDuplicate
    <2> QED  BY <2>8, <2>9
  <1> QED  BY <1>1, OrderKept, PTL DEF Spec, AcceptedIsRecorded

=============================================================================
