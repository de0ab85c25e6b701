-------------------------- MODULE Sessions_proofs --------------------------
(***************************************************************************)
(* Proofs about sessions, channels and exchanges, for any peers, sessions  *)
(* and limits: the table of exchanges agrees with the exchanges, no        *)
(* session has more of them than its limit but for those which lost their  *)
(* place, and a session whose end is over has none that was begun before   *)
(* it, and no channel that is closed with it.                              *)
(*                                                                         *)
(* The invariants are stated of a network n, because one step goes through *)
(* several of them.                                                        *)
(***************************************************************************)
EXTENDS Sessions, FiniteSetTheorems, WellFoundedInduction, TLAPS

NetType(n) ==
    n \in [listed : SUBSET Session, swept : SUBSET Session, sweep : [Session -> SweepState],
           channels : {n.channels}, table : [Index -> Exchange \cup {Free}],
           exchanges : [Exchange -> ExchangeState \cup {Unused}]]

UnderWay(n, e) == n.exchanges[e].state \in {"open", "acking", "draining"}

(* The index waits for the sweep of session s.                             *)
Awaits(n, s, i) == n.sweep[s].on /\ n.sweep[s].index = i

(* Entries are under way, or wait for a sweep, but for those of I.         *)
EntriesAgree(n, I) ==
    \A i \in Index : n.table[i] # Free =>
        /\ n.exchanges[n.table[i]] # Unused /\ n.exchanges[n.table[i]].at = i
        /\ UnderWay(n, n.table[i]) \/ Awaits(n, n.exchanges[n.table[i]].session, i) \/ i \in I

(* Another exchange with the same index *)
Rival(n, e) ==
    \E f \in Exchange \ {e} : n.exchanges[f] # Unused /\ n.exchanges[f].at = n.exchanges[e].at

Agrees(n, I) ==
    /\ EntriesAgree(n, I)
    /\ \A e \in Exchange : UnderWay(n, e) => n.table[n.exchanges[e].at] = e \/ Rival(n, e)

Limited(n) == \A s \in Session : Cardinality(Active(n, s)) <= MaxPerSession

ClosedAt(n, i) == \E e \in Exchange : n.exchanges[e].state = "closed" /\ n.exchanges[e].at = i

(* A sweep is at an exchange of its session.  An index that waits for it   *)
(* is that of an exchange which is closed, and its session ends later.     *)
SweepsAgree(n) ==
    \A s \in Session : n.sweep[s].on =>
        /\ s \in n.swept
        /\ n.sweep[s].at # Free => /\ n.exchanges[n.sweep[s].at] # Unused
                                   /\ n.exchanges[n.sweep[s].at].session = s
        /\ n.sweep[s].index # NoIndex => s \in delayed /\ ClosedAt(n, n.sweep[s].index)

(* Places in the map are apart, but for exchanges that replaced each other.*)
Made(n) == {e \in Exchange : n.exchanges[e] # Unused}
Places(n) ==
    /\ \A e \in Made(n) : n.exchanges[e].place < Cardinality(Made(n))
    /\ \A e, f \in Made(n) : n.exchanges[e].place = n.exchanges[f].place =>
                             n.exchanges[e].at = n.exchanges[f].at

(* A closer has before it what was begun before the session left the list. *)
InOrder(n) ==
    \A s \in Session : HasCloser(n, s) /\ s \notin delayed => \A x \in Of(n, s) :
        \/ n.exchanges[x].late
        \/ /\ n.sweep[s].at # Free
           /\ n.exchanges[n.sweep[s].at].place <= n.exchanges[x].place

(* What is in the table has a session, or was begun after its end, or the  *)
(* closer will meet it; a session that was swept ends later, or has been   *)
(* established and ended.                                                  *)
Ended(n) ==
    /\ \A e \in InTable(n) :
        LET s == n.exchanges[e].session
        IN  s \in n.listed \/ s \in delayed \/ n.exchanges[e].late \/ HasCloser(n, s)
    /\ \A s \in n.listed : peer[s] # NoPeer
    /\ \A s \in n.swept : s \in delayed \/ (s \notin n.listed /\ peer[s] # NoPeer)

Rest(n) == SweepsAgree(n) /\ Places(n) /\ InOrder(n) /\ Ended(n)

NetInv(n) == NetType(n) /\ Agrees(n, {}) /\ Rest(n)

Waiting == ending \cup closing

(* An exchange to be made has a number of its own that no other has.       *)
Fresh ==
    /\ begun \in 0 .. MaxExchanges
    /\ \A e \in Exchange : e > begun => net.exchanges[e] = Unused
    /\ \A d \in Waiting : d.then # Nothing =>
        /\ d.then \in Opening /\ d.then.id <= begun
        /\ net.exchanges[d.then.id] = Unused
        /\ \A c \in Waiting : c.then # Nothing /\ c.then.id = d.then.id => c = d
    /\ \A d \in ending \cap closing : d.then = Nothing

PeerType == peer \in [Session -> Peer \cup {NoPeer}]

IInv == NetInv(net) /\ Limited(net) /\ Fresh

-----------------------------------------------------------------------------
(* Networks, one less than the other. *)

LEMMA UnusedIsNone ==
    \A x \in ExchangeState \cup {Unused} : x = Unused <=> x.state = "none"
  BY DEF ExchangeState, Unused

LEMMA UsedIsState ==
    ASSUME NEW n, NetType(n), NEW e \in Exchange, n.exchanges[e] # Unused
    PROVE  n.exchanges[e] \in ExchangeState
  BY DEF NetType

LEMMA FreeIsNoExchange == Free \notin Exchange
  BY SessionsAssumption DEF Free, Exchange

LEMMA NoIndexIsNone == NoIndex \notin Index
  BY DEF NoIndex, Index

LEMMA TableEntries ==
    ASSUME NEW n, NetType(n)
    PROVE  \A e : e \in InTable(n) <=> e \in Exchange /\ \E i \in Index : n.table[i] = e
  BY FreeIsNoExchange DEF InTable, NetType

(* The exchanges of m are those of n, some of them further on their way.   *)
Further(n, m) ==
    \A x \in Exchange :
        /\ m.exchanges[x] = Unused <=> n.exchanges[x] = Unused
        /\ m.exchanges[x].session = n.exchanges[x].session
        /\ m.exchanges[x].at = n.exchanges[x].at
        /\ m.exchanges[x].place = n.exchanges[x].place
        /\ m.exchanges[x].late <=> n.exchanges[x].late
        /\ UnderWay(m, x) => UnderWay(n, x)
        /\ m.exchanges[x].state \in {"open", "acking"} => n.exchanges[x].state \in {"open", "acking"}
        /\ n.exchanges[x].state = "closed" => m.exchanges[x].state = "closed"

(* So they are, and the table has no more than that of n.                  *)
Less(n, m) ==
    /\ NetType(m) /\ Further(n, m)
    /\ \A j \in Index : m.table[j] = n.table[j] \/ m.table[j] = Free

SameSessions(n, m) == m.listed = n.listed /\ m.swept = n.swept /\ m.sweep = n.sweep

LEMMA FewerActive ==
    ASSUME NEW n, NetType(n), NEW s, NEW A \in SUBSET Active(n, s)
    PROVE  /\ IsFiniteSet(A) /\ IsFiniteSet(Active(n, s))
           /\ Cardinality(A) <= Cardinality(Active(n, s))
           /\ Cardinality(A) \in Nat /\ Cardinality(Active(n, s)) \in Nat
  <1>1. Active(n, s) \subseteq Exchange
    BY TableEntries DEF Active, Of
  <1>2. IsFiniteSet(Exchange)
    BY FS_Interval, SessionsAssumption DEF Exchange
  <1> QED  BY <1>1, <1>2, FS_Subset, FS_CardinalityType

LEMMA LessTable ==
    ASSUME NEW n, NetType(n), NEW m, Less(n, m)
    PROVE  /\ \A x \in InTable(m) : x \in InTable(n) /\ x \in Exchange
           /\ \A s : Of(m, s) \subseteq Of(n, s) /\ Active(m, s) \subseteq Active(n, s)
           /\ Made(m) = Made(n)
           /\ \A i : ClosedAt(n, i) => ClosedAt(m, i)
           /\ \A x \in Exchange : Rival(n, x) => Rival(m, x)
  <1>1. \A x \in InTable(m) : x \in InTable(n) /\ x \in Exchange
    <2> TAKE x \in InTable(m)
    <2>1. PICK j \in Index : m.table[j] # Free /\ x = m.table[j]
      BY DEF InTable
    <2>2. x = n.table[j] /\ x \in Exchange
      BY <2>1 DEF Less, NetType
    <2> QED  BY <2>1, <2>2 DEF InTable
  <1>2. \A s : Of(m, s) \subseteq Of(n, s) /\ Active(m, s) \subseteq Active(n, s)
    BY <1>1 DEF Of, Active, Less, Further
  <1>3. Made(m) = Made(n)
    BY DEF Made, Less, Further
  <1>4. \A i : ClosedAt(n, i) => ClosedAt(m, i)
    BY DEF ClosedAt, Less, Further
  <1>5. \A x \in Exchange : Rival(n, x) => Rival(m, x)
    BY DEF Rival, Less, Further
  <1> QED  BY <1>1, <1>2, <1>3, <1>4, <1>5

(* The limit and the places depend on no more than that.                   *)
LEMMA LessKeeps ==
    ASSUME NEW n, NetType(n), NEW m, Less(n, m)
    PROVE  (Limited(n) => Limited(m)) /\ (Places(n) => Places(m))
  <1>1. ASSUME Limited(n) PROVE Limited(m)
    <2> SUFFICES ASSUME NEW s \in Session PROVE Cardinality(Active(m, s)) <= MaxPerSession
      BY DEF Limited
    <2>1. Active(m, s) \in SUBSET Active(n, s)
      BY LessTable
    <2>2. /\ Cardinality(Active(m, s)) <= Cardinality(Active(n, s))
          /\ Cardinality(Active(m, s)) \in Nat /\ Cardinality(Active(n, s)) \in Nat
      BY <2>1, FewerActive
    <2>3. Cardinality(Active(n, s)) <= MaxPerSession /\ MaxPerSession \in Nat
      BY <1>1, SessionsAssumption DEF Limited
    <2> QED  BY <2>2, <2>3
  <1>2. ASSUME Places(n) PROVE Places(m)
    <2>1. Made(m) = Made(n) /\ \A x \in Made(n) : x \in Exchange
      BY LessTable DEF Made
    <2>2. \A x \in Exchange : /\ m.exchanges[x].place = n.exchanges[x].place
                              /\ m.exchanges[x].at = n.exchanges[x].at
      BY DEF Less, Further
    <2> QED  BY <1>2, <2>1, <2>2 DEF Places
  <1> QED  BY <1>1, <1>2

LEMMA SameSessionsKeep ==
    ASSUME NEW n, NetType(n), Rest(n), NEW m, Less(n, m), SameSessions(n, m)
    PROVE  Rest(m)
  <1>0. /\ \A x \in InTable(m) : x \in InTable(n) /\ x \in Exchange
        /\ \A s : Of(m, s) \subseteq Of(n, s)
        /\ \A i : ClosedAt(n, i) => ClosedAt(m, i)
    BY LessTable
  <1>1. Places(m)
    BY LessKeeps DEF Rest
  <1>2. \A s \in Session : n.sweep[s].at \in Exchange \cup {Free}
    BY DEF NetType, SweepState
  <1>3. SweepsAgree(m)
    <2> SUFFICES ASSUME NEW s \in Session, m.sweep[s].on
                 PROVE  /\ s \in m.swept
                        /\ m.sweep[s].at # Free => /\ m.exchanges[m.sweep[s].at] # Unused
                                                   /\ m.exchanges[m.sweep[s].at].session = s
                        /\ m.sweep[s].index # NoIndex => s \in delayed /\ ClosedAt(m, m.sweep[s].index)
      BY DEF SweepsAgree
    <2>1. m.sweep = n.sweep /\ m.swept = n.swept
      BY DEF SameSessions
    <2> QED  BY <1>0, <1>2, <2>1 DEF Rest, SweepsAgree, Less, Further
  <1>4. InOrder(m)
    <2> SUFFICES ASSUME NEW s \in Session, HasCloser(m, s), s \notin delayed, NEW x \in Of(m, s)
                 PROVE  \/ m.exchanges[x].late
                        \/ /\ m.sweep[s].at # Free
                           /\ m.exchanges[m.sweep[s].at].place <= m.exchanges[x].place
      BY DEF InOrder
    <2>1. m.sweep = n.sweep /\ HasCloser(n, s)
      BY DEF SameSessions, HasCloser
    <2>2. x \in Of(n, s) /\ x \in Exchange
      BY <1>0 DEF Of
    <2>3. \/ n.exchanges[x].late
          \/ n.sweep[s].at # Free /\ n.exchanges[n.sweep[s].at].place <= n.exchanges[x].place
      BY <2>1, <2>2 DEF Rest, InOrder
    <2> QED  BY <1>2, <2>1, <2>2, <2>3 DEF Less, Further
  <1>5. Ended(m)
    BY <1>0 DEF Rest, Ended, Less, Further, SameSessions, HasCloser
  <1> QED  BY <1>1, <1>3, <1>4, <1>5 DEF Rest

(* What agrees in n agrees in m, if the table of m lacks only indices of   *)
(* exchanges that are closed.                                              *)
LEMMA LessAgrees ==
    ASSUME NEW n, NetType(n), NEW I, Agrees(n, I), NEW m, Less(n, m), m.sweep = n.sweep,
           NEW J, \A j \in Index : m.table[j] # n.table[j] => ClosedAt(m, j),
           \A j \in Index : m.table[j] # Free /\ ~UnderWay(m, m.table[j]) =>
              j \in J \/ Awaits(n, n.exchanges[m.table[j]].session, j)
    PROVE  Agrees(m, J)
  <1>1. EntriesAgree(m, J)
    <2> SUFFICES ASSUME NEW i \in Index, m.table[i] # Free
                 PROVE  /\ m.exchanges[m.table[i]] # Unused /\ m.exchanges[m.table[i]].at = i
                        /\ \/ UnderWay(m, m.table[i]) \/ i \in J
                           \/ Awaits(m, m.exchanges[m.table[i]].session, i)
      BY DEF EntriesAgree
    <2>1. m.table[i] = n.table[i] /\ n.table[i] \in Exchange
      BY DEF Less, NetType
    <2>2. n.exchanges[n.table[i]] # Unused /\ n.exchanges[n.table[i]].at = i
      BY <2>1 DEF Agrees, EntriesAgree
    <2>3. Awaits(n, n.exchanges[n.table[i]].session, i) <=> Awaits(m, m.exchanges[m.table[i]].session, i)
      <3>1. m.exchanges[m.table[i]].session = n.exchanges[n.table[i]].session
        BY <2>1 DEF Less, Further
      <3>2. \A s : Awaits(m, s, i) <=> Awaits(n, s, i)
        BY DEF Awaits
      <3> QED  BY <2>1, <3>1, <3>2
    <2> QED  BY <2>1, <2>2, <2>3 DEF Less, Further
  <1>2. ASSUME NEW x \in Exchange, UnderWay(m, x)
        PROVE  m.table[m.exchanges[x].at] = x \/ Rival(m, x)
    <2>1. UnderWay(n, x) /\ m.exchanges[x].at = n.exchanges[x].at
      BY <1>2 DEF Less, Further
    <2>2. n.exchanges[x].at \in Index
      <3>1. n.exchanges[x] # Unused
        BY <2>1 DEF UnderWay, Unused
      <3> QED  BY <3>1, UsedIsState DEF ExchangeState
    <2>3. CASE Rival(n, x)
      BY <2>3, LessTable
    <2>4. CASE n.table[n.exchanges[x].at] = x /\ m.table[n.exchanges[x].at] = n.table[n.exchanges[x].at]
      BY <2>1, <2>4
    <2>5. CASE m.table[n.exchanges[x].at] # n.table[n.exchanges[x].at]
      <3>1. PICK e \in Exchange : m.exchanges[e].state = "closed" /\ m.exchanges[e].at = n.exchanges[x].at
        BY <2>2, <2>5 DEF ClosedAt
      <3>2. e # x /\ m.exchanges[e] # Unused
        BY <1>2, <3>1 DEF UnderWay, Unused
      <3> QED  BY <2>1, <3>1, <3>2 DEF Rival
    <2> QED  BY <2>1, <2>3, <2>4, <2>5 DEF Agrees
  <1> QED  BY <1>1, <1>2 DEF Agrees

-----------------------------------------------------------------------------
(* Closing exchanges. *)

(* The state of an exchange moves on. *)
LEMMA StateMoves ==
    ASSUME NEW n, NetType(n), NEW e \in Exchange, n.exchanges[e] # Unused,
           NEW t \in {"draining", "closed"},
           t = "draining" => n.exchanges[e].state \in {"open", "acking"}
    PROVE  LET m == [n EXCEPT !.exchanges[e].state = t]
           IN  /\ Less(n, m) /\ SameSessions(n, m) /\ m.table = n.table
               /\ m.exchanges[e].state = t
               /\ \A x \in Exchange \ {e} : m.exchanges[x] = n.exchanges[x]
  <1> DEFINE y == [n.exchanges[e] EXCEPT !.state = t]
             X == [n.exchanges EXCEPT ![e] = y]
             m == [n EXCEPT !.exchanges[e].state = t]
  <1>1. n.exchanges[e] \in ExchangeState
    BY UsedIsState
  <1>2. /\ y \in ExchangeState /\ y.state = t /\ y # Unused
        /\ y.session = n.exchanges[e].session /\ y.at = n.exchanges[e].at
        /\ y.place = n.exchanges[e].place /\ y.late = n.exchanges[e].late
    BY <1>1 DEF ExchangeState, Unused
  <1>3. m = [n EXCEPT !.exchanges = X]
    BY DEF NetType
  <1> HIDE DEF y
  <1>4. X \in [Exchange -> ExchangeState \cup {Unused}]
        /\ X[e] = y /\ \A x \in Exchange \ {e} : X[x] = n.exchanges[x]
    BY <1>2 DEF NetType
  <1> HIDE DEF X, m
  <1>5. /\ NetType(m) /\ m.exchanges = X /\ m.table = n.table
        /\ m.listed = n.listed /\ m.swept = n.swept /\ m.sweep = n.sweep
    BY <1>3, <1>4 DEF NetType
  <1>6. Further(n, m)
    <2> SUFFICES ASSUME NEW x \in Exchange
                 PROVE  /\ m.exchanges[x] = Unused <=> n.exchanges[x] = Unused
                        /\ m.exchanges[x].session = n.exchanges[x].session
                        /\ m.exchanges[x].at = n.exchanges[x].at
                        /\ m.exchanges[x].place = n.exchanges[x].place
                        /\ m.exchanges[x].late <=> n.exchanges[x].late
                        /\ UnderWay(m, x) => UnderWay(n, x)
                        /\ m.exchanges[x].state \in {"open", "acking"} =>
                              n.exchanges[x].state \in {"open", "acking"}
                        /\ n.exchanges[x].state = "closed" => m.exchanges[x].state = "closed"
      BY DEF Further
    <2>1. CASE x = e
      BY <1>2, <1>4, <1>5, <2>1 DEF UnderWay
    <2>2. CASE x # e
      BY <1>4, <1>5, <2>2 DEF UnderWay
    <2> QED  BY <2>1, <2>2
  <1> QED  BY <1>2, <1>4, <1>5, <1>6 DEF Less, SameSessions, m

LEMMA ClosedKeeps ==
    ASSUME NEW n, NetInv(n), NEW e \in Exchange, n.exchanges[e] # Unused
    PROVE  LET m == Closed(n, e)
           IN  /\ NetType(m) /\ Agrees(m, {n.exchanges[e].at}) /\ Rest(m)
               /\ Less(n, m) /\ SameSessions(n, m) /\ m.table = n.table
               /\ m.exchanges[e].state = "closed"
  <1> DEFINE m == Closed(n, e)
  <1>0. NetType(n) /\ Agrees(n, {}) /\ Rest(n)
    BY DEF NetInv
  <1>1. /\ Less(n, m) /\ SameSessions(n, m) /\ m.table = n.table
        /\ m.exchanges[e].state = "closed"
        /\ \A x \in Exchange \ {e} : m.exchanges[x] = n.exchanges[x]
    BY <1>0, StateMoves DEF Closed
  <1> HIDE DEF m
  <1>2. Rest(m) /\ NetType(m)
    BY <1>0, <1>1, SameSessionsKeep DEF Less
  <1>3. \A j \in Index : m.table[j] # Free /\ ~UnderWay(m, m.table[j]) =>
            j = n.exchanges[e].at \/ Awaits(n, n.exchanges[m.table[j]].session, j)
    <2> SUFFICES ASSUME NEW j \in Index, n.table[j] # Free, ~UnderWay(m, n.table[j])
                 PROVE  j = n.exchanges[e].at \/ Awaits(n, n.exchanges[n.table[j]].session, j)
      BY <1>1
    <2>1. n.table[j] \in Exchange /\ n.exchanges[n.table[j]].at = j
          /\ (UnderWay(n, n.table[j]) \/ Awaits(n, n.exchanges[n.table[j]].session, j))
      BY <1>0 DEF Agrees, EntriesAgree, NetType
    <2>2. CASE n.table[j] = e
      BY <2>1, <2>2
    <2>3. CASE n.table[j] # e
      BY <1>1, <2>1, <2>3 DEF UnderWay
    <2> QED  BY <2>2, <2>3
  <1>4. Agrees(m, {n.exchanges[e].at})
    <2> DEFINE J == {n.exchanges[e].at}
    <2>1. \A j \in Index : m.table[j] # Free /\ ~UnderWay(m, m.table[j]) =>
              j \in J \/ Awaits(n, n.exchanges[m.table[j]].session, j)
      BY <1>3
    <2>2. m.sweep = n.sweep /\ \A j \in Index : m.table[j] # n.table[j] => ClosedAt(m, j)
      BY <1>1 DEF SameSessions
    <2> HIDE DEF J
    <2>3. Agrees(m, J)
      BY <1>0, <1>1, <2>1, <2>2, LessAgrees
    <2> QED  BY <2>3 DEF J
  <1> QED  BY <1>1, <1>2, <1>4 DEF m

(* An index of an exchange that is closed is freed. *)
LEMMA RemovedKeeps ==
    ASSUME NEW n, NetType(n), NEW i, Agrees(n, {i}), Rest(n), ClosedAt(n, i)
    PROVE  LET m == Removed(n, {i})
           IN  /\ NetInv(m) /\ Less(n, m) /\ SameSessions(n, m) /\ m.exchanges = n.exchanges
               /\ \A j \in Index : m.table[j] = IF j = i THEN Free ELSE n.table[j]
  <1> DEFINE X == [j \in Index |-> IF j \in {i} THEN Free ELSE n.table[j]]
             m == Removed(n, {i})
  <1>1. X \in [Index -> Exchange \cup {Free}]
    BY DEF NetType
  <1>2. m = [n EXCEPT !.table = X]
    BY DEF Removed
  <1>3. \A j \in Index : X[j] = IF j = i THEN Free ELSE n.table[j]
    OBVIOUS
  <1> HIDE DEF X, m
  <1>4. /\ m.table = X /\ m.exchanges = n.exchanges /\ NetType(m)
        /\ m.listed = n.listed /\ m.swept = n.swept /\ m.sweep = n.sweep
    BY <1>1, <1>2 DEF NetType
  <1>5. Less(n, m) /\ SameSessions(n, m)
    BY <1>3, <1>4 DEF Less, Further, SameSessions, UnderWay
  <1>6. Rest(m)
    BY <1>5, SameSessionsKeep
  <1>7. Agrees(m, {})
    <2>1. \A j \in Index : m.table[j] # n.table[j] => ClosedAt(m, j)
      BY <1>3, <1>4 DEF ClosedAt
    <2>2. \A j \in Index : m.table[j] # Free /\ ~UnderWay(m, m.table[j]) =>
              j \in {} \/ Awaits(n, n.exchanges[m.table[j]].session, j)
      BY <1>3, <1>4 DEF Agrees, EntriesAgree, UnderWay
    <2> QED  BY <1>4, <1>5, <2>1, <2>2, LessAgrees
  <1> QED  BY <1>3, <1>4, <1>5, <1>6, <1>7 DEF NetInv, m

(* The first of some exchanges is one of them, and none is before it. *)
LEMMA LeastPlace ==
    ASSUME NEW T \in SUBSET Nat, T # {}
    PROVE  \E x \in T : \A y \in T : x <= y
  <1> DEFINE R == OpToRel(<, Nat)
  <1>1. IsWellFoundedOn(R, Nat)
    BY NatLessThanWellFounded
  <1>2. \A x, y \in Nat : <<y, x>> \in R <=> y < x
    BY DEF OpToRel
  <1> HIDE DEF R
  <1>3. PICK x \in T : \A y \in T : ~(<<y, x>> \in R)
    BY <1>1, WFMin
  <1>4. ASSUME NEW y \in T PROVE x <= y
    <2>1. x \in Nat /\ y \in Nat
      OBVIOUS
    <2>2. ~(y < x)
      BY <1>2, <1>3, <2>1
    <2> QED  BY <2>1, <2>2
  <1> QED  BY <1>4

LEMMA FirstIsFirst ==
    ASSUME NEW n, NetType(n), NEW E \in SUBSET Made(n), E # {}
    PROVE  /\ First(n, E) \in E
           /\ \A f \in E : n.exchanges[First(n, E)].place <= n.exchanges[f].place
  <1> DEFINE T == {n.exchanges[e].place : e \in E}
  <1>1. \A e \in E : n.exchanges[e].place \in Nat
    <2> TAKE e \in E
    <2>1. e \in Exchange /\ n.exchanges[e] # Unused
      BY DEF Made
    <2> QED  BY <2>1, UsedIsState DEF ExchangeState
  <1>2. T \in SUBSET Nat /\ T # {}
    BY <1>1
  <1>3. PICK x \in T : \A y \in T : x <= y
    BY <1>2, LeastPlace
  <1>4. \E e \in E : \A f \in E : n.exchanges[e].place <= n.exchanges[f].place
    BY <1>3
  <1> QED  BY <1>4 DEF First

LEMMA OfMade ==
    ASSUME NEW n, NetType(n), NEW I, EntriesAgree(n, I), NEW s
    PROVE  Of(n, s) \subseteq Made(n) /\ Active(n, s) \subseteq Made(n)
  BY TableEntries, FreeIsNoExchange DEF Of, Active, Made, EntriesAgree, NetType

(* A sweep begins or goes on: at the next of the exchanges it has to meet. *)
LEMMA FirstOfIs ==
    ASSUME NEW n, NetType(n), NEW I, EntriesAgree(n, I), NEW s, NEW E \in SUBSET Of(n, s)
    PROVE  /\ FirstOf(n, s, E) \in Exchange \cup {Free}
           /\ FirstOf(n, s, E) # Free => /\ FirstOf(n, s, E) \in E
                                         /\ n.exchanges[FirstOf(n, s, E)] # Unused
                                         /\ n.exchanges[FirstOf(n, s, E)].session = s
           /\ \A x \in E : /\ FirstOf(n, s, E) # Free
                           /\ n.exchanges[FirstOf(n, s, E)].place <= n.exchanges[x].place
  <1>1. E \in SUBSET Made(n)
    BY OfMade
  <1>2. CASE E = {}
    BY <1>2 DEF FirstOf
  <1>3. CASE E # {}
    <2>1. /\ First(n, E) \in E
          /\ \A f \in E : n.exchanges[First(n, E)].place <= n.exchanges[f].place
      BY <1>1, <1>3, FirstIsFirst
    <2>2. First(n, E) \in Exchange /\ n.exchanges[First(n, E)] # Unused
          /\ n.exchanges[First(n, E)].session = s
      BY <1>1, <2>1 DEF Made, Of
    <2>3. FirstOf(n, s, E) = First(n, E)
      BY <1>3 DEF FirstOf
    <2> QED  BY <2>1, <2>2, <2>3, FreeIsNoExchange
  <1> QED  BY <1>2, <1>3


(* The sweep of session s begins or goes on, those of S having begun.      *)
Sweeping(n, S, s, w) == [n EXCEPT !.swept = S, !.sweep[s] = w]

LEMMA SweepType ==
    ASSUME NEW n, NetType(n), NEW s \in Session, NEW w \in SweepState, NEW S \in SUBSET Session
    PROVE  LET m == Sweeping(n, S, s, w)
           IN  /\ NetType(m) /\ Less(n, m) /\ m.table = n.table /\ m.exchanges = n.exchanges
               /\ m.listed = n.listed /\ m.swept = S
               /\ m.sweep[s] = w /\ \A r \in Session \ {s} : m.sweep[r] = n.sweep[r]
  <1> DEFINE W == [n.sweep EXCEPT ![s] = w]
             m == Sweeping(n, S, s, w)
  <1>1. m = [n EXCEPT !.swept = S, !.sweep = W]
    BY DEF Sweeping, NetType
  <1>2. /\ W \in [Session -> SweepState]
        /\ W[s] = w /\ \A r \in Session \ {s} : W[r] = n.sweep[r]
    BY DEF NetType
  <1> HIDE DEF W, m
  <1>3. /\ NetType(m) /\ m.table = n.table /\ m.exchanges = n.exchanges
        /\ m.listed = n.listed /\ m.swept = S /\ m.sweep = W
    BY <1>1, <1>2 DEF NetType
  <1>4. Less(n, m)
    BY <1>3 DEF Less, Further, UnderWay
  <1> QED  BY <1>2, <1>3, <1>4 DEF m

(* The table stays, and the sweeps do, but for that of one session.        *)
LEMMA SameTable ==
    ASSUME NEW n, NetType(n), NEW m, m.table = n.table, m.exchanges = n.exchanges
    PROVE  /\ InTable(m) = InTable(n) /\ Made(m) = Made(n)
           /\ \A r : Of(m, r) = Of(n, r) /\ Active(m, r) = Active(n, r)
           /\ \A i : ClosedAt(m, i) <=> ClosedAt(n, i)
           /\ \A x : (UnderWay(m, x) <=> UnderWay(n, x)) /\ (Rival(m, x) <=> Rival(n, x))
           /\ (Limited(m) <=> Limited(n)) /\ (Places(m) <=> Places(n))
  <1>1. InTable(m) = InTable(n) /\ Made(m) = Made(n)
    BY DEF InTable, Made
  <1>2. \A r : Of(m, r) = Of(n, r) /\ Active(m, r) = Active(n, r)
    BY <1>1 DEF Of, Active
  <1>3. /\ \A i : ClosedAt(m, i) <=> ClosedAt(n, i)
        /\ \A x : (UnderWay(m, x) <=> UnderWay(n, x)) /\ (Rival(m, x) <=> Rival(n, x))
    BY DEF ClosedAt, UnderWay, Rival
  <1> QED  BY <1>1, <1>2, <1>3 DEF Limited, Places

(* The sweep of session s may be w, those of S having begun, when it has   *)
(* met what it has to and only the indices of J are awaited no more.       *)
MaySweep(n, S, s, w, J) ==
    /\ s \in Session /\ w \in SweepState /\ S \in SUBSET Session
    /\ n.swept \subseteq S /\ \A r \in S : r \in delayed \/ (r \notin n.listed /\ peer[r] # NoPeer)
    /\ \A j \in Index \ J : Awaits(n, s, j) => w.on /\ w.index = j
    /\ w.on => /\ s \in S
               /\ w.at # Free => n.exchanges[w.at] # Unused /\ n.exchanges[w.at].session = s
               /\ w.index # NoIndex => s \in delayed /\ ClosedAt(n, w.index)
    /\ w.on /\ w.index = NoIndex /\ s \notin delayed => \A x \in Of(n, s) :
            \/ n.exchanges[x].late
            \/ w.at # Free /\ n.exchanges[w.at].place <= n.exchanges[x].place
    /\ \A x \in Of(n, s) :
            \/ s \in n.listed \/ s \in delayed \/ n.exchanges[x].late
            \/ w.on /\ w.index = NoIndex

LEMMA SweepKeeps ==
    ASSUME NEW n, NetType(n), NEW I, Agrees(n, I), SweepsAgree(n), Places(n), InOrder(n),
           NEW S, NEW s, NEW w, NEW J, MaySweep(n, S, s, w, J),
           \A j \in I \ J : n.table[j] # Free =>
              n.exchanges[n.table[j]].session = s /\ w.on /\ w.index = j,
           \A x \in InTable(n) : LET r == n.exchanges[x].session
              IN  r = s \/ r \in n.listed \/ r \in delayed \/ n.exchanges[x].late \/ HasCloser(n, r),
           \A r \in n.listed : peer[r] # NoPeer
    PROVE  LET m == Sweeping(n, S, s, w)
           IN  /\ NetType(m) /\ Agrees(m, J) /\ Rest(m) /\ Less(n, m)
               /\ m.table = n.table /\ m.exchanges = n.exchanges /\ m.listed = n.listed
               /\ m.swept = S /\ m.sweep[s] = w /\ \A r \in Session \ {s} : m.sweep[r] = n.sweep[r]
  <1> DEFINE m == Sweeping(n, S, s, w)
  <1>1. /\ NetType(m) /\ Less(n, m) /\ m.table = n.table /\ m.exchanges = n.exchanges
        /\ m.listed = n.listed /\ m.swept = S
        /\ m.sweep[s] = w /\ \A r \in Session \ {s} : m.sweep[r] = n.sweep[r]
    BY SweepType DEF MaySweep
  <1> HIDE DEF m
  <1>2. /\ InTable(m) = InTable(n) /\ \A r : Of(m, r) = Of(n, r)
        /\ \A j : ClosedAt(m, j) <=> ClosedAt(n, j)
        /\ \A x : (UnderWay(m, x) <=> UnderWay(n, x)) /\ (Rival(m, x) <=> Rival(n, x))
        /\ Places(m)
    BY <1>1, SameTable
  <1>3. EntriesAgree(m, J)
    <2> SUFFICES ASSUME NEW j \in Index, n.table[j] # Free
                 PROVE  /\ n.exchanges[n.table[j]] # Unused /\ n.exchanges[n.table[j]].at = j
                        /\ \/ UnderWay(n, n.table[j]) \/ j \in J
                           \/ Awaits(m, n.exchanges[n.table[j]].session, j)
      BY <1>1, <1>2 DEF EntriesAgree
    <2> DEFINE r == n.exchanges[n.table[j]].session
    <2>1. /\ n.exchanges[n.table[j]] # Unused /\ n.exchanges[n.table[j]].at = j
          /\ UnderWay(n, n.table[j]) \/ Awaits(n, r, j) \/ j \in I
      BY DEF Agrees, EntriesAgree
    <2>2. r \in Session
      <3>1. n.table[j] \in Exchange
        BY DEF NetType
      <3> QED  BY <2>1, <3>1, UsedIsState DEF ExchangeState
    <2>3. j \in I \ J => r = s /\ w.on /\ w.index = j
      OBVIOUS
    <2> HIDE DEF r
    <2>4. Awaits(n, r, j) => j \in J \/ Awaits(m, r, j)
      BY <1>1, <2>2 DEF Awaits, MaySweep
    <2>5. j \in I \ J => Awaits(m, r, j)
      BY <1>1, <2>3 DEF Awaits
    <2> QED  BY <2>1, <2>4, <2>5 DEF r
  <1>4. Agrees(m, J)
    BY <1>1, <1>2, <1>3 DEF Agrees
  <1>5. SweepsAgree(m)
    <2> SUFFICES ASSUME NEW r \in Session, m.sweep[r].on
                 PROVE  /\ r \in m.swept
                        /\ m.sweep[r].at # Free => /\ m.exchanges[m.sweep[r].at] # Unused
                                                   /\ m.exchanges[m.sweep[r].at].session = r
                        /\ m.sweep[r].index # NoIndex => r \in delayed /\ ClosedAt(m, m.sweep[r].index)
      BY DEF SweepsAgree
    <2>1. CASE r = s
      BY <1>1, <1>2, <2>1 DEF MaySweep
    <2>2. CASE r # s
      BY <1>1, <1>2, <2>2 DEF SweepsAgree, MaySweep
    <2> QED  BY <2>1, <2>2
  <1>6. /\ HasCloser(m, s) <=> w.on /\ w.index = NoIndex
        /\ \A r \in Session \ {s} : HasCloser(m, r) <=> HasCloser(n, r)
    BY <1>1 DEF HasCloser
  <1>7. InOrder(m)
    <2> SUFFICES ASSUME NEW r \in Session, HasCloser(m, r), r \notin delayed, NEW x \in Of(n, r)
                 PROVE  \/ n.exchanges[x].late
                        \/ /\ m.sweep[r].at # Free
                           /\ n.exchanges[m.sweep[r].at].place <= n.exchanges[x].place
      BY <1>1, <1>2 DEF InOrder
    <2>1. CASE r = s
      BY <1>1, <1>6, <2>1 DEF MaySweep
    <2>2. CASE r # s
      BY <1>1, <1>6, <2>2 DEF InOrder
    <2> QED  BY <2>1, <2>2
  <1>8. Ended(m)
    <2>1. \A x \in InTable(n) : n.exchanges[x].session \in Session
      <3> TAKE x \in InTable(n)
      <3>1. PICK j \in Index : n.table[j] # Free /\ x = n.table[j] /\ x \in Exchange
        BY DEF InTable, NetType
      <3>2. n.exchanges[x] # Unused
        BY <3>1 DEF Agrees, EntriesAgree
      <3> QED  BY <3>1, <3>2, UsedIsState DEF ExchangeState
    <2>2. ASSUME NEW x \in InTable(n), n.exchanges[x].session = s
          PROVE  s \in n.listed \/ s \in delayed \/ n.exchanges[x].late \/ HasCloser(m, s)
      <3>1. x \in Of(n, s)
        BY <2>2 DEF Of
      <3> QED  BY <1>6, <3>1 DEF MaySweep
    <2>3. \A x \in InTable(m) : LET r == m.exchanges[x].session
              IN  r \in m.listed \/ r \in delayed \/ m.exchanges[x].late \/ HasCloser(m, r)
      BY <1>1, <1>2, <1>6, <2>1, <2>2
    <2> QED  BY <1>1, <2>3 DEF Ended, MaySweep
  <1> QED  BY <1>1, <1>2, <1>4, <1>5, <1>7, <1>8 DEF Rest, m

(* An index waits for the sweep of a session that is to end with it.       *)
LEMMA BegunKeeps ==
    ASSUME NEW n, NetType(n), NEW i \in Index, Agrees(n, {i}), Rest(n), ClosedAt(n, i),
           n.table[i] # Free, n.exchanges[n.table[i]].session \in delayed \ n.swept
    PROVE  LET m == CloseSession(n, n.exchanges[n.table[i]].session, i)
           IN  /\ NetInv(m) /\ Less(n, m) /\ m.table = n.table /\ m.exchanges = n.exchanges
               /\ m.listed = n.listed /\ n.swept \subseteq m.swept
               /\ \A r \in n.swept : m.sweep[r] = n.sweep[r]
  <1> DEFINE s == n.exchanges[n.table[i]].session
             w == [on |-> TRUE, at |-> FirstOf(n, s, Of(n, s)), index |-> i]
             S == n.swept \cup {s}
             m == CloseSession(n, s, i)
  <1>0. s \in Session
    <2>1. n.table[i] \in Exchange /\ n.exchanges[n.table[i]] # Unused
      BY DEF Agrees, EntriesAgree, NetType
    <2> QED  BY <2>1, UsedIsState DEF ExchangeState
  <1>1. s \in delayed /\ s \notin n.swept /\ ~n.sweep[s].on
    BY <1>0 DEF Rest, SweepsAgree
  <1>2. /\ w \in SweepState /\ w.on /\ w.index = i
        /\ w.at # Free => n.exchanges[w.at] # Unused /\ n.exchanges[w.at].session = s
    <2>1. /\ FirstOf(n, s, Of(n, s)) \in Exchange \cup {Free}
          /\ FirstOf(n, s, Of(n, s)) # Free =>
                /\ n.exchanges[FirstOf(n, s, Of(n, s))] # Unused
                /\ n.exchanges[FirstOf(n, s, Of(n, s))].session = s
      <3> HIDE DEF s
      <3> QED  BY FirstOfIs DEF Agrees
    <2> QED  BY <2>1 DEF SweepState
  <1>3. m = Sweeping(n, S, s, w)
    BY <1>1 DEF CloseSession, Sweeping
  <1> HIDE DEF w
  <1>4. S \in SUBSET Session /\ n.swept \subseteq S /\ s \in S
        /\ \A r \in S : r \in delayed \/ (r \notin n.listed /\ peer[r] # NoPeer)
    BY <1>0, <1>1 DEF NetType, Rest, Ended
  <1>5. \A j \in {i} \ {} : n.table[j] # Free =>
            n.exchanges[n.table[j]].session = s /\ w.on /\ w.index = j
    BY <1>2
  <1> HIDE DEF s, S, m
  <1>6. MaySweep(n, S, s, w, {})
    <2>1. i # NoIndex
      BY NoIndexIsNone
    <2>2. \A j \in Index \ {} : Awaits(n, s, j) => w.on /\ w.index = j
      BY <1>1 DEF Awaits
    <2> QED  BY <1>0, <1>1, <1>2, <1>4, <2>1, <2>2 DEF MaySweep
  <1>7. /\ \A x \in InTable(n) : LET r == n.exchanges[x].session
              IN  r = s \/ r \in n.listed \/ r \in delayed \/ n.exchanges[x].late \/ HasCloser(n, r)
        /\ \A r \in n.listed : peer[r] # NoPeer
    BY DEF Rest, Ended
  <1> DEFINE g == Sweeping(n, S, s, w)
  <1>8. /\ NetType(g) /\ Agrees(g, {}) /\ Rest(g) /\ Less(n, g)
        /\ g.table = n.table /\ g.exchanges = n.exchanges /\ g.listed = n.listed
        /\ g.swept = S /\ \A r \in Session \ {s} : g.sweep[r] = n.sweep[r]
    BY <1>5, <1>6, <1>7, SweepKeeps DEF Rest
  <1> HIDE DEF g
  <1>9. NetInv(g) /\ n.swept \subseteq g.swept /\ \A r \in n.swept : g.sweep[r] = n.sweep[r]
    BY <1>1, <1>4, <1>8 DEF NetInv, NetType
  <1> QED  BY <1>3, <1>8, <1>9 DEF m, g, s

(* deleteExchange() of an index with an exchange that is closed            *)
LEMMA DeleteKeeps ==
    ASSUME NEW n, NetType(n), NEW i \in Index, Agrees(n, {i}), Rest(n), ClosedAt(n, i)
    PROVE  LET m == DeleteExchange(n, i)
           IN  /\ NetInv(m) /\ Less(n, m) /\ m.exchanges = n.exchanges
               /\ m.listed = n.listed /\ n.swept \subseteq m.swept
               /\ \A r \in n.swept : m.sweep[r] = n.sweep[r]
               /\ n.table[i] # Free /\ n.exchanges[n.table[i]].session \in n.swept =>
                     m.table[i] = Free
  <1> DEFINE s == n.exchanges[n.table[i]].session
             m == DeleteExchange(n, i)
  <1>1. CASE n.table[i] = Free
    <2>1. m = n
      BY <1>1 DEF DeleteExchange
    <2>2. Agrees(n, {})
      BY <1>1 DEF Agrees, EntriesAgree
    <2>3. Less(n, n)
      BY DEF Less, Further
    <2> QED  BY <1>1, <2>1, <2>2, <2>3 DEF NetInv
  <1>2. CASE n.table[i] # Free /\ s \in delayed \ n.swept
    <2>1. m = CloseSession(n, s, i)
      BY <1>2 DEF DeleteExchange
    <2>2. /\ NetInv(CloseSession(n, s, i)) /\ Less(n, CloseSession(n, s, i))
          /\ CloseSession(n, s, i).exchanges = n.exchanges
          /\ CloseSession(n, s, i).listed = n.listed
          /\ n.swept \subseteq CloseSession(n, s, i).swept
          /\ \A r \in n.swept : CloseSession(n, s, i).sweep[r] = n.sweep[r]
      BY <1>2, BegunKeeps
    <2> HIDE DEF m, s
    <2>3. s \notin n.swept
      BY <1>2
    <2> QED  BY <2>1, <2>2, <2>3 DEF m, s
  <1>3. CASE n.table[i] # Free /\ s \notin delayed \ n.swept
    <2>1. m = Removed(n, {i})
      BY <1>3 DEF DeleteExchange
    <2> DEFINE g == Removed(n, {i})
    <2>2. /\ NetInv(g) /\ Less(n, g) /\ SameSessions(n, g) /\ g.exchanges = n.exchanges
          /\ g.table[i] = Free
      BY RemovedKeeps
    <2> HIDE DEF g
    <2>3. g.listed = n.listed /\ n.swept \subseteq g.swept /\ g.sweep = n.sweep
      BY <2>2 DEF SameSessions
    <2> QED  BY <2>1, <2>2, <2>3 DEF g
  <1> QED  BY <1>1, <1>2, <1>3

(* Closing an exchange keeps everything. *)
LEMMA CloseKeeps ==
    ASSUME NEW n, NetInv(n), NEW e \in Exchange, n.exchanges[e] # Unused
    PROVE  LET m == Close(n, e)
               i == n.exchanges[e].at
           IN  /\ NetInv(m) /\ Less(n, m) /\ m.listed = n.listed /\ n.swept \subseteq m.swept
               /\ m.exchanges[e].state = "closed"
               /\ \A r \in n.swept : m.sweep[r] = n.sweep[r]
               /\ n.table[i] # Free /\ n.exchanges[n.table[i]].session \in n.swept =>
                     m.table[i] = Free
  <1> DEFINE c == Closed(n, e)
             i == n.exchanges[e].at
             m == DeleteExchange(c, i)
  <1>0. NetType(n) /\ i \in Index
    <2>1. NetType(n)
      BY DEF NetInv
    <2> QED  BY <2>1, UsedIsState DEF ExchangeState
  <1>1. /\ NetType(c) /\ Agrees(c, {i}) /\ Rest(c) /\ Less(n, c) /\ SameSessions(n, c)
        /\ c.table = n.table /\ c.exchanges[e].state = "closed"
    BY ClosedKeeps
  <1>2. c.exchanges[e].at = i /\ Close(n, e) = m
    BY <1>1 DEF Close, Less, Further
  <1> HIDE DEF c, i
  <1>3. ClosedAt(c, i)
    BY <1>1, <1>2 DEF ClosedAt
  <1>4. /\ NetInv(m) /\ Less(c, m) /\ m.exchanges = c.exchanges
        /\ m.listed = c.listed /\ c.swept \subseteq m.swept
        /\ \A r \in c.swept : m.sweep[r] = c.sweep[r]
        /\ c.table[i] # Free /\ c.exchanges[c.table[i]].session \in c.swept => m.table[i] = Free
    BY <1>0, <1>1, <1>3, DeleteKeeps
  <1> HIDE DEF m
  <1>5. Less(n, m)
    <2>1. Further(n, m)
      BY <1>1, <1>4 DEF Less, Further, UnderWay
    <2> QED  BY <1>1, <1>4, <2>1 DEF Less
  <1>6. /\ c.listed = n.listed /\ c.swept = n.swept /\ c.sweep = n.sweep
    BY <1>1 DEF SameSessions
  <1>7. n.table[i] # Free => c.exchanges[n.table[i]].session = n.exchanges[n.table[i]].session
    <2>1. n.table[i] # Free => n.table[i] \in Exchange
      BY <1>0 DEF NetType
    <2> QED  BY <1>1, <2>1 DEF Less, Further
  <1>8. n.table[i] # Free /\ n.exchanges[n.table[i]].session \in n.swept => m.table[i] = Free
    BY <1>1, <1>4, <1>6, <1>7
  <1> QED  BY <1>1, <1>2, <1>4, <1>5, <1>6, <1>8 DEF i

(* So does letting it drain. *)
LEMMA DrainKeeps ==
    ASSUME NEW n, NetInv(n), NEW e \in Exchange, n.exchanges[e].state \in {"open", "acking"}
    PROVE  LET m == Drain(n, e)
           IN  NetInv(m) /\ Less(n, m) /\ m.exchanges[e].state = "draining"
  <1> DEFINE m == Drain(n, e)
  <1>0. NetType(n) /\ Agrees(n, {}) /\ Rest(n) /\ n.exchanges[e] # Unused
    BY DEF NetInv, Unused
  <1>1. /\ Less(n, m) /\ SameSessions(n, m) /\ m.table = n.table
        /\ m.exchanges[e].state = "draining"
        /\ \A x \in Exchange \ {e} : m.exchanges[x] = n.exchanges[x]
    BY <1>0, StateMoves DEF Drain
  <1> HIDE DEF m
  <1>2. Rest(m) /\ NetType(m)
    BY <1>0, <1>1, SameSessionsKeep DEF Less
  <1>3. \A x \in Exchange : UnderWay(n, x) => UnderWay(m, x)
    BY <1>1 DEF UnderWay
  <1>4. \A j \in Index : m.table[j] # Free /\ ~UnderWay(m, m.table[j]) =>
            j \in {} \/ Awaits(n, n.exchanges[m.table[j]].session, j)
    BY <1>0, <1>1, <1>3 DEF Agrees, EntriesAgree, NetType
  <1>5. m.sweep = n.sweep /\ \A j \in Index : m.table[j] # n.table[j] => ClosedAt(m, j)
    BY <1>1 DEF SameSessions
  <1>6. Agrees(m, {})
    BY <1>0, <1>1, <1>4, <1>5, LessAgrees
  <1> QED  BY <1>1, <1>2, <1>6 DEF NetInv, m

-----------------------------------------------------------------------------
(* New exchanges. *)

LEMMA MadeFinite ==
    ASSUME NEW n
    PROVE  IsFiniteSet(Made(n)) /\ Cardinality(Made(n)) \in Nat
  <1>1. IsFiniteSet(Exchange)
    BY FS_Interval, SessionsAssumption DEF Exchange
  <1>2. Made(n) \subseteq Exchange
    BY DEF Made
  <1> QED  BY <1>1, <1>2, FS_Subset, FS_CardinalityType

(* The new exchange takes its place in the table. *)
LEMMA AddedKeeps ==
    ASSUME NEW n, NetInv(n), NEW o \in Opening, n.exchanges[o.id] = Unused
    PROVE  LET m == Added(n, o)
           IN  /\ NetInv(m)
               /\ \A s : Active(m, s) \subseteq Active(n, s) \cup {o.id}
               /\ \A s \in Session \ {o.session} : Active(m, s) \subseteq Active(n, s)
               /\ \A x \in Exchange : m.exchanges[x] = Unused <=> n.exchanges[x] = Unused /\ x # o.id
  <1> DEFINE made == Cardinality(Made(n))
             place == IF n.table[o.at] = Free THEN made ELSE n.exchanges[n.table[o.at]].place
             y == [session |-> o.session, at |-> o.at, state |-> o.state,
                   place |-> place, late |-> o.session \notin n.listed]
             X == [n.exchanges EXCEPT ![o.id] = y]
             Y == [n.table EXCEPT ![o.at] = o.id]
             m == Added(n, o)
  <1>0. /\ o.id \in Exchange /\ o.session \in Session /\ o.at \in Index
        /\ o.state \in {"open", "acking"}
        /\ NetType(n) /\ EntriesAgree(n, {}) /\ Agrees(n, {}) /\ Rest(n)
    BY DEF Opening, NetInv, Agrees
  <1>1. /\ place \in Nat /\ made \in Nat /\ place <= made
        /\ \A x \in Made(n) : n.exchanges[x].place < made /\ n.exchanges[x].place \in Nat
        /\ \A x \in Made(n) : n.exchanges[x].place = place => n.exchanges[x].at = o.at
    <2>1. made \in Nat
      BY MadeFinite
    <2>2. \A x \in Made(n) : n.exchanges[x].place < made /\ n.exchanges[x].place \in Nat
      <3> TAKE x \in Made(n)
      <3>1. n.exchanges[x].place < made
        BY <1>0 DEF Rest, Places
      <3>2. x \in Exchange /\ n.exchanges[x] # Unused
        BY DEF Made
      <3> QED  BY <1>0, <3>1, <3>2, UsedIsState DEF ExchangeState
    <2>3. CASE n.table[o.at] # Free
      <3> DEFINE t == n.table[o.at]
      <3>1. t \in Made(n) /\ n.exchanges[t].at = o.at
        BY <1>0, <2>3 DEF EntriesAgree, NetType, Made
      <3>2. place = n.exchanges[t].place
        BY <2>3
      <3> HIDE DEF t, place, made
      <3>3. \A x \in Made(n) : n.exchanges[x].place = place => n.exchanges[x].at = o.at
        BY <1>0, <3>1, <3>2 DEF Rest, Places
      <3> QED  BY <2>1, <2>2, <3>1, <3>2, <3>3
    <2>4. CASE n.table[o.at] = Free
      <3>1. place = made
        BY <2>4
      <3> HIDE DEF place, made
      <3> QED  BY <2>1, <2>2, <3>1
    <2> QED  BY <2>3, <2>4
  <1>2. m = [n EXCEPT !.table = Y, !.exchanges = X]
    BY DEF Added, Made
  <1> HIDE DEF place, made
  <1>3. /\ y \in ExchangeState /\ y.session = o.session /\ y.at = o.at /\ y.state = o.state
        /\ y # Unused /\ (y.late <=> o.session \notin n.listed) /\ y.place = place
    BY <1>0, <1>1 DEF ExchangeState, Unused
  <1> HIDE DEF y
  <1>4. X \in [Exchange -> ExchangeState \cup {Unused}]
        /\ X[o.id] = y /\ \A x \in Exchange \ {o.id} : X[x] = n.exchanges[x]
    BY <1>0, <1>3 DEF NetType
  <1>5. Y \in [Index -> Exchange \cup {Free}]
        /\ Y[o.at] = o.id /\ \A j \in Index \ {o.at} : Y[j] = n.table[j]
    BY <1>0 DEF NetType
  <1> HIDE DEF X, Y, m
  <1>6. /\ NetType(m) /\ m.exchanges = X /\ m.table = Y
        /\ m.listed = n.listed /\ m.swept = n.swept /\ m.sweep = n.sweep
    BY <1>0, <1>2, <1>4, <1>5 DEF NetType
  <1>7. \A x \in Exchange : m.exchanges[x] = Unused <=> n.exchanges[x] = Unused /\ x # o.id
    BY <1>3, <1>4, <1>6
  <1>8. \A x : x \in InTable(m) => x = o.id \/ (x \in InTable(n) /\ x \in Exchange \ {o.id})
    <2>1. o.id \notin InTable(n)
      BY FreeIsNoExchange, <1>0 DEF InTable, EntriesAgree
    <2> TAKE x
    <2> HAVE x \in InTable(m)
    <2>2. PICK j \in Index : m.table[j] # Free /\ x = m.table[j]
      BY DEF InTable
    <2>3. j # o.at => x = n.table[j] /\ x \in InTable(n) /\ x \in Exchange
      BY <1>0, <1>5, <1>6, <2>2 DEF InTable, NetType
    <2> QED  BY <1>5, <1>6, <2>1, <2>2, <2>3
  <1>9. /\ m.exchanges[o.id] = y /\ o.id \notin Made(n)
        /\ \A x \in Exchange \ {o.id} : m.exchanges[x] = n.exchanges[x]
    BY <1>4, <1>6 DEF Made
  <1>10. /\ \A s : Active(m, s) \subseteq Active(n, s) \cup {o.id}
         /\ \A s \in Session \ {o.session} : Active(m, s) \subseteq Active(n, s)
    BY <1>3, <1>8, <1>9 DEF Active, Of
  <1>11. EntriesAgree(m, {})
    <2> SUFFICES ASSUME NEW j \in Index, m.table[j] # Free
                 PROVE  /\ m.exchanges[m.table[j]] # Unused /\ m.exchanges[m.table[j]].at = j
                        /\ \/ UnderWay(m, m.table[j])
                           \/ Awaits(m, m.exchanges[m.table[j]].session, j)
      BY DEF EntriesAgree
    <2>1. CASE j = o.at
      BY <1>0, <1>3, <1>5, <1>6, <1>9, <2>1 DEF UnderWay
    <2>2. CASE j # o.at
      <3>1. m.table[j] = n.table[j] /\ n.table[j] \in Exchange
        BY <1>0, <1>5, <1>6, <2>2 DEF NetType
      <3>2. /\ n.exchanges[n.table[j]] # Unused /\ n.exchanges[n.table[j]].at = j
            /\ \/ UnderWay(n, n.table[j])
               \/ Awaits(n, n.exchanges[n.table[j]].session, j)
        BY <1>0, <3>1 DEF EntriesAgree
      <3>3. n.table[j] # o.id
        BY <3>2
      <3>4. m.exchanges[m.table[j]] = n.exchanges[n.table[j]] /\ m.sweep = n.sweep
        BY <1>6, <1>9, <3>1, <3>3
      <3>5. UnderWay(m, m.table[j]) <=> UnderWay(n, n.table[j])
        BY <3>4 DEF UnderWay
      <3>6. \A s : Awaits(m, s, j) <=> Awaits(n, s, j)
        BY <3>4 DEF Awaits
      <3> QED  BY <3>2, <3>4, <3>5, <3>6
    <2> QED  BY <2>1, <2>2
  <1>12. ASSUME NEW x \in Exchange, UnderWay(m, x)
         PROVE  m.table[m.exchanges[x].at] = x \/ Rival(m, x)
    <2>1. CASE x = o.id
      BY <1>3, <1>5, <1>6, <1>9, <2>1
    <2>2. CASE x # o.id
      <3>1. m.exchanges[x] = n.exchanges[x] /\ UnderWay(n, x)
        BY <1>9, <1>12, <2>2 DEF UnderWay
      <3>2. n.exchanges[x].at \in Index
        <4>1. n.exchanges[x] # Unused
          BY <3>1 DEF UnderWay, Unused
        <4> QED  BY <1>0, <4>1, UsedIsState DEF ExchangeState
      <3>3. CASE Rival(n, x)
        BY <1>7, <1>9, <3>1, <3>3 DEF Rival
      <3>4. CASE n.table[n.exchanges[x].at] = x /\ n.exchanges[x].at # o.at
        BY <1>5, <1>6, <3>1, <3>2, <3>4
      <3>5. CASE n.exchanges[x].at = o.at
        <4>1. o.id \in Exchange \ {x} /\ m.exchanges[o.id] # Unused
              /\ m.exchanges[o.id].at = m.exchanges[x].at
          BY <1>0, <1>3, <1>9, <2>2, <3>1, <3>5
        <4> QED  BY <4>1 DEF Rival
      <3> QED  BY <1>0, <3>1, <3>3, <3>4, <3>5 DEF Agrees
    <2> QED  BY <2>1, <2>2
  <1>13. SweepsAgree(m)
    <2>1. \A i : ClosedAt(n, i) => ClosedAt(m, i)
      BY <1>9 DEF ClosedAt, Unused
    <2>2. \A s \in Session : n.sweep[s].at \in Exchange \cup {Free}
      BY <1>0 DEF NetType, SweepState
    <2> SUFFICES ASSUME NEW s \in Session, n.sweep[s].on
                 PROVE  /\ s \in n.swept
                        /\ n.sweep[s].at # Free => /\ m.exchanges[n.sweep[s].at] # Unused
                                                   /\ m.exchanges[n.sweep[s].at].session = s
                        /\ n.sweep[s].index # NoIndex => s \in delayed /\ ClosedAt(m, n.sweep[s].index)
      BY <1>6 DEF SweepsAgree
    <2>3. /\ s \in n.swept
          /\ n.sweep[s].at # Free => /\ n.exchanges[n.sweep[s].at] # Unused
                                     /\ n.exchanges[n.sweep[s].at].session = s
          /\ n.sweep[s].index # NoIndex => s \in delayed /\ ClosedAt(n, n.sweep[s].index)
      BY <1>0 DEF Rest, SweepsAgree
    <2>4. n.sweep[s].at # Free => n.sweep[s].at \in Exchange \ {o.id}
      BY <2>2, <2>3
    <2> QED  BY <1>9, <2>1, <2>3, <2>4
  <1>14. Places(m)
    <2>1. Made(m) = Made(n) \cup {o.id}
      BY <1>0, <1>7 DEF Made
    <2>2. Cardinality(Made(m)) = made + 1
      <3> DEFINE M == Made(n)
      <3>1. IsFiniteSet(M) /\ o.id \notin M
        BY <1>9, MadeFinite
      <3> HIDE DEF M
      <3>2. Cardinality(M \cup {o.id}) = Cardinality(M) + 1
        BY <3>1, FS_AddElement
      <3> QED  BY <2>1, <3>2 DEF M, made
    <2>3. /\ m.exchanges[o.id].place = place /\ m.exchanges[o.id].at = o.at
          /\ \A x \in Made(n) : m.exchanges[x] = n.exchanges[x]
      BY <1>3, <1>9 DEF Made
    <2>4. \A x \in Made(m) : m.exchanges[x].place < Cardinality(Made(m))
      BY <1>1, <2>1, <2>2, <2>3
    <2>5. \A x, z \in Made(m) : m.exchanges[x].place = m.exchanges[z].place =>
                                m.exchanges[x].at = m.exchanges[z].at
      <3>1. \A x, z \in Made(n) : n.exchanges[x].place = n.exchanges[z].place =>
                                  n.exchanges[x].at = n.exchanges[z].at
        BY <1>0 DEF Rest, Places
      <3> QED  BY <1>1, <2>1, <2>3, <3>1
    <2> QED  BY <2>4, <2>5 DEF Places
  <1>15. InOrder(m)
    <2> SUFFICES ASSUME NEW s \in Session, HasCloser(n, s), s \notin delayed, NEW x \in Of(m, s)
                 PROVE  \/ m.exchanges[x].late
                        \/ /\ n.sweep[s].at # Free
                           /\ m.exchanges[n.sweep[s].at].place <= m.exchanges[x].place
      BY <1>6 DEF InOrder, HasCloser
    <2>1. /\ s \in n.swept /\ s \notin n.listed
          /\ n.sweep[s].at # Free => n.exchanges[n.sweep[s].at] # Unused
          /\ n.sweep[s].at \in Exchange \cup {Free}
      BY <1>0 DEF Rest, SweepsAgree, Ended, HasCloser, NetType, SweepState
    <2>2. n.sweep[s].at # Free => m.exchanges[n.sweep[s].at] = n.exchanges[n.sweep[s].at]
      BY <1>9, <2>1
    <2>3. CASE x = o.id
      BY <1>3, <1>9, <2>1, <2>3 DEF Of
    <2>4. CASE x # o.id
      <3>1. x \in Of(n, s) /\ m.exchanges[x] = n.exchanges[x]
        BY <1>8, <1>9, <2>4 DEF Of
      <3>2. \/ n.exchanges[x].late
            \/ n.sweep[s].at # Free /\ n.exchanges[n.sweep[s].at].place <= n.exchanges[x].place
        BY <1>0, <3>1 DEF Rest, InOrder
      <3> QED  BY <2>2, <3>1, <3>2
    <2> QED  BY <2>3, <2>4
  <1>16. Ended(m)
    <2>1. \A x \in InTable(m) : LET s == m.exchanges[x].session
              IN  s \in m.listed \/ s \in delayed \/ m.exchanges[x].late \/ HasCloser(m, s)
      <3> TAKE x \in InTable(m)
      <3>1. CASE x = o.id
        BY <1>3, <1>6, <1>9, <3>1
      <3>2. CASE x # o.id
        BY <1>0, <1>6, <1>8, <1>9, <3>2 DEF Rest, Ended, HasCloser
      <3> QED  BY <3>1, <3>2
    <2> QED  BY <1>0, <1>6, <2>1 DEF Rest, Ended
  <1> QED  BY <1>6, <1>7, <1>10, <1>11, <1>12, <1>13, <1>14, <1>15, <1>16
           DEF NetInv, Rest, Agrees, m

(* With the eviction of the oldest: no session has more than its limit.    *)
LEMMA AddKeeps ==
    ASSUME NEW n, NetInv(n), Limited(n), NEW o \in Opening, n.exchanges[o.id] = Unused,
           NEW m \in AddExchange(n, o)
    PROVE  /\ NetInv(m) /\ Limited(m)
           /\ \A x \in Exchange : m.exchanges[x] = Unused <=> n.exchanges[x] = Unused /\ x # o.id
  <1> DEFINE more == Added(n, o)
             now == Active(more, o.session)
  <1>0. /\ NetType(n) /\ o.session \in Session /\ MaxPerSession \in Nat
        /\ \A s \in Session : Cardinality(Active(n, s)) <= MaxPerSession
    BY SessionsAssumption DEF NetInv, Limited, Opening
  <1>1. /\ NetInv(more) /\ NetType(more) /\ EntriesAgree(more, {})
        /\ \A s : Active(more, s) \subseteq Active(n, s) \cup {o.id}
        /\ \A s \in Session \ {o.session} : Active(more, s) \subseteq Active(n, s)
        /\ \A x \in Exchange : more.exchanges[x] = Unused <=> n.exchanges[x] = Unused /\ x # o.id
    BY AddedKeeps DEF NetInv, Agrees
  <1>2. \A s \in Session \ {o.session} : Cardinality(Active(more, s)) <= MaxPerSession
    <2> TAKE s \in Session \ {o.session}
    <2>1. Active(more, s) \in SUBSET Active(n, s)
      BY <1>1
    <2> QED  BY <1>0, <2>1, FewerActive
  <1>3. IsFiniteSet(now) /\ Cardinality(now) \in Nat /\ Cardinality(now) <= MaxPerSession + 1
    <2>1. IsFiniteSet(now) /\ Cardinality(now) \in Nat
      BY <1>1, FewerActive
    <2> DEFINE old == Active(n, o.session)
    <2>2. IsFiniteSet(old) /\ Cardinality(old) \in Nat /\ Cardinality(old) <= MaxPerSession
      BY <1>0, FewerActive
    <2>3. now \subseteq old \cup {o.id}
      BY <1>1
    <2> HIDE DEF now, old
    <2>4. /\ IsFiniteSet(old \cup {o.id})
          /\ Cardinality(old \cup {o.id}) = IF o.id \in old THEN Cardinality(old) ELSE Cardinality(old) + 1
      BY <2>2, FS_AddElement
    <2>5. Cardinality(now) <= Cardinality(old \cup {o.id})
      BY <2>3, <2>4, FS_Subset
    <2>6. Cardinality(old \cup {o.id}) \in Nat
          /\ Cardinality(old \cup {o.id}) <= Cardinality(old) + 1
      BY <2>2, <2>4
    <2> QED  BY <1>0, <2>1, <2>2, <2>5, <2>6
  <1>4. CASE Cardinality(now) <= MaxPerSession
    <2>1. m = more
      BY <1>4 DEF AddExchange, Oldest
    <2>2. Limited(more)
      BY <1>2, <1>4 DEF Limited
    <2> HIDE DEF more
    <2> QED  BY <1>1, <2>1, <2>2
  <1>5. CASE ~(Cardinality(now) <= MaxPerSession)
    <2> DEFINE e == First(more, now)
    <2>1. now # {}
      <3> HIDE DEF now
      <3> QED  BY <1>0, <1>5, FS_EmptySet
    <2>2. e \in now /\ now \subseteq Made(more)
      <3>1. now \in SUBSET Made(more)
        BY <1>1, OfMade
      <3> HIDE DEF now, more
      <3> QED  BY <1>1, <2>1, <3>1, FirstIsFirst
    <2>3. e \in Exchange /\ more.exchanges[e] # Unused
          /\ more.exchanges[e].state \in {"open", "acking"}
      <3>1. e \in Made(more) /\ more.exchanges[e].state \in {"open", "acking"}
        BY <2>2 DEF Active
      <3> HIDE DEF e, more, now
      <3> QED  BY <3>1 DEF Made
    <2>4. m = Close(more, e) \/ m = Drain(more, e)
      BY <1>5 DEF AddExchange, Oldest
    <2> HIDE DEF e, more
    <2>5. NetInv(m) /\ Less(more, m) /\ m.exchanges[e].state \in {"closed", "draining"}
      BY <1>1, <2>3, <2>4, CloseKeeps, DrainKeeps
    <2>6. \A s : Active(m, s) \subseteq Active(more, s) \ {e}
      <3>1. \A s : Active(m, s) \subseteq Active(more, s)
        BY <1>1, <2>5, LessTable
      <3> QED  BY <2>5, <3>1 DEF Active
    <2>7. Limited(m)
      <3> SUFFICES ASSUME NEW s \in Session
                   PROVE  Cardinality(Active(m, s)) <= MaxPerSession
        BY DEF Limited
      <3>1. Active(m, s) \in SUBSET Active(more, s)
        BY <2>6
      <3>2. /\ Cardinality(Active(m, s)) <= Cardinality(Active(more, s))
            /\ Cardinality(Active(m, s)) \in Nat /\ Cardinality(Active(more, s)) \in Nat
        BY <1>1, <3>1, FewerActive
      <3>3. CASE s # o.session
        BY <1>0, <1>2, <3>2, <3>3
      <3>4. CASE s = o.session
        <4> HIDE DEF now
        <4>1. IsFiniteSet(now \ {e}) /\ Cardinality(now \ {e}) = Cardinality(now) - 1
          BY <1>3, <2>2, FS_RemoveElement
        <4>2. Active(m, s) \in SUBSET (now \ {e})
          BY <2>6, <3>4 DEF now
        <4>3. Cardinality(Active(m, s)) <= Cardinality(now \ {e})
          BY <4>1, <4>2, FS_Subset
        <4> QED  BY <1>0, <1>3, <3>2, <4>1, <4>3
      <3> QED  BY <3>3, <3>4
    <2>8. \A x \in Exchange : m.exchanges[x] = Unused <=> more.exchanges[x] = Unused
      BY <2>5 DEF Less, Further
    <2> QED  BY <1>1, <2>5, <2>7, <2>8
  <1> QED  BY <1>4, <1>5

-----------------------------------------------------------------------------
(* The end of a session. *)

(* m has the exchanges of n, and is right as n was. *)
Kept(n, m) ==
    /\ NetInv(m) /\ (Limited(n) => Limited(m))
    /\ \A x \in Exchange : m.exchanges[x] = Unused <=> n.exchanges[x] = Unused

LEMMA LessKept ==
    ASSUME NEW n, NetType(n), NEW m, NetInv(m), Less(n, m)
    PROVE  Kept(n, m)
  BY LessKeeps DEF Kept, Less, Further

(* What changes only the channels, and takes sessions from the list only   *)
(* when they were to end later, keeps everything.                          *)
LEMMA ChannelsKeep ==
    ASSUME NEW n, NetType(n), NEW I, Agrees(n, I), Rest(n), NEW m, NetType(m),
           m.table = n.table, m.exchanges = n.exchanges, m.swept = n.swept, m.sweep = n.sweep,
           m.listed \subseteq n.listed, n.listed \subseteq m.listed \cup delayed
    PROVE  /\ Agrees(m, I) /\ Rest(m) /\ Less(n, m)
           /\ \A i : ClosedAt(m, i) <=> ClosedAt(n, i)
  <1>1. /\ InTable(m) = InTable(n) /\ \A r : Of(m, r) = Of(n, r)
        /\ \A i : ClosedAt(m, i) <=> ClosedAt(n, i)
        /\ \A x : (UnderWay(m, x) <=> UnderWay(n, x)) /\ (Rival(m, x) <=> Rival(n, x))
        /\ (Places(m) <=> Places(n))
    BY SameTable
  <1>2. \A r : HasCloser(m, r) <=> HasCloser(n, r)
    BY DEF HasCloser
  <1>3. EntriesAgree(m, I)
    BY <1>1 DEF Agrees, EntriesAgree, Awaits
  <1>4. Agrees(m, I)
    BY <1>1, <1>3 DEF Agrees
  <1>5. SweepsAgree(m) /\ InOrder(m)
    BY <1>1, <1>2 DEF Rest, SweepsAgree, InOrder
  <1>6. Ended(m)
    BY <1>1, <1>2 DEF Rest, Ended
  <1>7. Less(n, m)
    BY <1>1 DEF Less, Further
  <1> QED  BY <1>1, <1>4, <1>5, <1>6, <1>7 DEF Rest

LEMMA HungUpType ==
    ASSUME NEW n, NetType(n), NEW s
    PROVE  /\ NetType(HungUp(n, s))
           /\ HungUp(n, s).table = n.table /\ HungUp(n, s).exchanges = n.exchanges
           /\ HungUp(n, s).listed = n.listed /\ HungUp(n, s).swept = n.swept
           /\ HungUp(n, s).sweep = n.sweep
  <1> DEFINE row == n.channels[peer[s]]
             X == [n.channels EXCEPT ![peer[s]] =
                      IF \E k \in DOMAIN row : row[k].session = s /\ row[k].watched
                      THEN Without(row, s) ELSE row]
  <1>1. HungUp(n, s) = [n EXCEPT !.channels = X]
    BY DEF HungUp, NetType
  <1> HIDE DEF X
  <1> QED  BY <1>1 DEF NetType

LEMMA HungUpKeeps ==
    ASSUME NEW n, NetInv(n), NEW s
    PROVE  Kept(n, HungUp(n, s)) /\ HungUp(n, s).exchanges = n.exchanges
  <1> DEFINE m == HungUp(n, s)
  <1>1. NetType(n) /\ Agrees(n, {}) /\ Rest(n)
    BY DEF NetInv
  <1>2. /\ NetType(m) /\ m.table = n.table /\ m.exchanges = n.exchanges
        /\ m.listed = n.listed /\ m.swept = n.swept /\ m.sweep = n.sweep
    BY <1>1, HungUpType
  <1> HIDE DEF m
  <1>3. Agrees(m, {}) /\ Rest(m) /\ Less(n, m)
    BY <1>1, <1>2, ChannelsKeep
  <1>4. Kept(n, m)
    BY <1>1, <1>2, <1>3, LessKept DEF NetInv
  <1> QED  BY <1>2, <1>4 DEF m

LEMMA EvictedKeeps ==
    ASSUME NEW n, NetInv(n), NEW s, NEW o
    PROVE  Kept(n, Evicted(n, s, o)) /\ Evicted(n, s, o).exchanges = n.exchanges
  <1> DEFINE row == Without(n.channels[peer[s]], s)
             X == [n.channels EXCEPT ![peer[s]] = [k \in DOMAIN row |->
                    IF row[k].session = o.session /\ o.session \in n.listed
                    THEN [row[k] EXCEPT !.watched = TRUE] ELSE row[k]]]
             m == Evicted(n, s, o)
  <1>1. NetType(n) /\ Agrees(n, {}) /\ Rest(n)
    BY DEF NetInv
  <1>2. m = [n EXCEPT !.channels = X]
    BY <1>1 DEF Evicted, NetType
  <1> HIDE DEF X, m
  <1>3. /\ NetType(m) /\ m.table = n.table /\ m.exchanges = n.exchanges
        /\ m.listed = n.listed /\ m.swept = n.swept /\ m.sweep = n.sweep
    BY <1>1, <1>2 DEF NetType
  <1>4. Agrees(m, {}) /\ Rest(m) /\ Less(n, m)
    BY <1>1, <1>3, ChannelsKeep
  <1>5. Kept(n, m)
    BY <1>1, <1>3, <1>4, LessKept DEF NetInv
  <1> QED  BY <1>3, <1>5 DEF m

(* A session leaves the list; if it is to end at once its closer begins.   *)
LEMMA UnlistedKeeps ==
    ASSUME NEW n, NetInv(n), NEW s
    PROVE  Kept(n, Unlisted(n, s))
  <1> DEFINE fewer == n.listed \ {s}
             gone == [n EXCEPT !.listed = fewer]
             u == Unlisted(n, s)
  <1>0. NetType(n) /\ Agrees(n, {}) /\ Rest(n) /\ fewer \subseteq n.listed
    BY DEF NetInv
  <1>1. /\ NetType(gone) /\ gone.table = n.table /\ gone.exchanges = n.exchanges
        /\ gone.listed = fewer /\ gone.swept = n.swept /\ gone.sweep = n.sweep
    <2> HIDE DEF fewer
    <2> QED  BY <1>0 DEF NetType
  <1>2. CASE ~(s \in n.listed /\ s \notin delayed)
    <2>1. u = gone
      BY <1>2 DEF Unlisted
    <2>2. n.listed \subseteq fewer \cup delayed
      BY <1>2
    <2> HIDE DEF gone, fewer, u
    <2>3. Agrees(gone, {}) /\ Rest(gone) /\ Less(n, gone)
      BY <1>0, <1>1, <2>2, ChannelsKeep
    <2>4. Kept(n, gone)
      BY <1>0, <1>1, <2>3, LessKept DEF NetInv
    <2> QED  BY <2>1, <2>4 DEF u
  <1>3. CASE s \in n.listed /\ s \notin delayed
    <2> DEFINE w == [on |-> TRUE, at |-> FirstOf(gone, s, Of(gone, s)), index |-> NoIndex]
               S == n.swept \cup {s}
    <2>1. s \in Session /\ s \notin n.swept /\ peer[s] # NoPeer /\ ~n.sweep[s].on /\ s \notin fewer
      BY <1>0, <1>3 DEF NetType, Rest, Ended, SweepsAgree
    <2>2. u = Sweeping(gone, S, s, w)
      <3>1. u = CloseSession(gone, s, NoIndex)
        BY <1>3 DEF Unlisted
      <3> HIDE DEF gone, u
      <3> QED  BY <1>1, <2>1, <3>1 DEF CloseSession, Sweeping
    <2> HIDE DEF gone, u
    <2>3. /\ InTable(gone) = InTable(n) /\ \A r : Of(gone, r) = Of(n, r)
          /\ \A x : (UnderWay(gone, x) <=> UnderWay(n, x)) /\ (Rival(gone, x) <=> Rival(n, x))
          /\ \A i : ClosedAt(gone, i) <=> ClosedAt(n, i)
          /\ Places(gone)
      BY <1>0, <1>1, SameTable DEF Rest
    <2>4. \A r : HasCloser(gone, r) <=> HasCloser(n, r)
      BY <1>1 DEF HasCloser
    <2>5. /\ EntriesAgree(gone, {}) /\ Agrees(gone, {})
          /\ SweepsAgree(gone) /\ InOrder(gone)
      <3>1. EntriesAgree(gone, {})
        BY <1>0, <1>1, <2>3 DEF Agrees, EntriesAgree, Awaits
      <3>2. SweepsAgree(gone) /\ InOrder(gone)
        BY <1>0, <1>1, <2>3, <2>4 DEF Rest, SweepsAgree, InOrder
      <3> QED  BY <1>0, <1>1, <2>3, <3>1, <3>2 DEF Agrees
    <2>6. /\ w \in SweepState /\ w.on /\ w.index = NoIndex
          /\ w.at # Free => gone.exchanges[w.at] # Unused /\ gone.exchanges[w.at].session = s
          /\ \A x \in Of(gone, s) :
                w.at # Free /\ gone.exchanges[w.at].place <= gone.exchanges[x].place
      <3> DEFINE f == FirstOf(gone, s, Of(gone, s))
      <3>1. /\ f \in Exchange \cup {Free}
            /\ f # Free => gone.exchanges[f] # Unused /\ gone.exchanges[f].session = s
            /\ \A x \in Of(gone, s) : f # Free /\ gone.exchanges[f].place <= gone.exchanges[x].place
        BY <1>1, <2>5, FirstOfIs
      <3> HIDE DEF f
      <3>2. w = [on |-> TRUE, at |-> f, index |-> NoIndex]
        BY DEF f
      <3> HIDE DEF w
      <3> QED  BY <3>1, <3>2 DEF SweepState
    <2> HIDE DEF w
    <2>7. S \in SUBSET Session /\ gone.swept \subseteq S /\ s \in S
          /\ \A r \in S : r \in delayed \/ (r \notin gone.listed /\ peer[r] # NoPeer)
      BY <1>0, <1>1, <2>1 DEF NetType, Rest, Ended
    <2> HIDE DEF S
    <2>8. MaySweep(gone, S, s, w, {})
      <3>1. \A j \in Index \ {} : Awaits(gone, s, j) => w.on /\ w.index = j
        BY <1>1, <2>1 DEF Awaits
      <3> QED  BY <2>1, <2>6, <2>7, <3>1 DEF MaySweep
    <2>9. /\ \A x \in InTable(gone) : LET r == gone.exchanges[x].session
              IN  r = s \/ r \in gone.listed \/ r \in delayed \/ gone.exchanges[x].late \/ HasCloser(gone, r)
          /\ \A r \in gone.listed : peer[r] # NoPeer
      BY <1>0, <1>1, <2>3, <2>4 DEF Rest, Ended
    <2> DEFINE g == Sweeping(gone, S, s, w)
    <2>10. NetType(g) /\ Agrees(g, {}) /\ Rest(g) /\ Less(gone, g)
      BY <1>1, <2>5, <2>3, <2>8, <2>9, SweepKeeps
    <2> HIDE DEF g
    <2>11. Less(n, g)
      BY <1>1, <2>3, <2>10 DEF Less, Further
    <2>12. Kept(n, g)
      BY <1>0, <2>10, <2>11, LessKept DEF NetInv
    <2> QED  BY <2>2, <2>12 DEF g, u
  <1> QED  BY <1>2, <1>3

(* A sweep that goes on, or is over, without a further one beginning       *)
LEMMA SameSweeps ==
    ASSUME NEW n, NetType(n), NEW s \in Session, NEW w
    PROVE  [n EXCEPT !.sweep[s] = w] = Sweeping(n, n.swept, s, w)
  <1> DEFINE W == [n.sweep EXCEPT ![s] = w]
             a == [n EXCEPT !.sweep[s] = w]
             b == Sweeping(n, n.swept, s, w)
  <1>1. a = [n EXCEPT !.sweep = W]
    BY DEF NetType
  <1>2. b = [n EXCEPT !.swept = n.swept, !.sweep = W]
    BY DEF Sweeping, NetType
  <1> HIDE DEF W, a, b
  <1>3. a = b
    BY <1>1, <1>2 DEF NetType
  <1> QED  BY <1>3 DEF a, b

(* What the sweep needs of the network *)
LEMMA ReadyToSweep ==
    ASSUME NEW n, NetType(n), NEW I, Agrees(n, I), Rest(n), NEW s \in Session
    PROVE  /\ SweepsAgree(n) /\ Places(n) /\ InOrder(n)
           /\ \A x \in InTable(n) : LET r == n.exchanges[x].session
                IN  r = s \/ r \in n.listed \/ r \in delayed \/ n.exchanges[x].late \/ HasCloser(n, r)
           /\ \A r \in n.listed : peer[r] # NoPeer
           /\ \A r \in n.swept : r \in delayed \/ (r \notin n.listed /\ peer[r] # NoPeer)
           /\ n.swept \in SUBSET Session
           /\ n.sweep[s] \in SweepState /\ n.sweep[s].at \in Exchange \cup {Free}
           /\ n.sweep[s].index \in Index \cup {NoIndex} /\ n.sweep[s].on \in BOOLEAN
  BY DEF Rest, Ended, NetType, SweepState

(* An exchange is closed, and the sweep of its session goes on to one that *)
(* comes after it in the map: the index of the first is free by now.       *)
LEMMA SweepOneKeeps ==
    ASSUME NEW n, NetInv(n), NEW s \in Session, n.sweep[s].on, n.sweep[s].at # Free
    PROVE  LET c == Close(n, n.sweep[s].at)
               m == [c EXCEPT !.sweep[s].at = Following(c, s, n.sweep[s].at)]
           IN  Kept(n, m)
  <1> DEFINE e == n.sweep[s].at
             c == Close(n, e)
             E == {f \in Of(c, s) : c.exchanges[f].place > c.exchanges[e].place}
             f == FirstOf(c, s, E)
             w == [c.sweep[s] EXCEPT !.at = f]
             m == [c EXCEPT !.sweep[s].at = Following(c, s, e)]
  <1>1. /\ NetType(n) /\ Agrees(n, {}) /\ Rest(n)
        /\ e \in Exchange /\ n.exchanges[e] # Unused /\ n.exchanges[e].session = s
        /\ s \in n.swept /\ n.exchanges[e] \in ExchangeState
    <2>1. NetType(n) /\ Agrees(n, {}) /\ Rest(n)
      BY DEF NetInv
    <2>2. e \in Exchange /\ n.exchanges[e] # Unused /\ n.exchanges[e].session = s /\ s \in n.swept
      BY <2>1, ReadyToSweep DEF SweepsAgree
    <2> QED  BY <2>1, <2>2, UsedIsState
  <1> DEFINE i == n.exchanges[e].at
  <1>2. /\ NetInv(c) /\ Less(n, c) /\ c.listed = n.listed /\ n.swept \subseteq c.swept
        /\ c.sweep[s] = n.sweep[s]
        /\ n.table[i] # Free /\ n.exchanges[n.table[i]].session \in n.swept => c.table[i] = Free
    <2> HIDE DEF e
    <2> QED  BY <1>1, CloseKeeps
  <1>3. m = [c EXCEPT !.sweep[s] = w]
    BY DEF Following
  <1> HIDE DEF c, e, m
  <1>4. NetType(c) /\ Agrees(c, {}) /\ EntriesAgree(c, {}) /\ Rest(c)
    BY <1>2 DEF NetInv, Agrees
  <1>5. /\ f \in Exchange \cup {Free}
        /\ f # Free => c.exchanges[f] # Unused /\ c.exchanges[f].session = s
        /\ \A x \in E : f # Free /\ c.exchanges[f].place <= c.exchanges[x].place
    BY <1>4, FirstOfIs
  <1> HIDE DEF f
  <1>6. /\ w \in SweepState /\ (w.on <=> c.sweep[s].on) /\ w.at = f /\ w.index = c.sweep[s].index
    <2>1. c.sweep[s] \in SweepState
      BY <1>4 DEF NetType
    <2> QED  BY <1>5, <2>1 DEF SweepState
  <1> HIDE DEF w
  <1>7. /\ c.exchanges[e].place = n.exchanges[e].place /\ c.exchanges[e].at = i
        /\ c.exchanges[e] # Unused
    BY <1>1, <1>2 DEF Less, Further
  (* What is left has a later place. *)
  <1>8. ASSUME HasCloser(c, s), s \notin delayed, NEW x \in Of(c, s), ~c.exchanges[x].late
        PROVE  x \in E
    <2>1. HasCloser(n, s) /\ c.sweep[s].at = e
      BY <1>2, <1>8 DEF HasCloser, e
    <2>2. c.exchanges[e].place <= c.exchanges[x].place
      BY <1>4, <1>8, <2>1 DEF Rest, InOrder
    <2>3. x \in Made(c) /\ e \in Made(c)
      BY <1>1, <1>4, <1>7, OfMade DEF Made
    <2>4. c.exchanges[x].place # c.exchanges[e].place
      <3> SUFFICES ASSUME c.exchanges[x].place = c.exchanges[e].place PROVE FALSE
        OBVIOUS
      <3>1. c.exchanges[x].at = i
        BY <1>4, <1>7, <2>3 DEF Rest, Places
      <3>2. PICK j \in Index : c.table[j] = x /\ c.table[j] # Free
        BY <1>8 DEF Of, InTable
      <3>3. j = i
        BY <1>4, <3>1, <3>2 DEF EntriesAgree
      <3>4. n.table[i] = x /\ c.table[i] # Free /\ x \in Exchange
        BY <1>2, <3>2, <3>3, <2>3 DEF Less, Made
      <3>5. n.exchanges[x].session = s
        BY <1>2, <1>8, <3>4 DEF Of, Less, Further
      <3> QED  BY <1>1, <1>2, <3>4, <3>5, FreeIsNoExchange
    <2>5. c.exchanges[x].place \in Nat /\ c.exchanges[e].place \in Nat
      <3>1. c.exchanges[x] \in ExchangeState /\ c.exchanges[e] \in ExchangeState
        BY <1>4, <2>3, UsedIsState DEF Made
      <3> QED  BY <3>1 DEF ExchangeState
    <2> QED  BY <2>2, <2>4, <2>5
  <1> HIDE DEF E
  <1>9. MaySweep(c, c.swept, s, w, {})
    <2>1. /\ c.swept \in SUBSET Session /\ s \in c.swept
          /\ \A r \in c.swept : r \in delayed \/ (r \notin c.listed /\ peer[r] # NoPeer)
      BY <1>1, <1>2, <1>4, ReadyToSweep
    <2>2. \A j \in Index \ {} : Awaits(c, s, j) => w.on /\ w.index = j
      BY <1>6 DEF Awaits
    <2>3. w.on => /\ s \in c.swept
                  /\ w.at # Free => c.exchanges[w.at] # Unused /\ c.exchanges[w.at].session = s
                  /\ w.index # NoIndex => s \in delayed /\ ClosedAt(c, w.index)
      BY <1>4, <1>5, <1>6 DEF Rest, SweepsAgree
    <2>4. HasCloser(c, s) <=> w.on /\ w.index = NoIndex
      BY <1>6 DEF HasCloser
    <2>5. w.on /\ w.index = NoIndex /\ s \notin delayed => \A x \in Of(c, s) :
            \/ c.exchanges[x].late
            \/ w.at # Free /\ c.exchanges[w.at].place <= c.exchanges[x].place
      BY <1>5, <1>6, <1>8, <2>4
    <2>6. \A x \in Of(c, s) :
            \/ s \in c.listed \/ s \in delayed \/ c.exchanges[x].late
            \/ w.on /\ w.index = NoIndex
      BY <1>4, <2>4 DEF Rest, Ended, Of
    <2> QED  BY <1>6, <2>1, <2>2, <2>3, <2>5, <2>6 DEF MaySweep
  <1> DEFINE g == Sweeping(c, c.swept, s, w)
  <1>10. NetType(g) /\ Agrees(g, {}) /\ Rest(g) /\ Less(c, g)
    <2>1. /\ SweepsAgree(c) /\ Places(c) /\ InOrder(c)
          /\ \A x \in InTable(c) : LET r == c.exchanges[x].session
                IN  r = s \/ r \in c.listed \/ r \in delayed \/ c.exchanges[x].late \/ HasCloser(c, r)
          /\ \A r \in c.listed : peer[r] # NoPeer
      BY <1>4, ReadyToSweep
    <2> DEFINE S == c.swept
    <2>2. MaySweep(c, S, s, w, {})
      BY <1>9
    <2> HIDE DEF S
    <2>3. /\ NetType(Sweeping(c, S, s, w)) /\ Agrees(Sweeping(c, S, s, w), {})
          /\ Rest(Sweeping(c, S, s, w)) /\ Less(c, Sweeping(c, S, s, w))
      BY <1>4, <2>1, <2>2, SweepKeeps
    <2> QED  BY <2>3 DEF S
  <1>11. m = g
    BY <1>3, <1>4, SameSweeps
  <1> HIDE DEF g
  <1>12. Kept(n, g)
    <2>1. Less(n, g)
      BY <1>2, <1>10 DEF Less, Further
    <2> QED  BY <1>1, <1>10, <2>1, LessKept DEF NetInv
  <1> QED  BY <1>11, <1>12 DEF m, c, e

(* The sweep of session s is over; what it was awaited for is J.           *)
LEMMA NoSweepKeeps ==
    ASSUME NEW n, NetInv(n), NEW s \in Session, NEW J,
           n.sweep[s].index \in Index => n.sweep[s].index \in J,
           s \in delayed \/ \A x \in Of(n, s) : n.exchanges[x].late \/ s \in n.listed
    PROVE  LET m == [n EXCEPT !.sweep[s] = NoSweep]
           IN  /\ NetType(m) /\ Agrees(m, J) /\ Rest(m) /\ Less(n, m)
               /\ m.listed = n.listed /\ m.exchanges = n.exchanges
  <1> DEFINE S == n.swept
             g == Sweeping(n, S, s, NoSweep)
  <1>1. NetType(n) /\ Agrees(n, {}) /\ Rest(n)
    BY DEF NetInv
  <1>2. NoSweep \in SweepState /\ ~NoSweep.on
    BY DEF NoSweep, SweepState
  <1>3. /\ SweepsAgree(n) /\ Places(n) /\ InOrder(n)
        /\ \A x \in InTable(n) : LET r == n.exchanges[x].session
              IN  r = s \/ r \in n.listed \/ r \in delayed \/ n.exchanges[x].late \/ HasCloser(n, r)
        /\ \A r \in n.listed : peer[r] # NoPeer
        /\ \A r \in S : r \in delayed \/ (r \notin n.listed /\ peer[r] # NoPeer)
        /\ S \in SUBSET Session /\ n.swept \subseteq S
    BY <1>1, ReadyToSweep
  <1>4. [n EXCEPT !.sweep[s] = NoSweep] = g
    BY <1>1, SameSweeps
  <1> HIDE DEF S
  <1>5. MaySweep(n, S, s, NoSweep, J)
    <2>1. \A j \in Index \ J : ~Awaits(n, s, j)
      BY DEF Awaits
    <2> QED  BY <1>2, <1>3, <2>1 DEF MaySweep
  <1>6. NetType(g) /\ Agrees(g, J) /\ Rest(g) /\ Less(n, g) /\ g.listed = n.listed
        /\ g.exchanges = n.exchanges
    BY <1>1, <1>3, <1>5, SweepKeeps
  <1> QED  BY <1>4, <1>6

(* The index is freed once its session has been destroyed.                 *)
LEMMA SweepEndsKeeps ==
    ASSUME NEW n, NetInv(n), NEW s \in Session, n.sweep[s].on, n.sweep[s].index # NoIndex, NEW fails
    PROVE  LET over == [n EXCEPT !.sweep[s] = NoSweep]
               gone == IF fails THEN over ELSE HungUp([over EXCEPT !.listed = @ \ {s}], s)
           IN  Kept(n, Removed(gone, {n.sweep[s].index}))
  <1> DEFINE i == n.sweep[s].index
             over == [n EXCEPT !.sweep[s] = NoSweep]
             less == [over EXCEPT !.listed = @ \ {s}]
             gone == IF fails THEN over ELSE HungUp(less, s)
  <1>1. NetType(n) /\ i \in Index /\ s \in delayed /\ ClosedAt(n, i)
    <2>1. NetType(n) /\ Agrees(n, {}) /\ Rest(n)
      BY DEF NetInv
    <2> QED  BY <2>1, ReadyToSweep DEF SweepsAgree
  <1> HIDE DEF i
  <1>2. /\ NetType(over) /\ Agrees(over, {i}) /\ Rest(over) /\ Less(n, over)
        /\ ClosedAt(over, i)
    <2>1. i \in {i} /\ i = n.sweep[s].index
      BY DEF i
    <2> DEFINE J == {i}
    <2>2. n.sweep[s].index \in Index => n.sweep[s].index \in J
      BY <2>1
    <2> HIDE DEF J, over
    <2>3. NetType(over) /\ Agrees(over, J) /\ Rest(over) /\ Less(n, over)
      BY <1>1, <2>2, NoSweepKeeps DEF over
    <2>4. ClosedAt(over, i)
      BY <1>1, <2>3, LessTable
    <2> QED  BY <2>3, <2>4 DEF J
  <1> HIDE DEF over
  <1>3. /\ NetType(less) /\ less.table = over.table /\ less.exchanges = over.exchanges
        /\ less.swept = over.swept /\ less.sweep = over.sweep
        /\ less.listed = over.listed \ {s}
    BY <1>2 DEF NetType
  <1> HIDE DEF less
  <1>4. /\ NetType(gone) /\ Agrees(gone, {i}) /\ Rest(gone) /\ Less(over, gone)
        /\ ClosedAt(gone, i)
    <2>1. CASE fails
      <3>1. gone = over /\ Less(over, over)
        BY <1>2, <2>1 DEF Less, Further
      <3> QED  BY <1>2, <3>1
    <2>2. CASE ~fails
      <3> DEFINE h == HungUp(less, s)
      <3>1. gone = h
        BY <2>2
      <3>2. /\ NetType(h) /\ h.table = over.table /\ h.exchanges = over.exchanges
            /\ h.listed = over.listed \ {s} /\ h.swept = over.swept /\ h.sweep = over.sweep
        BY <1>3, HungUpType
      <3> HIDE DEF h, gone
      <3>3. h.listed \subseteq over.listed /\ over.listed \subseteq h.listed \cup delayed
        BY <1>1, <3>2
      <3>4. /\ Agrees(h, {i}) /\ Rest(h) /\ Less(over, h) /\ \A j : ClosedAt(h, j) <=> ClosedAt(over, j)
        BY <1>2, <3>2, <3>3, ChannelsKeep
      <3> QED  BY <1>2, <3>1, <3>2, <3>4
    <2> QED  BY <2>1, <2>2
  <1> HIDE DEF gone
  <1> DEFINE m == Removed(gone, {i})
  <1>5. NetInv(m) /\ Less(gone, m)
    BY <1>4, RemovedKeeps
  <1> HIDE DEF m
  <1>6. Less(n, m)
    <2>1. Further(n, m)
      BY <1>2, <1>4, <1>5 DEF Less, Further
    <2>2. \A j \in Index : m.table[j] = n.table[j] \/ m.table[j] = Free
      BY <1>2, <1>4, <1>5 DEF Less
    <2> QED  BY <1>5, <2>1, <2>2 DEF Less
  <1>7. Kept(n, m)
    BY <1>1, <1>5, <1>6, LessKept
  <1> QED  BY <1>7 DEF m, gone, less, over, i

(* The closer has met every exchange from before the end of its session.   *)
LEMMA CloserEndsKeeps ==
    ASSUME NEW n, NetInv(n), NEW s \in Session, HasCloser(n, s), n.sweep[s].at = Free
    PROVE  Kept(n, [n EXCEPT !.sweep[s] = NoSweep])
  <1> DEFINE m == [n EXCEPT !.sweep[s] = NoSweep]
             J == {}
  <1>1. NetType(n) /\ Rest(n)
    BY DEF NetInv
  <1>2. n.sweep[s].index \in Index => n.sweep[s].index \in J
    BY NoIndexIsNone DEF HasCloser
  <1>3. s \in delayed \/ \A x \in Of(n, s) : n.exchanges[x].late \/ s \in n.listed
    BY <1>1 DEF Rest, InOrder
  <1> HIDE DEF J, m
  <1>4. NetType(m) /\ Agrees(m, J) /\ Rest(m) /\ Less(n, m)
    BY <1>2, <1>3, NoSweepKeeps DEF m
  <1>5. Kept(n, m)
    BY <1>1, <1>4, LessKept DEF NetInv, J
  <1> QED  BY <1>5 DEF m

-----------------------------------------------------------------------------
(* The steps. *)

LEMMA InitInv == Init => IInv
  <1> SUFFICES ASSUME Init PROVE IInv
    OBVIOUS
  <1>1. /\ net.listed = {} /\ net.swept = {} /\ net.table = [i \in Index |-> Free]
        /\ net.exchanges = [e \in Exchange |-> Unused] /\ net.sweep = [s \in Session |-> NoSweep]
        /\ NetType(net)
    <2>1. NoSweep \in SweepState
      BY DEF NoSweep, SweepState
    <2> QED  BY <2>1 DEF Init, NetType
  <1>2. InTable(net) = {} /\ Made(net) = {} /\ \A s \in Session : ~net.sweep[s].on
    BY <1>1 DEF InTable, Made, NoSweep
  <1>3. \A s : Active(net, s) = {}
    BY <1>2 DEF Active, Of
  <1>4. Agrees(net, {})
    BY <1>1 DEF Agrees, EntriesAgree, UnderWay, Unused
  <1>5. Limited(net)
    BY <1>3, FS_EmptySet, SessionsAssumption DEF Limited
  <1>6. Rest(net)
    BY <1>1, <1>2 DEF Rest, SweepsAgree, Places, InOrder, HasCloser, Ended
  <1>7. Fresh
    BY <1>1, SessionsAssumption DEF Fresh, Waiting, Init
  <1> QED  BY <1>1, <1>4, <1>5, <1>6, <1>7 DEF IInv, NetInv

(* A session that is to end later or has been established stays so.        *)
LEMMA NetStays ==
    ASSUME NetInv(net'), Limited(net'), delayed \subseteq delayed',
           \A s \in Session : peer[s] # NoPeer => peer'[s] # NoPeer
    PROVE  NetInv(net)' /\ Limited(net)'
  <1>1. \A s \in net'.listed \cup net'.swept : s \in Session
    BY DEF NetInv, NetType
  <1>2. Ended(net)'
    BY <1>1 DEF NetInv, Rest, Ended, InTable, HasCloser
  <1>3. SweepsAgree(net)'
    BY DEF NetInv, Rest, SweepsAgree, ClosedAt
  <1>4. InOrder(net)'
    BY DEF NetInv, Rest, InOrder, HasCloser, Of, InTable
  <1>5. Places(net)'
    BY DEF NetInv, Rest, Places, Made
  <1>6. NetType(net)' /\ Limited(net)'
    BY DEF NetInv, NetType, Limited, Active, Of, InTable
  <1>7. Agrees(net, {})'
    BY DEF NetInv, Agrees, EntriesAgree, UnderWay, Rival, Awaits
  <1> QED  BY <1>2, <1>3, <1>4, <1>5, <1>6, <1>7 DEF NetInv, Rest

LEMMA FreshStays ==
    ASSUME Fresh, begun' = begun, \A d \in Waiting' : d \in Waiting \/ d.then = Nothing,
           \A d \in ending' \cap closing' : d.then = Nothing,
           \A x \in Exchange : net'.exchanges[x] = Unused <=> net.exchanges[x] = Unused
    PROVE  Fresh'
  <1>1. \A d \in Waiting' : d.then # Nothing => d \in Waiting
    OBVIOUS
  <1>2. \A d \in Waiting : d.then # Nothing => d.then.id \in Exchange
    BY DEF Fresh, Opening
  <1> QED  BY <1>1, <1>2 DEF Fresh

(* The next exchange is made at once, or when a session has ended.         *)
LEMMA MadeFresh ==
    ASSUME Fresh, begun < MaxExchanges, begun' = begun + 1, UNCHANGED <<ending, closing>>,
           \A x \in Exchange : net'.exchanges[x] = Unused <=> net.exchanges[x] = Unused /\ x # begun + 1
    PROVE  Fresh'
  <1>1. begun \in Nat /\ begun + 1 \in 0 .. MaxExchanges
    BY SessionsAssumption DEF Fresh
  <1>2. \A d \in Waiting : d.then # Nothing => d.then.id \in Exchange /\ d.then.id <= begun
    BY DEF Fresh, Opening
  <1>3. \A e \in Exchange : e > begun + 1 => net'.exchanges[e] = Unused
    <2> TAKE e \in Exchange
    <2> HAVE e > begun + 1
    <2>1. e > begun /\ e # begun + 1
      BY <1>1 DEF Exchange
    <2> QED  BY <2>1 DEF Fresh
  <1>4. \A d \in Waiting : d.then # Nothing =>
            d.then.id <= begun + 1 /\ net'.exchanges[d.then.id] = Unused
    <2> TAKE d \in Waiting
    <2> HAVE d.then # Nothing
    <2>1. d.then.id \in Exchange /\ d.then.id <= begun
      BY <1>2
    <2>2. d.then.id # begun + 1 /\ d.then.id <= begun + 1
      BY <1>1, <2>1 DEF Exchange
    <2> QED  BY <2>1, <2>2 DEF Fresh
  <1>5. Waiting' = Waiting
    BY DEF Waiting
  <1> QED  BY <1>1, <1>3, <1>4, <1>5 DEF Fresh

LEMMA WaitsFresh ==
    ASSUME Fresh, begun < MaxExchanges, begun' = begun + 1, NEW o \in Opening, o.id = begun + 1,
           NEW d, d.then = o, ending' = ending \cup {d}, closing' = closing,
           net'.exchanges = net.exchanges
    PROVE  Fresh'
  <1>1. begun \in Nat /\ begun + 1 \in 0 .. MaxExchanges /\ o.id \in Exchange
    BY SessionsAssumption DEF Fresh, Opening
  <1>2. \A e \in Exchange : e > begun => net'.exchanges[e] = Unused
    BY DEF Fresh
  <1>3. \A e \in Exchange : e > begun + 1 => e > begun
    BY <1>1 DEF Exchange
  <1>4. net'.exchanges[o.id] = Unused
    BY <1>1, <1>2
  <1>5. \A c \in Waiting : c.then # Nothing =>
            c.then \in Opening /\ c.then.id <= begun + 1 /\ c.then.id # begun + 1
            /\ net'.exchanges[c.then.id] = Unused
    <2> TAKE c \in Waiting
    <2> HAVE c.then # Nothing
    <2>1. c.then \in Opening /\ c.then.id \in Exchange /\ c.then.id <= begun
          /\ net.exchanges[c.then.id] = Unused
      BY DEF Fresh, Opening
    <2> QED  BY <1>1, <2>1 DEF Exchange
  <1>6. Waiting' = Waiting \cup {d}
    BY DEF Waiting
  <1>7. \A c \in Waiting' : c.then # Nothing =>
            /\ c.then \in Opening /\ c.then.id <= begun + 1
            /\ net'.exchanges[c.then.id] = Unused
            /\ \A b \in Waiting' : b.then # Nothing /\ b.then.id = c.then.id => b = c
    <2> TAKE c \in Waiting'
    <2> HAVE c.then # Nothing
    <2>1. CASE c \in Waiting
      BY <1>5, <1>6, <2>1 DEF Fresh
    <2>2. CASE c = d
      BY <1>1, <1>4, <1>5, <1>6, <2>2
    <2> QED  BY <1>6, <2>1, <2>2
  <1>8. \A c \in ending' \cap closing' : c.then = Nothing
    <2>1. \A c \in closing : c \in Waiting
      BY DEF Waiting
    <2> QED  BY <1>5, <2>1 DEF Fresh
  <1> QED  BY <1>1, <1>2, <1>3, <1>7, <1>8 DEF Fresh

LEMMA AcceptInv ==
    ASSUME IInv, NEW o \in Opening, o.id = begun + 1, begun < MaxExchanges, begun' = begun + 1,
           Accept(o), UNCHANGED <<peer, delayed, closing>>
    PROVE  IInv'
  <1> DEFINE Pushed(w) == [net EXCEPT !.channels[peer[o.session]] =
                                Append(@, [session |-> o.session, watched |-> w])]
  <1>0. /\ NetInv(net) /\ NetType(net) /\ Agrees(net, {}) /\ Rest(net) /\ Limited(net) /\ Fresh
        /\ o.id \in Exchange /\ begun \in Nat
    BY DEF IInv, NetInv, Fresh, Opening
  <1>1. ASSUME NEW w
        PROVE  NetInv(Pushed(w)) /\ Limited(Pushed(w)) /\ Pushed(w).exchanges = net.exchanges
    <2> DEFINE X == [net.channels EXCEPT ![peer[o.session]] =
                        Append(@, [session |-> o.session, watched |-> w])]
               m == Pushed(w)
    <2>1. m = [net EXCEPT !.channels = X]
      BY <1>0 DEF NetType
    <2> HIDE DEF X, m
    <2>2. /\ NetType(m) /\ m.table = net.table /\ m.exchanges = net.exchanges
          /\ m.listed = net.listed /\ m.swept = net.swept /\ m.sweep = net.sweep
      BY <1>0, <2>1 DEF NetType
    <2>3. Agrees(m, {}) /\ Rest(m) /\ Less(net, m)
      BY <1>0, <2>2, ChannelsKeep
    <2>4. NetInv(m) /\ Limited(m)
      BY <1>0, <2>2, <2>3, LessKeeps DEF NetInv
    <2> QED  BY <2>2, <2>4 DEF m
  <1>2. net.exchanges[o.id] = Unused
    BY <1>0 DEF Fresh
  <1>3. CASE /\ net' \in AddExchange(net, o) \cup AddExchange(Pushed(TRUE), o)
             /\ UNCHANGED ending
    <2>1. PICK n : /\ NetInv(n) /\ Limited(n) /\ n.exchanges = net.exchanges
                   /\ net' \in AddExchange(n, o)
      BY <1>0, <1>1, <1>3
    <2>2. /\ NetInv(net') /\ Limited(net')
          /\ \A x \in Exchange : net'.exchanges[x] = Unused <=> net.exchanges[x] = Unused /\ x # o.id
      BY <1>2, <2>1, AddKeeps
    <2>3. NetInv(net)' /\ Limited(net)'
      BY <2>2, NetStays
    <2>4. Fresh'
      BY <1>0, <1>3, <2>2, MadeFresh
    <2> QED  BY <2>3, <2>4 DEF IInv
  <1>4. CASE /\ net' = Pushed(FALSE)
             /\ \E v : ending' = ending \cup
                    {[session |-> v, delay |-> FALSE, say |-> FALSE, then |-> o]}
    <2>1. NetInv(net') /\ Limited(net') /\ net'.exchanges = net.exchanges
      BY <1>1, <1>4
    <2>2. NetInv(net)' /\ Limited(net)'
      BY <2>1, NetStays
    <2>3. Fresh'
      BY <1>0, <1>4, <2>1, WaitsFresh
    <2> QED  BY <2>2, <2>3 DEF IInv
  <1> QED  BY <1>3, <1>4 DEF Accept

LEMMA ReceiveInv ==
    ASSUME IInv, NEW s \in Session, NEW i \in Index, NEW state \in {"open", "acking"},
           Receive(s, i, state)
    PROVE  IInv'
  <1> DEFINE o == [id |-> begun + 1, session |-> s, at |-> i, state |-> state]
  <1>1. begun + 1 \in Exchange
    BY SessionsAssumption DEF IInv, Fresh, Receive, Exchange
  <1>2. o \in Opening /\ o.id = begun + 1
    BY <1>1 DEF Opening
  <1>3. /\ Accept(o) /\ begun < MaxExchanges /\ begun' = begun + 1
        /\ UNCHANGED <<peer, delayed, closing>>
    BY DEF Receive
  <1> HIDE DEF o
  <1> QED  BY <1>2, <1>3, AcceptInv

LEMMA InitiateInv == ASSUME IInv, NEW p \in Peer, Initiate(p) PROVE IInv'
  <1>1. PICK s \in Session :
            net' \in AddExchange(net, [id |-> begun + 1, at |-> <<begun + 1, "own">>,
                                       session |-> s, state |-> "open"])
    BY DEF Initiate
  <1> DEFINE o == [id |-> begun + 1, at |-> <<begun + 1, "own">>, session |-> s, state |-> "open"]
  <1>2. /\ begun < MaxExchanges /\ begun' = begun + 1
        /\ UNCHANGED <<peer, delayed, ending, closing>>
    BY DEF Initiate
  <1>3. begun \in Nat /\ begun + 1 \in Exchange /\ begun + 1 > begun
    BY <1>2, SessionsAssumption DEF IInv, Fresh, Exchange
  <1>4. o \in Opening /\ o.id = begun + 1
    BY <1>3 DEF Opening, Index
  <1> HIDE DEF o
  <1>5. net.exchanges[o.id] = Unused
    BY <1>3, <1>4 DEF IInv, Fresh
  <1>6. /\ NetInv(net') /\ Limited(net')
        /\ \A x \in Exchange : net'.exchanges[x] = Unused <=> net.exchanges[x] = Unused /\ x # o.id
    BY <1>1, <1>4, <1>5, AddKeeps DEF IInv, o
  <1>7. NetInv(net)' /\ Limited(net)'
    BY <1>2, <1>6, NetStays
  <1>8. Fresh'
    BY <1>2, <1>4, <1>6, MadeFresh DEF IInv
  <1> QED  BY <1>7, <1>8 DEF IInv

(* The net is kept, and nothing else of the invariant changes.             *)
LEMMA KeptInv ==
    ASSUME IInv, Kept(net, net'), UNCHANGED <<peer, delayed, ending, closing, begun>>
    PROVE  IInv'
  <1>1. NetInv(net') /\ Limited(net')
    BY DEF IInv, Kept
  <1>2. NetInv(net)' /\ Limited(net)'
    BY <1>1, NetStays
  <1>3. Waiting' = Waiting /\ ending' \cap closing' = ending \cap closing
    BY DEF Waiting
  <1>4. Fresh'
    BY <1>3, FreshStays DEF IInv, Kept, Fresh
  <1> QED  BY <1>2, <1>4 DEF IInv

LEMMA CloseInv ==
    ASSUME IInv, NEW e \in Exchange, Finish(e) \/ Drained(e) \/ CloseAgain(e)
    PROVE  IInv'
  <1>1. NetInv(net) /\ NetType(net) /\ Agrees(net, {}) /\ Rest(net)
    BY DEF IInv, NetInv
  <1>2. net.exchanges[e] # Unused
    BY DEF Finish, Drained, CloseAgain, Unused
  <1>3. ASSUME net' = Close(net, e) PROVE Kept(net, net')
    <2>1. NetInv(net') /\ Less(net, net')
      BY <1>1, <1>2, <1>3, CloseKeeps
    <2> QED  BY <1>1, <2>1, LessKept
  <1>4. ASSUME net' = Drain(net, e), net.exchanges[e].state = "open" PROVE Kept(net, net')
    <2>1. NetInv(net') /\ Less(net, net')
      BY <1>1, <1>4, DrainKeeps
    <2> QED  BY <1>1, <2>1, LessKept
  <1>5. ASSUME CloseAgain(e) PROVE Kept(net, net')
    <2> DEFINE i == net.exchanges[e].at
    <2>1. i \in Index /\ ClosedAt(net, i) /\ net' = DeleteExchange(net, i)
      BY <1>1, <1>2, <1>5, UsedIsState DEF CloseAgain, ClosedAt, ExchangeState
    <2> HIDE DEF i
    <2>2. Agrees(net, {i})
      BY <1>1 DEF Agrees, EntriesAgree
    <2>3. NetInv(net') /\ Less(net, net')
      BY <1>1, <2>1, <2>2, DeleteKeeps
    <2> QED  BY <1>1, <2>3, LessKept
  <1>6. Kept(net, net')
    BY <1>3, <1>4, <1>5 DEF Finish, Drained
  <1>7. UNCHANGED <<peer, delayed, ending, closing, begun>>
    BY DEF Finish, Drained, CloseAgain
  <1> QED  BY <1>6, <1>7, KeptInv

LEMMA EstablishInv ==
    ASSUME PeerType, IInv, NEW s \in Session, NEW p \in Peer, Establish(s, p)
    PROVE  IInv'
  <1>1. NetInv(net) /\ NetType(net) /\ Agrees(net, {}) /\ Rest(net) /\ Limited(net) /\ Fresh
    BY DEF IInv, NetInv
  <1>2. /\ NetType(net') /\ net'.table = net.table /\ net'.exchanges = net.exchanges
        /\ net'.listed = net.listed \cup {s} /\ net'.swept = net.swept /\ net'.sweep = net.sweep
    BY <1>1 DEF Establish, NetType
  <1>3. /\ peer[s] = NoPeer /\ peer'[s] # NoPeer /\ UNCHANGED <<delayed, ending, closing, begun>>
        /\ \A r \in Session \ {s} : peer'[r] = peer[r]
    BY SessionsAssumption DEF Establish, PeerType
  <1>4. /\ InTable(net)' = InTable(net) /\ Made(net)' = Made(net)
        /\ \A r : Of(net, r)' = Of(net, r) /\ Active(net, r)' = Active(net, r)
    BY <1>2 DEF InTable, Made, Of, Active
  <1>5. Ended(net)'
    <2>1. \A r \in net.listed \cup net.swept : r \in Session
      BY <1>1 DEF NetType
    <2>2. \A r \in net'.listed : peer'[r] # NoPeer
      BY <1>1, <1>2, <1>3, <2>1 DEF Rest, Ended
    <2>3. \A r \in net'.swept : r \in delayed' \/ (r \notin net'.listed /\ peer'[r] # NoPeer)
      BY <1>1, <1>2, <1>3, <2>1 DEF Rest, Ended
    <2>4. \A e \in InTable(net)' : LET r == net'.exchanges[e].session
              IN  \/ r \in net'.listed \/ r \in delayed' \/ net'.exchanges[e].late
                  \/ net'.sweep[r].on /\ net'.sweep[r].index = NoIndex
      <3> TAKE e \in InTable(net)'
      <3>1. e \in InTable(net) /\ net'.exchanges[e] = net.exchanges[e]
        BY <1>2, <1>4
      <3> DEFINE r == net.exchanges[e].session
      <3>2. r \in net.listed \/ r \in delayed \/ net.exchanges[e].late \/ HasCloser(net, r)
        BY <1>1, <3>1 DEF Rest, Ended
      <3>3. r \in net.listed => r \in net'.listed
        BY <1>2, <1>3
      <3>4. HasCloser(net, r) => net'.sweep[r].on /\ net'.sweep[r].index = NoIndex
        BY <1>2 DEF HasCloser
      <3> QED  BY <1>2, <1>3, <3>1, <3>2, <3>3, <3>4
    <2> QED  BY <2>2, <2>3, <2>4 DEF Ended, HasCloser
  <1>6. Agrees(net, {})'
    <2>1. EntriesAgree(net, {})'
      BY <1>1, <1>2 DEF Agrees, EntriesAgree, UnderWay, Awaits
    <2> QED  BY <1>1, <1>2, <2>1 DEF Agrees, UnderWay, Rival
  <1>7. SweepsAgree(net)' /\ Places(net)' /\ Limited(net)'
    BY <1>1, <1>2, <1>3, <1>4 DEF Rest, SweepsAgree, ClosedAt, Places, Limited
  <1>8. InOrder(net)'
    BY <1>1, <1>2, <1>3, <1>4 DEF Rest, InOrder, HasCloser
  <1>9. Fresh'
    <2>1. Waiting' = Waiting
      BY <1>3 DEF Waiting
    <2> QED  BY <1>1, <1>2, <1>3, <2>1, FreshStays DEF Fresh
  <1>10. NetType(net)'
    BY <1>2 DEF NetType
  <1> QED  BY <1>5, <1>6, <1>7, <1>8, <1>9, <1>10 DEF IInv, NetInv, Rest

LEMMA EndSessionInv ==
    ASSUME IInv, NEW s \in Session, NEW delay \in BOOLEAN, NEW say \in BOOLEAN,
           EndSession(s, delay, say)
    PROVE  IInv'
  <1> DEFINE d == [session |-> s, delay |-> delay, say |-> say, then |-> Nothing]
  <1>1. /\ UNCHANGED <<peer, delayed, closing, begun, net>>
        /\ ending' = ending \cup {d} /\ d.then = Nothing
    BY DEF EndSession
  <1> HIDE DEF d
  <1>2. NetInv(net)' /\ Limited(net)'
    BY <1>1, NetStays DEF IInv
  <1>3. /\ \A c \in Waiting' : c \in Waiting \/ c.then = Nothing
        /\ \A c \in ending' \cap closing' : c.then = Nothing
    BY <1>1 DEF Waiting, IInv, Fresh
  <1>4. Fresh'
    BY <1>1, <1>3, FreshStays DEF IInv
  <1> QED  BY <1>2, <1>4 DEF IInv

(* What waited for the end of a session is done.                           *)
LEMMA DestroyedInv ==
    ASSUME IInv, NEW n, Kept(net, n), NEW d \in Waiting, net' \in Destroyed(n, d),
           Waiting' \subseteq Waiting, d.then # Nothing => d \notin Waiting',
           ending' \cap closing' \subseteq ending \cap closing,
           UNCHANGED <<peer, begun>>, delayed \subseteq delayed'
    PROVE  IInv'
  <1> DEFINE s == d.session
             h == HungUp(n, s)
             v == Evicted(h, s, d.then)
  <1>0. /\ NetInv(n) /\ Limited(n) /\ Fresh
        /\ \A x \in Exchange : n.exchanges[x] = Unused <=> net.exchanges[x] = Unused
    BY DEF IInv, Kept
  <1>1. /\ NetInv(h) /\ Limited(h) /\ h.exchanges = n.exchanges
    BY <1>0, HungUpKeeps DEF Kept
  <1>2. CASE d.then = Nothing
    <2>1. net' = h
      BY <1>2 DEF Destroyed
    <2> HIDE DEF h
    <2>2. NetInv(net)' /\ Limited(net)'
      BY <1>1, <2>1, NetStays
    <2>3. \A c \in ending' \cap closing' : c.then = Nothing
      BY <1>0 DEF Fresh
    <2>4. Fresh'
      BY <1>0, <1>1, <2>1, <2>3, FreshStays
    <2> QED  BY <2>2, <2>4 DEF IInv
  <1>3. CASE d.then # Nothing
    <2>1. net' \in AddExchange(v, d.then)
      BY <1>3 DEF Destroyed
    <2> HIDE DEF h
    <2>2. NetInv(v) /\ Limited(v) /\ v.exchanges = h.exchanges
      BY <1>1, EvictedKeeps DEF Kept
    <2> HIDE DEF v
    <2>3. /\ d.then \in Opening /\ d.then.id \in Exchange /\ d.then.id <= begun
          /\ net.exchanges[d.then.id] = Unused
          /\ \A c \in Waiting : c.then # Nothing /\ c.then.id = d.then.id => c = d
      BY <1>0, <1>3 DEF Fresh, Opening
    <2>4. v.exchanges[d.then.id] = Unused
      BY <1>0, <1>1, <2>2, <2>3
    <2>5. /\ NetInv(net') /\ Limited(net')
          /\ \A x \in Exchange : net'.exchanges[x] = Unused <=> v.exchanges[x] = Unused /\ x # d.then.id
      BY <2>1, <2>2, <2>3, <2>4, AddKeeps
    <2>6. NetInv(net)' /\ Limited(net)'
      BY <2>5, NetStays
    <2>7. \A x \in Exchange : net'.exchanges[x] = Unused <=> net.exchanges[x] = Unused /\ x # d.then.id
      BY <1>0, <1>1, <2>2, <2>5
    <2>8. begun \in 0 .. MaxExchanges
          /\ \A e \in Exchange : e > begun => net'.exchanges[e] = Unused
      <3>1. begun \in Nat /\ \A e \in Exchange : e > begun => e # d.then.id
        BY <1>0, <2>3, SessionsAssumption DEF Fresh, Exchange
      <3> QED  BY <1>0, <2>7, <3>1 DEF Fresh
    <2>9. \A c \in Waiting' : c.then # Nothing =>
            /\ c.then \in Opening /\ c.then.id <= begun
            /\ net'.exchanges[c.then.id] = Unused
            /\ \A b \in Waiting' : b.then # Nothing /\ b.then.id = c.then.id => b = c
      <3> TAKE c \in Waiting'
      <3> HAVE c.then # Nothing
      <3>1. /\ c.then \in Opening /\ c.then.id \in Exchange /\ c.then.id <= begun
            /\ net.exchanges[c.then.id] = Unused
            /\ \A b \in Waiting : b.then # Nothing /\ b.then.id = c.then.id => b = c
        BY <1>0 DEF Fresh, Opening
      <3>2. c.then.id # d.then.id
        BY <1>3, <2>3
      <3> QED  BY <2>7, <3>1, <3>2
    <2>10. \A c \in ending' \cap closing' : c.then = Nothing
      BY <1>0 DEF Fresh
    <2>11. Fresh'
      BY <2>8, <2>9, <2>10 DEF Fresh
    <2> QED  BY <2>6, <2>11 DEF IInv
  <1> QED  BY <1>2, <1>3

(* destroy() goes on, and may have to wait for the closer.                 *)
LEMMA DestroyInv ==
    ASSUME IInv, NEW d \in ending, Destroy(d)
    PROVE  IInv'
  <1> DEFINE s == d.session
             n == Unlisted(net, s)
  <1>0. NetInv(net) /\ Limited(net) /\ Fresh /\ d \in Waiting
    BY DEF IInv, Waiting
  <1>1. /\ UNCHANGED <<peer, begun>> /\ ending' = ending \ {d} /\ delayed \subseteq delayed'
    BY DEF Destroy
  <1>2. Kept(net, n)
    BY <1>0, UnlistedKeeps
  <1>3. CASE Kept(net, net') /\ closing' \in {closing, closing \cup {d}}
    <2>1. NetInv(net)' /\ Limited(net)'
      BY <1>0, <1>1, <1>3, NetStays DEF Kept
    <2>2. /\ \A c \in Waiting' : c \in Waiting
          /\ \A c \in ending' \cap closing' : c.then = Nothing
      BY <1>0, <1>1, <1>3 DEF Waiting, Fresh
    <2>3. Fresh'
      BY <1>0, <1>1, <1>3, <2>2, FreshStays DEF Kept
    <2> QED  BY <2>1, <2>3 DEF IInv
  <1>4. CASE net' \in Destroyed(n, d) /\ closing' = closing
    <2>1. /\ Waiting' \subseteq Waiting /\ (d.then # Nothing => d \notin Waiting')
          /\ ending' \cap closing' \subseteq ending \cap closing
      BY <1>0, <1>1, <1>4 DEF Waiting, Fresh
    <2> HIDE DEF n
    <2> QED  BY <1>0, <1>1, <1>2, <1>4, <2>1, DestroyedInv
  <1>5. \/ net' = HungUp(net, s) /\ closing' = closing
        \/ net' = n /\ closing' = closing \cup {d}
        \/ net' \in Destroyed(n, d) /\ closing' = closing
    BY DEF Destroy
  <1> QED  BY <1>0, <1>2, <1>3, <1>4, <1>5, HungUpKeeps

LEMMA DestroyEndsInv ==
    ASSUME IInv, NEW d \in closing, DestroyEnds(d)
    PROVE  IInv'
  <1>1. /\ UNCHANGED <<peer, begun, ending>> /\ closing' = closing \ {d} /\ delayed' = delayed
        /\ net' \in Destroyed(net, d) /\ d \in Waiting
    BY DEF DestroyEnds, Waiting
  <1>2. /\ Waiting' \subseteq Waiting /\ (d.then # Nothing => d \notin Waiting')
        /\ ending' \cap closing' \subseteq ending \cap closing
    BY <1>1 DEF Waiting, IInv, Fresh
  <1>3. Kept(net, net)
    BY DEF Kept, IInv
  <1> QED  BY <1>1, <1>2, <1>3, DestroyedInv

(* A sweep goes on, or is over.                                            *)
LEMMA SweepInv ==
    ASSUME IInv, NEW s \in Session, SweepOne(s) \/ SweepEnds(s) \/ CloserEnds(s)
    PROVE  IInv'
  <1>0. NetInv(net)
    BY DEF IInv
  <1>1. ASSUME SweepOne(s) PROVE Kept(net, net')
    BY <1>0, <1>1, SweepOneKeeps DEF SweepOne
  <1>2. ASSUME SweepEnds(s) PROVE Kept(net, net')
    <2> DEFINE fails == CloseFails(s)
               over == [net EXCEPT !.sweep[s] = NoSweep]
               gone == IF fails THEN over ELSE HungUp([over EXCEPT !.listed = @ \ {s}], s)
    <2>1. /\ net.sweep[s].on /\ net.sweep[s].index # NoIndex
          /\ net' = Removed(gone, {net.sweep[s].index})
      BY <1>2 DEF SweepEnds
    <2> HIDE DEF fails
    <2> QED  BY <1>0, <2>1, SweepEndsKeeps
  <1>3. ASSUME CloserEnds(s) PROVE Kept(net, net')
    BY <1>0, <1>3, CloserEndsKeeps DEF CloserEnds
  <1>4. UNCHANGED <<peer, delayed, ending, closing, begun>>
    BY DEF SweepOne, SweepEnds, CloserEnds
  <1> QED  BY <1>1, <1>2, <1>3, <1>4, KeptInv

LEMMA NextInv == ASSUME PeerType, IInv, [Next]_vars PROVE IInv'
  <1>1. ASSUME NEW s \in Session, NEW p \in Peer, Establish(s, p) PROVE IInv'
    BY <1>1, EstablishInv
  <1>2. ASSUME NEW s \in Session, NEW x \in PeerId, FirstMessage(s, x) \/ Stray(s, x)
        PROVE  IInv'
    <2>1. <<x, "peer">> \in Index
      BY DEF Index
    <2> QED  BY <1>2, <2>1, ReceiveInv DEF FirstMessage, Stray
  <1>3. ASSUME NEW s \in Session, NEW i \in Index, Duplicate(s, i) PROVE IInv'
    BY <1>3, ReceiveInv DEF Duplicate
  <1>4. ASSUME NEW p \in Peer, Initiate(p) PROVE IInv'
    BY <1>4, InitiateInv
  <1>5. ASSUME NEW e \in Exchange, Finish(e) \/ Drained(e) \/ CloseAgain(e) PROVE IInv'
    BY <1>5, CloseInv
  <1>6. ASSUME NEW s \in Session, NEW delay \in BOOLEAN, NEW say \in BOOLEAN,
               EndSession(s, delay, say)
        PROVE  IInv'
    BY <1>6, EndSessionInv
  <1>7. ASSUME NEW d \in ending, Destroy(d) PROVE IInv'
    BY <1>7, DestroyInv
  <1>8. ASSUME NEW s \in Session, SweepOne(s) \/ SweepEnds(s) \/ CloserEnds(s) PROVE IInv'
    BY <1>8, SweepInv
  <1>9. ASSUME NEW d \in closing, DestroyEnds(d) PROVE IInv'
    BY <1>9, DestroyEndsInv
  <1>10. CASE UNCHANGED vars
    <2>1. Kept(net, net') /\ UNCHANGED <<peer, delayed, ending, closing, begun>>
      BY <1>10 DEF vars, Kept, IInv
    <2> QED  BY <2>1, KeptInv
  <1> QED  BY <1>1, <1>2, <1>3, <1>4, <1>5, <1>6, <1>7, <1>8, <1>9, <1>10 DEF Next

LEMMA PeerInv == ASSUME PeerType, [Next]_vars PROVE PeerType'
  BY DEF PeerType, Next, vars, Establish, FirstMessage, Duplicate, Stray, Receive, Initiate,
         Finish, Drained, CloseAgain, EndSession, Destroy, DestroyEnds, SweepOne, SweepEnds,
         CloserEnds

LEMMA Invariance == Spec => [](PeerType /\ IInv)
  <1>1. Init => PeerType /\ IInv
    BY InitInv DEF Init, PeerType
  <1>2. PeerType /\ IInv /\ [Next]_vars => (PeerType /\ IInv)'
    BY NextInv, PeerInv
  <1> QED  BY <1>1, <1>2, PTL DEF Spec

(* The table of exchanges and the exchanges agree, for any peers, sessions *)
(* and limits (addExchange(), deleteExchange() and #closeSession()).       *)
THEOREM TableIsRight == Spec => []TableAgrees
  <1>1. IInv => TableAgrees
    BY DEF IInv, NetInv, Agrees, EntriesAgree, Awaits, UnderWay, Under, Rival, Rivalled, TableAgrees
  <1> QED  BY <1>1, Invariance, PTL

(* No session has more exchanges open than its limit, but for those that   *)
(* lost their place to another one (#cleanupSessionExchanges()): what is   *)
(* open is in the table, where the limit counts it, or has a rival.        *)
THEOREM LimitIsKept == Spec => []ExchangeLimit
  <1>1. ASSUME IInv PROVE ExchangeLimit
    <2> SUFFICES ASSUME NEW s \in Session
                 PROVE  Cardinality({e \in Exchange :
                            /\ net.exchanges[e].state \in {"open", "acking"}
                            /\ net.exchanges[e].session = s
                            /\ net.table[net.exchanges[e].at] = e \/ ~Rivalled(e)}) <= MaxPerSession
      BY DEF ExchangeLimit
    <2> DEFINE E == {e \in Exchange : /\ net.exchanges[e].state \in {"open", "acking"}
                                      /\ net.exchanges[e].session = s
                                      /\ net.table[net.exchanges[e].at] = e \/ ~Rivalled(e)}
    <2>1. E \in SUBSET Active(net, s)
      <3> SUFFICES ASSUME NEW e \in E PROVE e \in Active(net, s)
        OBVIOUS
      <3>1. e \in Exchange /\ UnderWay(net, e) /\ net.exchanges[e] # Unused
        BY DEF UnderWay, Unused
      <3>2. net.table[net.exchanges[e].at] = e
        BY <1>1, <3>1 DEF IInv, NetInv, Agrees, Rival, Rivalled
      <3>3. net.exchanges[e].at \in Index
        BY <1>1, <3>1, UsedIsState DEF IInv, NetInv, ExchangeState
      <3>4. e \in InTable(net)
        BY <3>1, <3>2, <3>3, FreeIsNoExchange DEF InTable
      <3> QED  BY <3>4 DEF Of, Active
    <2> HIDE DEF E
    <2>2. /\ Cardinality(E) <= Cardinality(Active(net, s))
          /\ Cardinality(E) \in Nat /\ Cardinality(Active(net, s)) \in Nat
      BY <1>1, <2>1, FewerActive DEF IInv, NetInv
    <2>3. Cardinality(Active(net, s)) <= MaxPerSession /\ MaxPerSession \in Nat
      BY <1>1, SessionsAssumption DEF IInv, Limited
    <2> QED  BY <2>2, <2>3 DEF E
  <1> QED  BY <1>1, Invariance, PTL

(* The end of a session takes its exchanges with it: the closer has met    *)
(* them all when it is done (#closeSession()).                             *)
THEOREM EndIsComplete == Spec => []EndedHasNoExchange
  <1>1. IInv => EndedHasNoExchange
    BY DEF IInv, NetInv, Rest, Ended, EndedHasNoExchange
  <1> QED  BY <1>1, Invariance, PTL

-----------------------------------------------------------------------------
(* Channels.                                                               *)

Channel == [session : Session, watched : BOOLEAN]

(* The channels of a peer are of its own sessions, one of each.            *)
RowAgrees(row, p) ==
    /\ row \in Seq(Channel)
    /\ \A k \in DOMAIN row : peer[row[k].session] = p
    /\ \A j, k \in DOMAIN row : row[j].session = row[k].session => j = k

Fields(n) == n = [listed |-> n.listed, swept |-> n.swept, sweep |-> n.sweep,
                  channels |-> n.channels, table |-> n.table, exchanges |-> n.exchanges]

(* The sessions of watched channels are in the list, but for those of S.   *)
Live(n, S) ==
    /\ Fields(n) /\ n.channels \in [Peer -> Seq(Channel)]
    /\ \A p \in Peer : RowAgrees(n.channels[p], p)
    /\ \A p \in Peer : \A k \in DOMAIN n.channels[p] :
            n.channels[p][k].watched => n.channels[p][k].session \in n.listed \cup S

(* Calls of destroy() that have yet to close the channels of a session     *)
Ends == {d.session : d \in closing}

ChannelInv == Live(net, Ends)

LEMMA LiveOfMore ==
    ASSUME NEW n, NEW S, Live(n, S), NEW T, S \subseteq T
    PROVE  Live(n, T)
  BY DEF Live

LEMMA WithoutRow ==
    ASSUME NEW p, NEW row, RowAgrees(row, p), NEW s
    PROVE  /\ RowAgrees(Without(row, s), p)
           /\ \A k \in DOMAIN Without(row, s) :
                \E j \in DOMAIN row : Without(row, s)[k] = row[j] /\ row[j].session # s
  <1>1. CASE s \notin Sessions(row)
    <2>1. Without(row, s) = row
      BY <1>1 DEF Without
    <2>2. \A k \in DOMAIN row : row[k].session # s
      BY <1>1 DEF Sessions
    <2> QED  BY <2>1, <2>2
  <1>2. CASE s \in Sessions(row)
    <2> DEFINE IsFirst(k) == row[k].session = s /\ \A j \in 1 .. k - 1 : row[j].session # s
               first == CHOOSE k \in DOMAIN row : IsFirst(k)
               place(k) == IF k < first THEN k ELSE k + 1
               rest == [k \in 1 .. Len(row) - 1 |-> row[place(k)]]
    <2>1. Len(row) \in Nat /\ DOMAIN row = 1 .. Len(row) /\ \A k \in DOMAIN row : row[k] \in Channel
      BY DEF RowAgrees
    <2>2. first \in DOMAIN row /\ row[first].session = s
      <3>1. PICK k \in DOMAIN row : row[k].session = s
        BY <1>2 DEF Sessions
      <3>2. \A j \in 1 .. k - 1 : j \in DOMAIN row /\ j # k
        BY <2>1, <3>1
      <3>3. IsFirst(k)
        BY <3>1, <3>2 DEF RowAgrees
      <3> QED  BY <3>3
    <2>3. Without(row, s) = rest
      BY <1>2 DEF Without
    <2> HIDE DEF first
    <2>4. \A k \in 1 .. Len(row) - 1 : place(k) \in DOMAIN row /\ place(k) # first
      BY <2>1, <2>2
    <2>5. \A j, k \in 1 .. Len(row) - 1 : place(j) = place(k) => j = k
      BY <2>1, <2>2
    <2> HIDE DEF place
    <2>6. rest \in Seq(Channel) /\ DOMAIN rest = 1 .. Len(row) - 1
      <3>1. Len(row) - 1 \in Nat
        BY <2>1, <2>2
      <3> QED  BY <2>1, <2>4, <3>1
    <2>7. \A k \in DOMAIN rest : rest[k] = row[place(k)] /\ place(k) \in DOMAIN row
                                 /\ row[place(k)].session # s
      BY <2>2, <2>4, <2>6 DEF RowAgrees
    <2> HIDE DEF rest
    <2>8. \A k \in DOMAIN rest : peer[rest[k].session] = p
      BY <2>7 DEF RowAgrees
    <2>9. \A j, k \in DOMAIN rest : rest[j].session = rest[k].session => j = k
      BY <2>5, <2>6, <2>7 DEF RowAgrees
    <2> QED  BY <2>3, <2>6, <2>7, <2>8, <2>9 DEF RowAgrees
  <1> QED  BY <1>1, <1>2

LEMMA SameChannels ==
    ASSUME NEW n, NEW S, Live(n, S), NEW m, Fields(m), m.channels = n.channels,
           n.listed \subseteq m.listed
    PROVE  Live(m, S)
  BY DEF Live

(* What closes an exchange or frees an index, and where the sweeps are, is *)
(* nothing to the channels and the list.                                   *)
Aside(n, m) == Fields(m) /\ m.channels = n.channels /\ m.listed = n.listed

LEMMA AsideLive ==
    ASSUME NEW n, NEW S, Live(n, S), NEW m, Aside(n, m)
    PROVE  Live(m, S)
  BY SameChannels DEF Aside

LEMMA SweepingAside ==
    ASSUME NEW n, Fields(n), NEW U, NEW s, NEW w
    PROVE  Aside(n, Sweeping(n, U, s, w))
  <1> DEFINE W == [n.sweep EXCEPT ![s] = w]
             m == Sweeping(n, U, s, w)
  <1>1. m = [n EXCEPT !.swept = U, !.sweep = W]
    BY DEF Sweeping, Fields
  <1> HIDE DEF W, m
  <1>2. Fields(m) /\ m.channels = n.channels /\ m.listed = n.listed
    BY <1>1 DEF Fields
  <1> QED  BY <1>2 DEF Aside, m

LEMMA Asides ==
    ASSUME NEW n, Fields(n), NEW e, NEW I, NEW s, NEW i, NEW w
    PROVE  /\ Aside(n, Closed(n, e)) /\ Aside(n, Drain(n, e)) /\ Aside(n, Removed(n, I))
           /\ Aside(n, [n EXCEPT !.sweep[s] = w]) /\ Aside(n, CloseSession(n, s, i))
  <1>1. ASSUME NEW X
        PROVE  /\ Aside(n, [n EXCEPT !.exchanges = X]) /\ Aside(n, [n EXCEPT !.table = X])
               /\ Aside(n, [n EXCEPT !.sweep = X])
    BY DEF Fields, Aside
  <1>3. Aside(n, Closed(n, e)) /\ Aside(n, Drain(n, e))
    <2> DEFINE C == [n.exchanges EXCEPT ![e] = [@ EXCEPT !.state = "closed"]]
               D == [n.exchanges EXCEPT ![e] = [@ EXCEPT !.state = "draining"]]
    <2>1. Closed(n, e) = [n EXCEPT !.exchanges = C] /\ Drain(n, e) = [n EXCEPT !.exchanges = D]
      BY DEF Closed, Drain
    <2> HIDE DEF C, D
    <2> QED  BY <1>1, <2>1
  <1>4. Aside(n, Removed(n, I))
    <2> DEFINE T == [j \in Index |-> IF j \in I THEN Free ELSE n.table[j]]
    <2>1. Removed(n, I) = [n EXCEPT !.table = T]
      BY DEF Removed
    <2> HIDE DEF T
    <2> QED  BY <1>1, <2>1
  <1>5. Aside(n, [n EXCEPT !.sweep[s] = w])
    <2> DEFINE W == [n.sweep EXCEPT ![s] = w]
    <2>1. [n EXCEPT !.sweep[s] = w] = [n EXCEPT !.sweep = W]
      OBVIOUS
    <2> HIDE DEF W
    <2> QED  BY <1>1, <2>1
  <1>6. Aside(n, CloseSession(n, s, i))
    <2> DEFINE U == n.swept \cup {s}
               v == [on |-> TRUE, at |-> FirstOf(n, s, Of(n, s)), index |-> i]
    <2>1. CASE s \in n.swept
      BY <2>1 DEF CloseSession, Aside
    <2>2. CASE s \notin n.swept
      <3>1. CloseSession(n, s, i) = Sweeping(n, U, s, v)
        BY <2>2 DEF CloseSession, Sweeping
      <3> HIDE DEF U, v
      <3>2. Aside(n, Sweeping(n, U, s, v))
        BY SweepingAside
      <3> QED  BY <3>1, <3>2
    <2> QED  BY <2>1, <2>2
  <1> QED  BY <1>3, <1>4, <1>5, <1>6

(* A session that hangs up leaves no channel that is watched.              *)
LEMMA HungUpLive ==
    ASSUME NEW n, NEW S, Live(n, S), NEW s
    PROVE  Live(HungUp(n, s), S \ {s}) /\ HungUp(n, s).listed = n.listed
  <1> DEFINE row == n.channels[peer[s]]
             next == IF \E k \in DOMAIN row : row[k].session = s /\ row[k].watched
                     THEN Without(row, s) ELSE row
             X == [n.channels EXCEPT ![peer[s]] = next]
             m == HungUp(n, s)
  <1>1. m = [n EXCEPT !.channels = X]
    BY DEF HungUp, Live, Fields
  <1>2. X \in [Peer -> Seq(Channel)] /\ \A p \in Peer : RowAgrees(X[p], p)
    <2> SUFFICES \A p \in Peer : X[p] \in Seq(Channel) /\ RowAgrees(X[p], p)
      BY DEF Live
    <2> TAKE p \in Peer
    <2>1. RowAgrees(n.channels[p], p)
      BY DEF Live
    <2>2. RowAgrees(Without(n.channels[p], s), p)
      BY <2>1, WithoutRow
    <2>3. X[p] = n.channels[p] \/ X[p] = Without(n.channels[p], s)
      BY DEF Live
    <2> HIDE DEF X
    <2> QED  BY <2>1, <2>2, <2>3 DEF RowAgrees
  <1>3. ASSUME NEW p \in Peer, NEW k \in DOMAIN X[p], X[p][k].watched
        PROVE  X[p][k].session \in n.listed \cup (S \ {s})
    <2>1. RowAgrees(n.channels[p], p)
      BY DEF Live
    <2>2. \A j \in DOMAIN n.channels[p] : n.channels[p][j].watched =>
              n.channels[p][j].session \in n.listed \cup S
      BY DEF Live
    <2>3. CASE X[p] = n.channels[p]
      <3>1. X[p][k].session # s \/ X[p][k].session \in n.listed
        <4> SUFFICES ASSUME X[p][k].session = s PROVE FALSE
          OBVIOUS
        <4>1. p = peer[s] /\ k \in DOMAIN row /\ row[k].session = s /\ row[k].watched
          <5>1. k \in DOMAIN n.channels[p] /\ n.channels[p][k].session = s /\ n.channels[p][k].watched
            BY <1>3, <2>3
          <5>2. peer[s] = p
            BY <2>1, <5>1 DEF RowAgrees
          <5> QED  BY <5>1, <5>2
        <4>2. row = Without(row, s)
          BY <2>3, <4>1 DEF Live
        <4> QED  BY <2>1, <4>1, <4>2, WithoutRow
      <3> QED  BY <1>3, <2>2, <2>3, <3>1
    <2>4. CASE X[p] = Without(n.channels[p], s)
      <3>1. PICK j \in DOMAIN n.channels[p] :
                X[p][k] = n.channels[p][j] /\ n.channels[p][j].session # s
        <4>1. \A l \in DOMAIN Without(n.channels[p], s) : \E j \in DOMAIN n.channels[p] :
                 Without(n.channels[p], s)[l] = n.channels[p][j] /\ n.channels[p][j].session # s
          BY <2>1, WithoutRow
        <4>2. k \in DOMAIN Without(n.channels[p], s)
          BY <2>4
        <4> QED  BY <2>4, <4>1, <4>2
      <3>2. n.channels[p][j].session \in n.listed \cup S
        BY <1>3, <2>2, <3>1
      <3> QED  BY <3>1, <3>2
    <2>5. X[p] = n.channels[p] \/ X[p] = Without(n.channels[p], s)
      BY DEF Live
    <2> QED  BY <2>3, <2>4, <2>5
  <1> HIDE DEF X, m
  <1>4. Fields(m) /\ m.channels = X /\ m.listed = n.listed
    BY <1>1 DEF Live, Fields
  <1> QED  BY <1>2, <1>3, <1>4 DEF Live, m

LEMMA ListedKept ==
    ASSUME NEW n, Fields(n), NEW x
    PROVE  LET m == [n EXCEPT !.listed = x]
           IN  Fields(m) /\ m.channels = n.channels /\ m.listed = x
  BY DEF Fields

LEMMA UnlistedLive ==
    ASSUME NEW n, NEW S, Live(n, S), NEW s
    PROVE  Live([n EXCEPT !.listed = @ \ {s}], S \cup {s}) /\ Live(Unlisted(n, s), S \cup {s})
  <1> DEFINE fewer == n.listed \ {s}
             gone == [n EXCEPT !.listed = fewer]
  <1> HIDE DEF fewer
  <1>1. Fields(gone) /\ gone.channels = n.channels /\ gone.listed = fewer
    BY ListedKept DEF Live
  <1> HIDE DEF gone
  <1>2. Live(gone, S \cup {s})
    BY <1>1 DEF Live, fewer
  <1>3. Live(CloseSession(gone, s, NoIndex), S \cup {s})
    <2> DEFINE m == CloseSession(gone, s, NoIndex)
    <2>1. Aside(gone, m)
      BY <1>1, Asides
    <2> HIDE DEF m
    <2>2. Live(m, S \cup {s})
      BY <1>2, <2>1, AsideLive
    <2> QED  BY <2>2 DEF m
  <1>4. Unlisted(n, s) \in {gone, CloseSession(gone, s, NoIndex)}
    BY DEF Unlisted, gone, fewer
  <1> QED  BY <1>2, <1>3, <1>4 DEF gone, fewer

LEMMA CloseLive ==
    ASSUME NEW n, NEW S, Live(n, S), NEW e, NEW i
    PROVE  Live(DeleteExchange(n, i), S) /\ Live(Close(n, e), S) /\ Live(Drain(n, e), S)
  <1>1. ASSUME NEW m, Live(m, S), NEW j PROVE Live(DeleteExchange(m, j), S)
    <2> DEFINE r == m.exchanges[m.table[j]].session
               c == CloseSession(m, r, j)
               d == Removed(m, {j})
    <2>1. Aside(m, c) /\ Aside(m, d)
      <3> HIDE DEF r
      <3> QED  BY <1>1, Asides DEF Live
    <2>2. DeleteExchange(m, j) \in {m, c, d}
      BY DEF DeleteExchange
    <2> HIDE DEF c, d
    <2>3. Live(c, S) /\ Live(d, S)
      BY <1>1, <2>1, AsideLive
    <2> QED  BY <1>1, <2>2, <2>3
  <1>2. Live(Closed(n, e), S) /\ Live(Drain(n, e), S)
    <2> DEFINE c == Closed(n, e)
               d == Drain(n, e)
    <2>1. Aside(n, c) /\ Aside(n, d)
      BY Asides DEF Live
    <2> HIDE DEF c, d
    <2>2. Live(c, S) /\ Live(d, S)
      BY <2>1, AsideLive
    <2> QED  BY <2>2 DEF c, d
  <1> QED  BY <1>1, <1>2 DEF Close

LEMMA AddLive ==
    ASSUME NEW n, NEW S, Live(n, S), NEW o, NEW m \in AddExchange(n, o)
    PROVE  Live(m, S)
  <1> DEFINE more == Added(n, o)
  <1>1. Fields(more) /\ more.channels = n.channels /\ more.listed = n.listed
    <2>1. PICK T, X : more = [n EXCEPT !.table = T, !.exchanges = X]
      BY DEF Added
    <2>2. Fields(n)
      BY DEF Live
    <2> HIDE DEF more
    <2> QED  BY <2>1, <2>2 DEF Fields
  <1>2. Live(more, S)
    BY <1>1, SameChannels
  <1>3. m = more \/ \E e : m = Close(more, e) \/ m = Drain(more, e)
    BY DEF AddExchange
  <1> HIDE DEF more
  <1> QED  BY <1>2, <1>3, CloseLive

(* The new channel is watched from now on, if its session is in the list.  *)
LEMMA EvictedLive ==
    ASSUME NEW n, NEW S, Live(n, S), NEW s, NEW o
    PROVE  Live(Evicted(n, s, o), S)
  <1> DEFINE row == Without(n.channels[peer[s]], s)
             next == [k \in DOMAIN row |->
                        IF row[k].session = o.session /\ o.session \in n.listed
                        THEN [row[k] EXCEPT !.watched = TRUE] ELSE row[k]]
             X == [n.channels EXCEPT ![peer[s]] = next]
             m == Evicted(n, s, o)
  <1>1. m = [n EXCEPT !.channels = X]
    BY DEF Evicted, Live, Fields
  <1>2. CASE peer[s] \notin Peer
    <2>1. X = n.channels
      BY <1>2 DEF Live
    <2> HIDE DEF X, m
    <2>2. Fields(m) /\ m.channels = n.channels /\ m.listed = n.listed
      BY <1>1, <2>1 DEF Live, Fields
    <2> QED  BY <2>2, SameChannels DEF m
  <1>3. CASE peer[s] \in Peer
    <2> DEFINE p == peer[s]
    <2>1. RowAgrees(n.channels[p], p)
      BY <1>3 DEF Live
    <2>2. /\ RowAgrees(row, p)
          /\ \A k \in DOMAIN row : \E j \in DOMAIN n.channels[p] : row[k] = n.channels[p][j]
      BY <2>1, WithoutRow
    <2>3. \A k \in DOMAIN row : row[k].watched => row[k].session \in n.listed \cup S
      BY <1>3, <2>2 DEF Live
    <2> HIDE DEF row
    <2>4. /\ DOMAIN next = DOMAIN row
          /\ \A k \in DOMAIN row :
                /\ next[k] \in Channel /\ next[k].session = row[k].session
                /\ next[k].watched => next[k].session \in n.listed \cup S
      <3> SUFFICES ASSUME NEW k \in DOMAIN row
                   PROVE  /\ next[k] \in Channel /\ next[k].session = row[k].session
                          /\ next[k].watched => next[k].session \in n.listed \cup S
        OBVIOUS
      <3>1. row[k] \in Channel
        BY <2>2 DEF RowAgrees
      <3>2. CASE row[k].session = o.session /\ o.session \in n.listed
        BY <3>1, <3>2 DEF Channel
      <3>3. CASE ~(row[k].session = o.session /\ o.session \in n.listed)
        BY <2>3, <3>1, <3>3
      <3> QED  BY <3>2, <3>3
    <2>5. next \in Seq(Channel)
      <3>1. DOMAIN row = 1 .. Len(row) /\ Len(row) \in Nat
        BY <2>2 DEF RowAgrees
      <3>2. next \in [1 .. Len(row) -> Channel]
        BY <2>4, <3>1
      <3> QED  BY <3>1, <3>2
    <2> HIDE DEF next
    <2>6. RowAgrees(next, p)
      BY <2>2, <2>4, <2>5 DEF RowAgrees
    <2>7. X \in [Peer -> Seq(Channel)] /\ \A q \in Peer : X[q] = IF q = p THEN next ELSE n.channels[q]
      BY <1>3, <2>5 DEF Live
    <2> HIDE DEF X, m
    <2>8. Fields(m) /\ m.channels = X /\ m.listed = n.listed
      BY <1>1 DEF Live, Fields
    <2>9. \A q \in Peer : RowAgrees(X[q], q)
      BY <2>6, <2>7 DEF Live
    <2>10. \A q \in Peer : \A k \in DOMAIN X[q] : X[q][k].watched => X[q][k].session \in n.listed \cup S
      BY <2>4, <2>7 DEF Live
    <2> QED  BY <2>7, <2>8, <2>9, <2>10 DEF Live, m
  <1> QED  BY <1>2, <1>3


LEMMA PeersStay ==
    ASSUME Live(net', Ends'), \A s \in Session : peer[s] \in Peer => peer'[s] = peer[s]
    PROVE  ChannelInv'
  <1>1. ASSUME NEW p \in Peer, NEW k \in DOMAIN net'.channels[p]
        PROVE  peer'[net'.channels[p][k].session] = p
    <2>1. RowAgrees(net'.channels[p], p)
      BY DEF Live
    <2>2. net'.channels[p][k] \in Channel
      BY <2>1 DEF RowAgrees
    <2>3. net'.channels[p][k].session \in Session /\ peer[net'.channels[p][k].session] = p
      BY <2>1, <2>2 DEF RowAgrees, Channel
    <2> QED  BY <2>3
  <1> QED  BY <1>1 DEF ChannelInv, Live, RowAgrees, Fields

(* A channel is made for a message whose session is in the list.           *)
LEMMA AcceptLive ==
    ASSUME PeerType, IInv, NEW S, Live(net, S), NEW o, o.session \in net.listed, Accept(o)
    PROVE  Live(net', S)
  <1> DEFINE s == o.session
             p == peer[s]
             row == net.channels[p]
  <1>0. Live(net, S) /\ Fields(net) /\ s \in Session /\ p \in Peer /\ RowAgrees(row, p)
    <2>1. s \in Session /\ p # NoPeer
      BY DEF IInv, NetInv, NetType, Rest, Ended
    <2> QED  BY <2>1 DEF Live, PeerType
  <1>1. ASSUME NEW w \in {TRUE, FALSE}, s \notin Sessions(row)
        PROVE  Live([net EXCEPT !.channels[p] = Append(@, [session |-> s, watched |-> w])], S)
    <2> DEFINE c == [session |-> s, watched |-> w]
               next == Append(row, c)
               X == [net.channels EXCEPT ![p] = next]
               m == [net EXCEPT !.channels = X]
    <2>1. c \in Channel /\ c.session = s
      BY <1>0 DEF Channel
    <2> HIDE DEF c
    <2>2. /\ next \in Seq(Channel) /\ DOMAIN next = 1 .. Len(row) + 1 /\ next[Len(row) + 1] = c
          /\ \A k \in DOMAIN row : next[k] = row[k]
          /\ DOMAIN row = 1 .. Len(row) /\ Len(row) \in Nat
      <3>1. row \in Seq(Channel)
        BY <1>0 DEF RowAgrees
      <3> HIDE DEF row
      <3>2. next \in Seq(Channel) /\ Len(next) = Len(row) + 1 /\ next[Len(row) + 1] = c
            /\ \A k \in 1 .. Len(row) : next[k] = row[k]
        BY <2>1, <3>1
      <3>3. DOMAIN next = 1 .. Len(next) /\ DOMAIN row = 1 .. Len(row) /\ Len(row) \in Nat
        BY <3>1, <3>2
      <3> QED  BY <3>2, <3>3
    <2> HIDE DEF next
    <2>3. \A k \in DOMAIN next : k \in DOMAIN row \/ (k = Len(row) + 1 /\ next[k] = c)
      BY <2>2
    <2>4. \A k \in DOMAIN row : row[k].session # s
      BY <1>1 DEF Sessions
    <2>5. RowAgrees(next, p)
      <3>1. \A k \in DOMAIN next : peer[next[k].session] = p
        <4> SUFFICES ASSUME NEW k \in DOMAIN next PROVE peer[next[k].session] = p
          OBVIOUS
        <4>1. CASE k \in DOMAIN row
          BY <1>0, <2>2, <4>1 DEF RowAgrees
        <4>2. CASE next[k] = c
          BY <2>1, <4>2
        <4> QED  BY <2>3, <4>1, <4>2
      <3>2. \A j, k \in DOMAIN next : next[j].session = next[k].session => j = k
        <4> SUFFICES ASSUME NEW j \in DOMAIN next, NEW k \in DOMAIN next,
                            next[j].session = next[k].session
                     PROVE  j = k
          OBVIOUS
        <4>1. CASE j \in DOMAIN row /\ k \in DOMAIN row
          BY <1>0, <2>2, <4>1 DEF RowAgrees
        <4>2. CASE j \notin DOMAIN row
          <5>1. next[j].session = s
            BY <2>1, <2>3, <4>2
          <5>2. k \notin DOMAIN row
            BY <2>2, <2>4, <5>1
          <5> QED  BY <2>3, <4>2, <5>2
        <4>3. CASE k \notin DOMAIN row
          <5>1. next[k].session = s
            BY <2>1, <2>3, <4>3
          <5>2. j \notin DOMAIN row
            BY <2>2, <2>4, <5>1
          <5> QED  BY <2>3, <4>3, <5>2
        <4> QED  BY <4>1, <4>2, <4>3
      <3> QED  BY <2>2, <3>1, <3>2 DEF RowAgrees
    <2>6. \A k \in DOMAIN next : next[k].watched => next[k].session \in net.listed \cup S
      BY <1>0, <2>1, <2>2, <2>3 DEF Live
    <2>7. /\ X \in [Peer -> Seq(Channel)]
          /\ \A q \in Peer : X[q] = IF q = p THEN next ELSE net.channels[q]
      BY <1>0, <2>2 DEF Live
    <2> HIDE DEF X
    <2>8. Fields(m) /\ m.channels = X /\ m.listed = net.listed
      BY <1>0 DEF Fields
    <2> HIDE DEF m
    <2>9. Live(m, S)
      <3>1. \A q \in Peer : RowAgrees(X[q], q)
        BY <1>0, <2>5, <2>7 DEF Live
      <3>2. \A q \in Peer : \A k \in DOMAIN X[q] : X[q][k].watched => X[q][k].session \in net.listed \cup S
        BY <1>0, <2>6, <2>7 DEF Live
      <3> QED  BY <2>7, <2>8, <3>1, <3>2 DEF Live
    <2> QED  BY <2>9 DEF m, X, next, c
  <1>2. ASSUME NEW n, Live(n, S), net' \in AddExchange(n, o) PROVE Live(net', S)
    BY <1>2, AddLive
  <1> QED  BY <1>0, <1>1, <1>2 DEF Accept

LEMMA DestroyedLive ==
    ASSUME NEW n, NEW S, Live(n, S), NEW d, NEW T, S \ {d.session} \subseteq T,
           NEW m \in Destroyed(n, d)
    PROVE  Live(m, T)
  <1> DEFINE s == d.session
             h == HungUp(n, s)
             v == Evicted(h, s, d.then)
  <1>1. Live(h, T)
    BY HungUpLive, LiveOfMore
  <1> HIDE DEF h
  <1>2. Live(v, T)
    BY <1>1, EvictedLive
  <1>3. m = h \/ m \in AddExchange(v, d.then)
    BY DEF Destroyed, h
  <1> HIDE DEF v
  <1> QED  BY <1>1, <1>2, <1>3, AddLive

(* destroy() closes the channels of its session before it returns, and is  *)
(* one of Ends from the removal of the session from the list until then.   *)
LEMMA DestroyLive ==
    ASSUME ChannelInv, NEW d, Destroy(d)
    PROVE  Live(net', Ends')
  <1> DEFINE s == d.session
             n == Unlisted(net, s)
  <1>1. Live(net, Ends) /\ Live(n, Ends \cup {s})
    BY UnlistedLive DEF ChannelInv
  <1> HIDE DEF n
  <1>2. CASE net' = HungUp(net, s) /\ UNCHANGED closing
    <2>1. Live(HungUp(net, s), Ends \ {s}) /\ Ends' = Ends
      BY <1>1, <1>2, HungUpLive DEF Ends
    <2> QED  BY <1>2, <2>1, LiveOfMore
  <1>3. CASE net' = n /\ closing' = closing \cup {d}
    <2>1. Ends' = Ends \cup {s}
      BY <1>3 DEF Ends
    <2> QED  BY <1>1, <1>3, <2>1
  <1>4. CASE net' \in Destroyed(n, d) /\ UNCHANGED closing
    <2>1. Ends' = Ends /\ (Ends \cup {s}) \ {s} \subseteq Ends
      BY <1>4 DEF Ends
    <2> QED  BY <1>1, <1>4, <2>1, DestroyedLive
  <1> QED  BY <1>2, <1>3, <1>4 DEF Destroy, n

LEMMA DestroyEndsLive ==
    ASSUME ChannelInv, NEW d, DestroyEnds(d)
    PROVE  Live(net', Ends')
  <1>1. Live(net, Ends) /\ Ends \ {d.session} \subseteq Ends'
    BY DEF ChannelInv, DestroyEnds, Ends
  <1> QED  BY <1>1, DestroyedLive DEF DestroyEnds

LEMMA SweepLive ==
    ASSUME ChannelInv, NEW s, SweepOne(s) \/ SweepEnds(s) \/ CloserEnds(s)
    PROVE  Live(net', Ends)
  <1>0. Live(net, Ends) /\ Fields(net)
    BY DEF ChannelInv, Live
  <1>1. ASSUME NEW n, Live(n, Ends), NEW w PROVE Live([n EXCEPT !.sweep[s] = w], Ends)
    <2> DEFINE m == [n EXCEPT !.sweep[s] = w]
    <2>1. Aside(n, m)
      BY <1>1, Asides DEF Live
    <2> HIDE DEF m
    <2>2. Live(m, Ends)
      BY <1>1, <2>1, AsideLive
    <2> QED  BY <2>2 DEF m
  <1>2. CASE SweepOne(s)
    <2> DEFINE e == net.sweep[s].at
               n == Close(net, e)
               v == [n.sweep[s] EXCEPT !.at = Following(n, s, e)]
    <2>1. Live(n, Ends)
      BY <1>0, CloseLive
    <2>2. net' = [n EXCEPT !.sweep[s] = v]
      BY <1>2 DEF SweepOne
    <2> HIDE DEF n, v
    <2> QED  BY <1>1, <2>1, <2>2
  <1>3. CASE SweepEnds(s)
    <2> DEFINE over == [net EXCEPT !.sweep[s] = NoSweep]
               less == [over EXCEPT !.listed = @ \ {s}]
               h == HungUp(less, s)
               I == {net.sweep[s].index}
    <2>1. Live(over, Ends)
      BY <1>0, <1>1
    <2> HIDE DEF over
    <2>2. Live(less, Ends \cup {s})
      BY <2>1, UnlistedLive
    <2> HIDE DEF less
    <2>3. Live(h, Ends)
      <3>1. Live(h, (Ends \cup {s}) \ {s}) /\ (Ends \cup {s}) \ {s} \subseteq Ends
        BY <2>2, HungUpLive
      <3> HIDE DEF h
      <3> QED  BY <3>1, LiveOfMore
    <2> HIDE DEF h
    <2>4. ASSUME NEW n, Live(n, Ends) PROVE Live(Removed(n, I), Ends)
      <3> DEFINE m == Removed(n, I)
      <3>1. Aside(n, m)
        BY <2>4, Asides DEF Live
      <3> HIDE DEF m
      <3>2. Live(m, Ends)
        BY <2>4, <3>1, AsideLive
      <3> QED  BY <3>2 DEF m
    <2>5. net' = Removed(over, I) \/ net' = Removed(h, I)
      BY <1>3 DEF SweepEnds, over, less, h
    <2> HIDE DEF I
    <2> QED  BY <2>1, <2>3, <2>4, <2>5
  <1>4. CASE CloserEnds(s)
    BY <1>0, <1>1, <1>4 DEF CloserEnds
  <1> QED  BY <1>2, <1>3, <1>4

LEMMA ChannelStep ==
    ASSUME PeerType, IInv, ChannelInv, [Next]_vars
    PROVE  ChannelInv'
  <1>0. Live(net, Ends)
    BY DEF ChannelInv
  <1>1. ASSUME NEW s \in Session, NEW p \in Peer, Establish(s, p) PROVE ChannelInv'
    <2> DEFINE more == net.listed \cup {s}
               m == [net EXCEPT !.listed = more]
    <2>1. Fields(m) /\ m.channels = net.channels /\ m.listed = more
      <3> HIDE DEF more
      <3> QED  BY <1>0, ListedKept DEF Live
    <2> HIDE DEF m
    <2>2. Live(m, Ends)
      BY <1>0, <2>1, SameChannels
    <2>3. net' = m /\ peer[s] = NoPeer /\ (\A r \in Session \ {s} : peer'[r] = peer[r]) /\ Ends' = Ends
      BY <1>1 DEF Establish, PeerType, m, Ends
    <2>4. Live(net', Ends') /\ \A r \in Session : peer[r] \in Peer => peer'[r] = peer[r]
      BY <2>2, <2>3, SessionsAssumption
    <2> QED  BY <2>4, PeersStay
  <1>2. ASSUME NEW s \in Session, NEW i, NEW state, Receive(s, i, state)
        PROVE  ChannelInv'
    <2> DEFINE o == [id |-> begun + 1, session |-> s, at |-> i, state |-> state]
    <2>1. Accept(o) /\ o.session \in net.listed /\ peer' = peer /\ Ends' = Ends
      BY <1>2 DEF Receive, Ends
    <2> HIDE DEF o
    <2>2. Live(net', Ends)
      BY <1>0, <2>1, AcceptLive
    <2> QED  BY <2>1, <2>2, PeersStay
  <1>3. ASSUME NEW p \in Peer, Initiate(p) PROVE ChannelInv'
    <2>1. peer' = peer /\ Ends' = Ends /\ \E o : net' \in AddExchange(net, o)
      BY <1>3 DEF Initiate, Ends
    <2>2. Live(net', Ends)
      BY <1>0, <2>1, AddLive
    <2> QED  BY <2>1, <2>2, PeersStay
  <1>4. ASSUME NEW e \in Exchange, Finish(e) \/ Drained(e) \/ CloseAgain(e) PROVE ChannelInv'
    <2>1. /\ peer' = peer /\ Ends' = Ends
          /\ \/ net' = Close(net, e) \/ net' = Drain(net, e)
             \/ net' = DeleteExchange(net, net.exchanges[e].at)
      BY <1>4 DEF Finish, Drained, CloseAgain, Ends
    <2>2. Live(net', Ends)
      BY <1>0, <2>1, CloseLive
    <2> QED  BY <2>1, <2>2, PeersStay
  <1>5. ASSUME NEW s \in Session, NEW delay \in BOOLEAN, NEW say \in BOOLEAN,
               EndSession(s, delay, say)
        PROVE  ChannelInv'
    <2>1. peer' = peer /\ Ends' = Ends /\ net' = net
      BY <1>5 DEF EndSession, Ends
    <2> QED  BY <1>0, <2>1, PeersStay
  <1>6. ASSUME NEW d, Destroy(d) PROVE ChannelInv'
    <2>1. peer' = peer
      BY <1>6 DEF Destroy
    <2> QED  BY <1>6, <2>1, DestroyLive, PeersStay
  <1>7. ASSUME NEW d, DestroyEnds(d) PROVE ChannelInv'
    <2>1. peer' = peer
      BY <1>7 DEF DestroyEnds
    <2> QED  BY <1>7, <2>1, DestroyEndsLive, PeersStay
  <1>8. ASSUME NEW s \in Session, SweepOne(s) \/ SweepEnds(s) \/ CloserEnds(s) PROVE ChannelInv'
    <2>1. peer' = peer /\ Ends' = Ends
      BY <1>8 DEF SweepOne, SweepEnds, CloserEnds, Ends
    <2> QED  BY <1>8, <2>1, SweepLive, PeersStay
  <1>9. CASE UNCHANGED vars
    <2>1. peer' = peer /\ Ends' = Ends /\ net' = net
      BY <1>9 DEF vars, Ends
    <2> QED  BY <1>0, <2>1, PeersStay
  <1> QED  BY <1>1, <1>2, <1>3, <1>4, <1>5, <1>6, <1>7, <1>8, <1>9
           DEF Next, FirstMessage, Duplicate, Stray

(* A channel that is closed with its session is gone when destroy() is     *)
(* done with the session: from the removal from the list until then it     *)
(* stays in its row, through the sweep of #closeSession() and the close    *)
(* message, while new exchanges may begin on it (removeChannel(),          *)
(* getOrCreateChannel(), setChannel(), getChannel()).                      *)
THEOREM ChannelsEndWithSessions == Spec => []ChannelsAreLive
  <1>1. Init => ChannelInv
    BY DEF Init, ChannelInv, Live, Fields, RowAgrees
  <1>2. PeerType /\ IInv /\ ChannelInv /\ [Next]_vars => ChannelInv'
    BY ChannelStep
  <1>3. ChannelInv => ChannelsAreLive
    BY DEF ChannelInv, Live, ChannelsAreLive, Ends
  <1> QED  BY <1>1, <1>2, <1>3, Invariance, PTL DEF Spec

=============================================================================
