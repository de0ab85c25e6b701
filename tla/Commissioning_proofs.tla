----------------------- MODULE Commissioning_proofs -----------------------
(***************************************************************************)
(* Proofs about the commissioning of a device, for any number of fabric    *)
(* indices, fabrics, certificates, failsafe contexts and faults.           *)
(*                                                                         *)
(* The types come first, then who waits for which write, then what is      *)
(* known of a failsafe context while commands and a CommissioningComplete  *)
(* are under way; the promises about fabrics rest on these.                *)
(***************************************************************************)
EXTENDS Commissioning, FiniteSetTheorems, WellFoundedInduction, TLAPS

-----------------------------------------------------------------------------
(* Tables, lists of writes and indices *)

LEMMA Table ==
    ASSUME NEW S, NEW T, NEW f
    PROVE  f \in PartialFunctions(S, T) <=>
             /\ f = [i \in DOMAIN f |-> f[i]] /\ DOMAIN f \subseteq S
             /\ \A i \in DOMAIN f : f[i] \in T
  BY DEF PartialFunctions

LEMMA Entries ==
    ASSUME NEW S, NEW T, NEW f \in PartialFunctions(S, T)
    PROVE  DOMAIN f \subseteq S /\ \A i \in DOMAIN f : i \in S /\ f[i] \in T
  BY Table

LEMMA NewTable ==
    ASSUME NEW S, NEW T, NEW D \in SUBSET S, NEW f \in [D -> T]
    PROVE  f \in PartialFunctions(S, T)
  BY DEF PartialFunctions

LEMMA EmptyTable ==
    ASSUME NEW S, NEW T
    PROVE  /\ <<>> \in PartialFunctions(S, T) /\ DOMAIN <<>> = {}
           /\ \A f \in PartialFunctions(S, T) : f = <<>> <=> DOMAIN f = {}
  <1>1. <<>> \in [{} -> T]
    OBVIOUS
  <1> QED  BY <1>1 DEF PartialFunctions

LEMMA WithoutTable ==
    ASSUME NEW S, NEW T, NEW f \in PartialFunctions(S, T), NEW i
    PROVE  /\ Without(f, i) \in PartialFunctions(S, T)
           /\ DOMAIN Without(f, i) = DOMAIN f \ {i}
           /\ \A j \in DOMAIN f \ {i} : Without(f, i)[j] = f[j]
  BY Table DEF Without

LEMMA WithTable ==
    ASSUME NEW S, NEW T, NEW f \in PartialFunctions(S, T), NEW i \in S, NEW x \in T
    PROVE  /\ With(f, i, x) \in PartialFunctions(S, T)
           /\ DOMAIN With(f, i, x) = DOMAIN f \cup {i}
           /\ With(f, i, x)[i] = x
           /\ \A j \in DOMAIN f \ {i} : With(f, i, x)[j] = f[j]
  BY Table DEF With

LEMMA LeastPlace ==
    ASSUME NEW T \in SUBSET Nat, T # {}
    PROVE  \E x \in T : \A y \in T : x <= y
  <1> DEFINE R == OpToRel(<, Nat)
  <1>1. IsWellFoundedOn(R, Nat)
    BY NatLessThanWellFounded
  <1>2. \A x, y \in Nat : <<y, x>> \in R <=> y < x
    BY DEF OpToRel
  <1> HIDE DEF R
  <1>3. PICK x \in T : \A y \in T : <<y, x>> \notin R
    BY <1>1, WFMin
  <1>4. \A y \in T : ~(y < x)
    BY <1>2, <1>3
  <1> QED  BY <1>4

LEMMA AllocatedIsIndex ==
    ASSUME nextIndex \in Index, NEW i \in Index, Free(i)
    PROVE  Allocated \in Index
  <1> DEFINE From(k) == IF nextIndex + k > MaxIndex THEN nextIndex + k - MaxIndex ELSE nextIndex + k
             K == {k \in 0 .. MaxIndex - 1 : Free(From(k))}
             least(k) == Free(From(k)) /\ \A j \in 0 .. k - 1 : ~Free(From(j))
             first == CHOOSE k \in 0 .. MaxIndex - 1 : least(k)
  <1>1. \A k \in 0 .. MaxIndex - 1 : From(k) \in Index
    BY CommissioningAssumption DEF Index
  <1>2. \E k \in 0 .. MaxIndex - 1 : From(k) = i
    <2> DEFINE back == IF i < nextIndex THEN i - nextIndex + MaxIndex ELSE i - nextIndex
    <2>1. back \in 0 .. MaxIndex - 1
      BY CommissioningAssumption DEF Index
    <2>2. From(back) = i
      BY CommissioningAssumption DEF Index
    <2> QED  BY <2>1, <2>2
  <1>3. PICK k \in K : \A j \in K : k <= j
    <2>1. K \in SUBSET Nat /\ K # {}
      BY <1>1, <1>2
    <2> HIDE DEF K
    <2> QED  BY <2>1, LeastPlace
  <1> HIDE DEF From
  <1>4. k \in 0 .. MaxIndex - 1 /\ least(k)
    <2>1. k \in 0 .. MaxIndex - 1 /\ Free(From(k))
      OBVIOUS
    <2>2. \A j \in 0 .. k - 1 : j \in 0 .. MaxIndex - 1 /\ ~(k <= j)
      BY CommissioningAssumption
    <2>3. \A j \in 0 .. k - 1 : ~Free(From(j))
      BY <1>3, <2>2
    <2> QED  BY <2>1, <2>3
  <1>5. first \in 0 .. MaxIndex - 1
    BY <1>4
  <1>6. Allocated = From(first)
    BY DEF Allocated, From
  <1> QED  BY <1>1, <1>5, <1>6

-----------------------------------------------------------------------------
(* Types *)

Commands ==
    {Nothing}
    \cup [op : {"add"}, id : 1 .. MaxFailsafes, index : Index, session : Session]
    \cup [op : {"update"}, id : 1 .. MaxFailsafes, index : Index, noc : 0 .. MaxNoc]
    \cup [op : {"updating", "removing", "leaving"}, index : Index]

Completions ==
    {Nothing} \cup [op : {"persisting", "closing", "hung"}, id : 1 .. MaxFailsafes,
                    fabric : Index, persists : BOOLEAN, disturbed : BOOLEAN]

Tables == PartialFunctions(Index, Fabric)
Files == PartialFunctions(Index, 0 .. MaxNoc)
Write == [fabrics : Files, who : {"rollback", "complete", "command"}]
Change == [action : {"added", "updated", "removed"}, index : Index]

FabricTypes ==
    /\ table \in Tables /\ nextIndex \in Index
    /\ stored \in [fabrics : Files, next : Index] /\ writes \in Seq(Write)
    /\ cases \in Tables /\ pase \in {NoSession, NoFabric} \cup Index
    /\ changes \in Seq(Change) /\ removed \subseteq Index

(* At most one context, which knows the fabrics its rollback announces *)
ContextTypes ==
    /\ failsafe \subseteq FailsafeContext /\ \A c, d \in failsafe : c = d
    /\ \A c \in failsafe :
        /\ c.stage \in {"revoking", "revokingAgain"} => c.index # NoFabric
        /\ c.stage = "restoring" => c.assoc # NoFabric
    /\ armed \in 0 .. MaxFailsafes
    /\ command \in Commands /\ completing \in Completions

FlagTypes ==
    /\ window \in {"closed", "factory", "admin"} /\ faults \in 0 .. MaxFaults
    /\ commissioned \in BOOLEAN /\ erasing \in BOOLEAN /\ missed \in BOOLEAN
    /\ refused \in BOOLEAN /\ overtaken \in BOOLEAN
    /\ confirmed \in [Index -> 0 .. MaxNoc]
    /\ status \in [Index -> {"none", "pending", "committed", "late", "recovered", "undone",
                             "lost", "reverted", "erased"}]

Types == FabricTypes /\ ContextTypes /\ FlagTypes

LEMMA OneContext ==
    ASSUME Types, NEW c \in failsafe
    PROVE  failsafe = {c} /\ Context = c /\ c \in FailsafeContext
  BY DEF Types, ContextTypes, Context

LEMMA TableWithout ==
    \A i : \A f \in Tables :
        /\ Without(f, i) \in Tables /\ DOMAIN Without(f, i) = DOMAIN f \ {i}
        /\ \A j \in DOMAIN f \ {i} : Without(f, i)[j] = f[j]
  <1> TAKE i
  <1> TAKE f \in Tables
  <1>1. f \in PartialFunctions(Index, Fabric)
    BY DEF Tables
  <1>2. /\ Without(f, i) \in PartialFunctions(Index, Fabric)
        /\ DOMAIN Without(f, i) = DOMAIN f \ {i}
        /\ \A j \in DOMAIN f \ {i} : Without(f, i)[j] = f[j]
    <2>1. Without(f, i) \in PartialFunctions(Index, Fabric)
      BY <1>1, WithoutTable
    <2> QED  BY <2>1 DEF Without
  <1> QED  BY <1>2 DEF Tables

LEMMA TableWith ==
    \A i \in Index, x \in Fabric, f \in Tables :
        /\ With(f, i, x) \in Tables /\ DOMAIN With(f, i, x) = DOMAIN f \cup {i}
        /\ With(f, i, x)[i] = x
        /\ \A j \in DOMAIN f \ {i} : With(f, i, x)[j] = f[j]
  <1> TAKE i \in Index, x \in Fabric, f \in Tables
  <1>1. f \in PartialFunctions(Index, Fabric)
    BY DEF Tables
  <1>2. /\ With(f, i, x) \in PartialFunctions(Index, Fabric)
        /\ DOMAIN With(f, i, x) = DOMAIN f \cup {i} /\ With(f, i, x)[i] = x
        /\ \A j \in DOMAIN f \ {i} : With(f, i, x)[j] = f[j]
    <2>1. With(f, i, x) \in PartialFunctions(Index, Fabric)
      BY <1>1, WithTable
    <2> QED  BY <2>1 DEF With
  <1> QED  BY <1>2 DEF Tables

LEMMA WithDomain ==
    \A i \in Index, x \in Fabric, f \in Tables : DOMAIN With(f, i, x) = DOMAIN f \cup {i}
  <1> TAKE i \in Index, x \in Fabric, f \in Tables
  <1> QED  BY TableWith

LEMMA WithoutDomain == \A i : \A f \in Tables : DOMAIN Without(f, i) = DOMAIN f \ {i}
  <1> TAKE i
  <1> TAKE f \in Tables
  <1> QED  BY TableWithout

LEMMA FilesOf ==
    ASSUME NEW fabrics \in Tables
    PROVE  [i \in DOMAIN fabrics |-> fabrics[i].noc] \in Files
  <1>1. \A i \in DOMAIN fabrics : i \in Index /\ fabrics[i].noc \in 0 .. MaxNoc
    <2>1. \A i \in DOMAIN fabrics : i \in Index /\ fabrics[i] \in Fabric
      BY Entries DEF Tables
    <2> QED  BY <2>1 DEF Fabric
  <1>2. DOMAIN fabrics \in SUBSET Index
    BY Entries DEF Tables
  <1>3. [i \in DOMAIN fabrics |-> fabrics[i].noc] \in [DOMAIN fabrics -> 0 .. MaxNoc]
    BY <1>1
  <1> QED  BY <1>2, <1>3, NewTable DEF Files

(* A write is appended ... *)
LEMMA Appended ==
    ASSUME writes \in Seq(Write), NEW fabrics \in Tables,
           NEW who \in {"rollback", "complete", "command"}, writes' = Persist(fabrics, who)
    PROVE  /\ writes' \in Seq(Write) /\ Len(writes') = Len(writes) + 1 /\ Len(writes) \in Nat
           /\ \A n \in 1 .. Len(writes) : writes'[n] = writes[n]
           /\ writes'[Len(writes) + 1].who = who
           /\ DOMAIN writes'[Len(writes) + 1].fabrics = DOMAIN fabrics
           /\ writes'[Len(writes) + 1].fabrics \in Files
  <1> DEFINE w == [fabrics |-> [i \in DOMAIN fabrics |-> fabrics[i].noc], who |-> who]
  <1>1. w \in Write /\ w.who = who /\ DOMAIN w.fabrics = DOMAIN fabrics /\ w.fabrics \in Files
    BY FilesOf DEF Write
  <1>2. writes' = Append(writes, w)
    BY DEF Persist
  <1> HIDE DEF w
  <1> QED  BY <1>1, <1>2

(* ... and the first one taken away. *)
LEMMA Popped ==
    ASSUME writes \in Seq(Write), writes # <<>>, writes' = Tail(writes)
    PROVE  /\ writes' \in Seq(Write) /\ Len(writes') = Len(writes) - 1 /\ Len(writes) \in Nat \ {0}
           /\ \A n \in 1 .. Len(writes) - 1 : writes'[n] = writes[n + 1]
           /\ Head(writes) = writes[1] /\ Head(writes) \in Write
  OBVIOUS

LEMMA InitTypes == Init => Types
  <1> SUFFICES ASSUME Init PROVE Types
    OBVIOUS
  <1>1. 1 \in Index /\ 0 \in 0 .. MaxNoc
    BY CommissioningAssumption DEF Index
  <1>2. table \in Tables
    <2>1. CASE table = <<>>
      BY <2>1, EmptyTable DEF Tables
    <2>2. CASE table = [i \in {1} |-> NewFabric]
      <3>1. {1} \in SUBSET Index /\ table \in [{1} -> Fabric]
        BY <1>1, <2>2 DEF NewFabric, Fabric
      <3> QED  BY <3>1, NewTable DEF Tables
    <2> QED  BY <2>1, <2>2 DEF Init
  <1>3. FabricTypes
    <2>1. nextIndex \in Index
      BY <1>1, CommissioningAssumption DEF Init, IndexAfter, Index
    <2>2. stored \in [fabrics : Files, next : Index]
      BY <1>2, <2>1, FilesOf DEF Init
    <2> QED  BY <1>2, <2>1, <2>2, EmptyTable DEF Init, FabricTypes, Tables
  <1>4. ContextTypes
    BY CommissioningAssumption DEF Init, ContextTypes, Commands, Completions
  <1>5. FlagTypes
    <2>1. (table # <<>>) \in BOOLEAN
      OBVIOUS
    <2>2. faults \in 0 .. MaxFaults
      BY CommissioningAssumption DEF Init
    <2> QED  BY <1>1, <2>1, <2>2 DEF Init, FlagTypes
  <1> QED  BY <1>3, <1>4, <1>5 DEF Types

(* Ending a context, and its close *)

LEMMA DestroyedTypes ==
    ASSUME Types, NEW c, Destroyed(c)
    PROVE  failsafe' = {} /\ commissioned' \in BOOLEAN /\ erasing' \in BOOLEAN
  BY DEF Destroyed, Recheck, Types, FlagTypes

LEMMA CloseTypes ==
    ASSUME Types, NEW c \in failsafe, Close(c), completing' \in Completions,
           window' \in {"closed", "factory", "admin"}
    PROVE  Types'
  <1>0. c \in FailsafeContext
    BY OneContext
  <1> DEFINE closing == [c EXCEPT !.held = FALSE, !.timer = FALSE]
  <1>1. \A s \in {"revoking", "pase"} :
          /\ [closing EXCEPT !.stage = s] \in FailsafeContext
          /\ [closing EXCEPT !.stage = s].index = c.index
          /\ [closing EXCEPT !.stage = s].stage = s
    BY <1>0 DEF FailsafeContext
  <1>2. FlagTypes'
    BY DestroyedTypes DEF Close, Forget, Types, FlagTypes, answers
  <1>3. table' \in Tables /\ writes' \in Seq(Write)
    <2>1. table \in Tables /\ writes \in Seq(Write)
      BY DEF Types, FabricTypes
    <2>2. Without(table, c.index) \in Tables
      BY <2>1, WithoutTable DEF Tables
    <2>3. CASE UNCHANGED <<table, writes>>
      BY <2>1, <2>3
    <2>4. CASE table' = Without(table, c.index) /\ writes' = Persist(Without(table, c.index), "rollback")
      BY <2>1, <2>2, <2>4, Appended
    <2> QED  BY <2>3, <2>4 DEF Close
  <1>4. FabricTypes'
    BY <1>3 DEF Close, Types, FabricTypes, net, answers
  <1>5. /\ failsafe' \subseteq FailsafeContext /\ \A x, y \in failsafe' : x = y
        /\ \A x \in failsafe' : x.stage = "pase" \/ (x.stage = "revoking" /\ x.index # NoFabric)
    BY <1>1, DestroyedTypes DEF Close, Set, Revokes
  <1>6. ContextTypes'
    BY <1>5 DEF Close, Types, ContextTypes
  <1> QED  BY <1>2, <1>4, <1>6 DEF Types

(* The steps of the rollback *)

LEMMA StageTypes ==
    ASSUME NEW c \in FailsafeContext, NEW s \in {"pase", "network", "restoring", "again",
                                                 "revokingAgain"}
    PROVE  /\ [c EXCEPT !.stage = s] \in FailsafeContext /\ [c EXCEPT !.stage = s].stage = s
           /\ [c EXCEPT !.stage = s].index = c.index /\ [c EXCEPT !.stage = s].assoc = c.assoc
  BY DEF FailsafeContext

LEMMA StagedTypes ==
    ASSUME Types, NEW c \in failsafe,
           NEW s \in {"pase", "network", "restoring", "again", "revokingAgain"},
           failsafe' = {} \/ failsafe' = {[c EXCEPT !.stage = s]},
           s = "revokingAgain" => c.index # NoFabric, s = "restoring" => c.assoc # NoFabric,
           UNCHANGED <<armed, command, completing>>
    PROVE  ContextTypes'
  <1>1. c \in FailsafeContext
    BY OneContext
  <1>2. /\ [c EXCEPT !.stage = s] \in FailsafeContext /\ [c EXCEPT !.stage = s].stage = s
        /\ [c EXCEPT !.stage = s].index = c.index /\ [c EXCEPT !.stage = s].assoc = c.assoc
    BY <1>1, StageTypes
  <1> DEFINE d == [c EXCEPT !.stage = s]
  <1> HIDE DEF d
  <1>3. failsafe' = {} \/ failsafe' = {d}
    BY DEF d
  <1> QED  BY <1>2, <1>3 DEF d, Types, ContextTypes

LEMMA DroppedTypes ==
    ASSUME Types, NEW i \in Index, Dropped(i)
    PROVE  cases' \in Tables /\ changes' \in Seq(Change) /\ window' \in {"closed", "factory", "admin"}
  <1>1. [action |-> "removed", index |-> i] \in Change
    BY DEF Change
  <1>2. changes' \in Seq(Change)
    BY <1>1 DEF Dropped, Announce, Types, FabricTypes
  <1>3. cases' \in Tables
    BY WithoutTable DEF Dropped, Types, FabricTypes, Tables
  <1> QED  BY <1>2, <1>3 DEF Dropped, Readvertise, Types, FlagTypes

LEMMA RollbackTypes ==
    ASSUME Types, Rollback
    PROVE  Types'
  <1>0. /\ table \in Tables /\ writes \in Seq(Write) /\ cases \in Tables /\ changes \in Seq(Change)
        /\ \A c \in failsafe : c \in FailsafeContext
    BY DEF Types, FabricTypes, ContextTypes
  <1>1. CASE RollbackRevoked
    <2>1. PICK c \in failsafe :
            /\ c.stage \in {"revoking", "revokingAgain"} /\ Dropped(c.index)
            /\ IF c.stage = "revoking"
               THEN Set([c EXCEPT !.stage = "pase"]) /\ UNCHANGED <<commissioned, erasing>>
               ELSE Destroyed(c)
      BY <1>1 DEF RollbackRevoked
    <2>2. c.index \in Index
      BY <1>0, <2>1 DEF FailsafeContext, Types, ContextTypes
    <2>3. /\ cases' \in Tables /\ changes' \in Seq(Change)
          /\ window' \in {"closed", "factory", "admin"}
      BY <2>1, <2>2, DroppedTypes
    <2>4. /\ commissioned' \in BOOLEAN /\ erasing' \in BOOLEAN
          /\ failsafe' = {} \/ failsafe' = {[c EXCEPT !.stage = "pase"]}
      BY <2>1, DestroyedTypes DEF Set, Types, FlagTypes
    <2>5. ContextTypes'
      BY <1>1, <2>4, StagedTypes DEF RollbackRevoked
    <2> QED  BY <1>1, <2>3, <2>4, <2>5 DEF RollbackRevoked, Types, FabricTypes, FlagTypes,
                core, history, answers
  <1>2. CASE RollbackSessions
    <2>1. PICK c \in failsafe :
            /\ \E b \in BOOLEAN : failsafe' = {[c EXCEPT !.stage = "network", !.captured = b]}
            /\ cases' = cases \/ cases' = Without(cases, c.index)
      BY <1>2 DEF RollbackSessions, Set
    <2>2. \A b \in BOOLEAN :
            /\ [c EXCEPT !.stage = "network", !.captured = b] \in FailsafeContext
            /\ [c EXCEPT !.stage = "network", !.captured = b].stage = "network"
      BY <1>0 DEF FailsafeContext
    <2>3. cases' \in Tables
      <3>1. Without(cases, c.index) \in Tables
        BY <1>0, WithoutTable DEF Tables
      <3> QED  BY <1>0, <2>1, <3>1
    <2>4. ContextTypes'
      BY <1>2, <2>1, <2>2 DEF RollbackSessions, Types, ContextTypes
    <2> QED  BY <1>2, <2>3, <2>4 DEF RollbackSessions, Readvertise, Types, FabricTypes, FlagTypes,
                core, after, history, answers
  <1>3. CASE RollbackRestore
    <2>1. PICK c \in failsafe :
            \/ Destroyed(c) /\ UNCHANGED <<table, writes, status>>
            \/ /\ Restores(c) /\ table' = With(table, c.assoc, c.assocFabric)
               /\ writes' = Persist(With(table, c.assoc, c.assocFabric), "rollback")
               /\ Set([c EXCEPT !.stage = "restoring"])
               /\ status' \in {status, [status EXCEPT ![c.assoc] = "reverted"]}
               /\ UNCHANGED <<commissioned, erasing>>
            \/ /\ Set([c EXCEPT !.stage = "again"])
               /\ UNCHANGED <<table, writes, commissioned, erasing, status>>
      BY <1>3 DEF RollbackRestore
    <2>2. table' \in Tables /\ writes' \in Seq(Write)
      <3>1. CASE Restores(c) /\ table' = With(table, c.assoc, c.assocFabric)
                 /\ writes' = Persist(With(table, c.assoc, c.assocFabric), "rollback")
        <4>1. c.assoc \in Index /\ c.assocFabric \in Fabric
          BY <1>0, <3>1 DEF Restores, FailsafeContext
        <4>2. With(table, c.assoc, c.assocFabric) \in Tables
          BY <1>0, <4>1, WithTable DEF Tables
        <4> QED  BY <1>0, <3>1, <4>2, Appended
      <3> QED  BY <1>0, <2>1, <3>1
    <2>3. FlagTypes'
      <3>1. /\ commissioned' \in BOOLEAN /\ erasing' \in BOOLEAN
            /\ status' \in {status, [status EXCEPT ![c.assoc] = "reverted"]}
        BY <2>1, DestroyedTypes DEF Types, FlagTypes
      <3> QED  BY <1>3, <3>1 DEF RollbackRestore, Types, FlagTypes, answers
    <2>4. \/ failsafe' = {} \/ failsafe' = {[c EXCEPT !.stage = "again"]}
          \/ failsafe' = {[c EXCEPT !.stage = "restoring"]} /\ c.assoc # NoFabric
      BY <2>1, DestroyedTypes DEF Set, Restores
    <2>5. ContextTypes'
      BY <1>3, <2>4, StagedTypes DEF RollbackRestore
    <2> QED  BY <1>3, <2>2, <2>3, <2>5 DEF RollbackRestore, Types, FabricTypes, net, answers
  <1>4. CASE RollbackRestored
    <2>1. PICK c \in failsafe :
            /\ c.stage = "restoring" /\ changes' = Announce("updated", c.assoc)
            /\ failsafe' = {[c EXCEPT !.stage = "again"]}
      BY <1>4 DEF RollbackRestored, Set
    <2>2. c.assoc \in Index
      BY <1>0, <2>1 DEF Types, ContextTypes, FailsafeContext
    <2>3. changes' \in Seq(Change)
      <3>1. [action |-> "updated", index |-> c.assoc] \in Change
        BY <2>2 DEF Change
      <3> QED  BY <1>0, <2>1, <3>1 DEF Announce
    <2>4. ContextTypes'
      BY <1>0, <1>4, <2>1, StageTypes DEF RollbackRestored, Types, ContextTypes
    <2> QED  BY <1>4, <2>3, <2>4 DEF RollbackRestored, Types, FabricTypes, FlagTypes, core, net,
                history, answers
  <1>5. CASE RollbackEnds
    <2>1. PICK c \in failsafe :
            \/ /\ Revokes(c) /\ table' = Without(table, c.index)
               /\ writes' = Persist(Without(table, c.index), "rollback")
               /\ Set([c EXCEPT !.stage = "revokingAgain"])
               /\ UNCHANGED <<commissioned, erasing>>
            \/ Destroyed(c) /\ UNCHANGED <<table, writes>>
      BY <1>5 DEF RollbackEnds
    <2>2. table' \in Tables /\ writes' \in Seq(Write)
      <3>1. Without(table, c.index) \in Tables
        BY <1>0, WithoutTable DEF Tables
      <3> QED  BY <1>0, <2>1, <3>1, Appended
    <2>3. /\ commissioned' \in BOOLEAN /\ erasing' \in BOOLEAN
          /\ \/ failsafe' = {}
             \/ failsafe' = {[c EXCEPT !.stage = "revokingAgain"]} /\ c.index # NoFabric
      BY <2>1, DestroyedTypes DEF Set, Revokes, Types, FlagTypes
    <2>4. ContextTypes'
      BY <1>5, <2>3, StagedTypes DEF RollbackEnds
    <2>5. FlagTypes'
      BY <1>5, <2>3 DEF RollbackEnds, Forget, Types, FlagTypes, answers
    <2> QED  BY <1>5, <2>2, <2>4, <2>5 DEF RollbackEnds, Types, FabricTypes, net, answers
  <1> QED  BY <1>1, <1>2, <1>3, <1>4, <1>5 DEF Rollback

(* Arming, sessions, the window and the commands *)

LEMMA ArmTypes ==
    ASSUME Types, NEW a \in Index \cup {NoFabric}, NEW f \in Fabric, Arm(a, f)
    PROVE  /\ failsafe' = {NewContext(a, f)} /\ NewContext(a, f) \in FailsafeContext
           /\ NewContext(a, f).stage = "none" /\ armed' \in 0 .. MaxFailsafes
  <1>1. armed \in Nat /\ armed < MaxFailsafes /\ MaxFailsafes \in Nat /\ armed' = armed + 1
    BY CommissioningAssumption DEF Arm, Types, ContextTypes
  <1> QED  BY <1>1 DEF Arm, Set, NewContext, FailsafeContext

LEMMA NewFabricType == NewFabric \in Fabric
  BY CommissioningAssumption DEF NewFabric, Fabric

LEMMA ArmingTypes ==
    ASSUME Types, ArmFailSafe \/ OpenPase
    PROVE  Types'
  <1>0. cases \in Tables /\ pase \in {NoSession, NoFabric} \cup Index
    BY DEF Types, FabricTypes
  <1>1. \/ UNCHANGED <<failsafe, armed>>
        \/ \E a \in Index \cup {NoFabric}, f \in Fabric : Arm(a, f)
    <2>1. CASE ArmFailSafe /\ pase # NoSession /\ Arm(pase, NewFabric)
      BY <1>0, <2>1, NewFabricType
    <2>2. CASE ArmFailSafe /\ \E i \in DOMAIN cases : Arm(i, cases[i])
      <3>1. \A i \in DOMAIN cases : i \in Index /\ cases[i] \in Fabric
        BY <1>0, Entries DEF Tables
      <3> QED  BY <2>2, <3>1
    <2>3. CASE OpenPase
      BY <2>3, NewFabricType DEF OpenPase
    <2> QED  BY <2>1, <2>2, <2>3 DEF ArmFailSafe
  <1>2. command' = command /\ completing' = completing
    BY DEF ArmFailSafe, OpenPase
  <1>3. ContextTypes'
    <2>1. CASE UNCHANGED <<failsafe, armed>>
      BY <1>2, <2>1 DEF Types, ContextTypes
    <2>2. CASE \E a \in Index \cup {NoFabric}, f \in Fabric : Arm(a, f)
      <3>1. PICK a \in Index \cup {NoFabric}, f \in Fabric : Arm(a, f)
        BY <2>2
      <3> DEFINE d == NewContext(a, f)
      <3>2. /\ failsafe' = {d} /\ d \in FailsafeContext /\ d.stage = "none"
            /\ armed' \in 0 .. MaxFailsafes
        BY <3>1, ArmTypes
      <3> HIDE DEF d
      <3> QED  BY <1>2, <3>2 DEF Types, ContextTypes
    <2> QED  BY <1>1, <2>1, <2>2
  <1>4. pase' \in {NoSession, NoFabric} \cup Index
    BY <1>0 DEF ArmFailSafe, OpenPase, net
  <1> QED  BY <1>3, <1>4 DEF ArmFailSafe, OpenPase, Types, FabricTypes, FlagTypes, core, net,
              after, history, answers

LEMMA SessionTypes ==
    ASSUME Types,
           \/ OpenWindow \/ WindowEnds \/ FabricLeft \/ AddTrustedRootCertificate
           \/ \E i \in Index : OpenCase(i)
           \/ \E s \in Sessions, forUpdate \in BOOLEAN : CsrRequest(s, forUpdate)
    PROVE  Types'
  <1>0. /\ table \in Tables /\ cases \in Tables
        /\ \A c \in failsafe : c \in FailsafeContext
        /\ Sessions \subseteq Session
    <2>1. table \in Tables /\ cases \in Tables /\ \A c \in failsafe : c \in FailsafeContext
      BY DEF Types, FabricTypes, ContextTypes
    <2> QED  BY <2>1, Entries DEF Tables, Sessions, Session, Pase
  <1>1. CASE OpenWindow \/ WindowEnds \/ FabricLeft
    <2>1. ContextTypes'
      BY <1>1 DEF OpenWindow, WindowEnds, FabricLeft, Types, ContextTypes, Commands
    <2> QED  BY <1>1, <2>1 DEF OpenWindow, WindowEnds, FabricLeft, Types, FabricTypes, FlagTypes,
                core, net, after, history, answers
  <1>2. CASE AddTrustedRootCertificate
    <2>1. PICK c \in failsafe : failsafe' = {[c EXCEPT !.root = TRUE]}
      BY <1>2 DEF AddTrustedRootCertificate, Set
    <2>2. /\ [c EXCEPT !.root = TRUE] \in FailsafeContext
          /\ [c EXCEPT !.root = TRUE].stage = c.stage /\ [c EXCEPT !.root = TRUE].index = c.index
          /\ [c EXCEPT !.root = TRUE].assoc = c.assoc
      BY <1>0 DEF FailsafeContext
    <2>3. ContextTypes'
      BY <1>2, <2>1, <2>2 DEF AddTrustedRootCertificate, Types, ContextTypes
    <2> QED  BY <1>2, <2>3 DEF AddTrustedRootCertificate, Types, FabricTypes, FlagTypes,
                core, net, after, history, answers
  <1>3. CASE \E s \in Sessions, forUpdate \in BOOLEAN : CsrRequest(s, forUpdate)
    <2>1. PICK s \in Sessions, forUpdate \in BOOLEAN : CsrRequest(s, forUpdate)
      BY <1>3
    <2>2. PICK c \in failsafe, u \in {"yes", "no"} :
            failsafe' = {[c EXCEPT !.csr = s, !.update = u]}
      BY <2>1 DEF CsrRequest, Set
    <2>3. s \in Session
      BY <1>0
    <2> DEFINE d == [c EXCEPT !.csr = s, !.update = u]
    <2>4. d \in FailsafeContext /\ d.stage = c.stage /\ d.index = c.index /\ d.assoc = c.assoc
      BY <1>0, <2>3 DEF FailsafeContext
    <2> HIDE DEF d
    <2>5. ContextTypes'
      BY <2>1, <2>2, <2>4 DEF CsrRequest, Types, ContextTypes, d
    <2> QED  BY <2>1, <2>5 DEF CsrRequest, Types, FabricTypes, FlagTypes,
                core, net, after, history, answers
  <1>4. CASE \E i \in Index : OpenCase(i)
    <2>1. PICK i \in Index : OpenCase(i)
      BY <1>4
    <2>2. cases' \in Tables
      <3>1. table[i] \in Fabric
        BY <1>0, <2>1, Entries DEF OpenCase, Free, Tables
      <3> QED  BY <1>0, <2>1, <3>1, WithTable DEF OpenCase, Tables
    <2> DEFINE E(c) == [c EXCEPT !.csr = IF @ = i THEN NoSession ELSE @]
    <2>3. \A c \in failsafe :
            /\ E(c) \in FailsafeContext /\ E(c).stage = c.stage /\ E(c).index = c.index
            /\ E(c).assoc = c.assoc
      BY <1>0 DEF FailsafeContext
    <2>4. failsafe' = {E(c) : c \in failsafe}
      BY <2>1 DEF OpenCase
    <2> HIDE DEF E
    <2>5. ContextTypes'
      BY <2>1, <2>3, <2>4 DEF OpenCase, Types, ContextTypes
    <2> QED  BY <2>1, <2>2, <2>5 DEF OpenCase, Types, FabricTypes, FlagTypes,
                core, after, history, answers
  <1> QED  BY <1>1, <1>2, <1>3, <1>4

(* A CommissioningComplete *)

LEMMA CompletionTypes ==
    ASSUME Types, CommissioningComplete \/ Completion
    PROVE  Types'
  <1>0. /\ table \in Tables /\ cases \in Tables /\ writes \in Seq(Write)
        /\ \A c \in failsafe : c \in FailsafeContext
    BY DEF Types, FabricTypes, ContextTypes
  <1>1. CASE CommissioningComplete
    <2>1. PICK c \in failsafe :
            /\ c.assoc \in DOMAIN cases
            /\ completing' = [op |-> IF c.index # NoFabric THEN "persisting" ELSE "closing",
                              id |-> c.id, fabric |-> c.assoc, persists |-> c.index # NoFabric,
                              disturbed |-> Free(c.assoc)]
            /\ failsafe' = {[Disarmed(c) EXCEPT !.held = (c.index # NoFabric)]}
            /\ writes' = IF c.index # NoFabric THEN Persist(table, "complete") ELSE writes
            /\ window' = IF c.index # NoFabric THEN window ELSE "closed"
      BY <1>1 DEF CommissioningComplete, Set
    <2>2. completing' \in Completions
      <3>1. c.assoc \in Index /\ c.id \in 1 .. MaxFailsafes
        BY <1>0, <2>1, Entries DEF Tables, FailsafeContext
      <3>2. (c.index # NoFabric) \in BOOLEAN /\ Free(c.assoc) \in BOOLEAN
        BY DEF Free
      <3> QED  BY <2>1, <3>1, <3>2 DEF Completions
    <2> DEFINE d == [Disarmed(c) EXCEPT !.held = (c.index # NoFabric)]
    <2>3. d \in FailsafeContext /\ d.stage = c.stage /\ d.index = c.index /\ d.assoc = c.assoc
      BY <1>0 DEF FailsafeContext, Disarmed
    <2> HIDE DEF d
    <2>4. ContextTypes'
      BY <1>1, <2>1, <2>2, <2>3 DEF CommissioningComplete, Types, ContextTypes, d
    <2>5. writes' \in Seq(Write)
      BY <1>0, <2>1, Appended
    <2> QED  BY <1>1, <2>1, <2>4, <2>5 DEF CommissioningComplete, Types, FabricTypes, FlagTypes,
                core, net, after, history, answers
  <1>2. CASE CommissioningPersisted
    <2>1. completing' \in Completions
      BY <1>2 DEF CommissioningPersisted, Types, ContextTypes, Completions, Nothing
    <2> DEFINE E(c) == [c EXCEPT !.held = @ /\ c.id # completing.id]
    <2>2. \A c \in failsafe :
            /\ E(c) \in FailsafeContext /\ E(c).stage = c.stage /\ E(c).index = c.index
            /\ E(c).assoc = c.assoc
      BY <1>0 DEF FailsafeContext
    <2>3. failsafe' = {E(c) : c \in failsafe}
      BY <1>2 DEF CommissioningPersisted
    <2> HIDE DEF E
    <2>4. ContextTypes'
      BY <1>2, <2>1, <2>2, <2>3 DEF CommissioningPersisted, Types, ContextTypes
    <2> QED  BY <1>2, <2>4 DEF CommissioningPersisted, Types, FabricTypes, FlagTypes,
                core, net, after, history, answers
  <1>3. CASE CommissioningClosed
    <2>1. /\ \/ UNCHANGED <<failsafe, commissioned, erasing>>
             \/ failsafe' = {} /\ commissioned' \in BOOLEAN /\ erasing' \in BOOLEAN
          /\ \/ \E j : Answered(completing.fabric, j)
             \/ completing' = [completing EXCEPT !.op = "hung"] /\ UNCHANGED history
      BY <1>3, DestroyedTypes DEF CommissioningClosed
    <2>2. completing' \in Completions
      BY <1>3, <2>1 DEF CommissioningClosed, Answered, Types, ContextTypes, Completions, Nothing
    <2>3. ContextTypes'
      BY <1>3, <2>1, <2>2 DEF CommissioningClosed, Types, ContextTypes
    <2>4. FlagTypes' /\ removed' = removed
      <3>1. CASE UNCHANGED history
        BY <1>3, <2>1, <3>1 DEF CommissioningClosed, Types, FlagTypes, history, answers
      <3>2. CASE \E j : Answered(completing.fabric, j)
        <4>1. PICK j : Answered(completing.fabric, j)
          BY <3>2
        <4>2. (overtaken \/ (completing.persists /\ ~Free(completing.fabric)
                             /\ ~completing.disturbed /\ erasing)) \in BOOLEAN
          OBVIOUS
        <4>3. overtaken' \in BOOLEAN
          BY <4>1 DEF Answered
        <4>4. completing.op = "closing" /\ completing \in Completions
          BY <1>3 DEF CommissioningClosed, Types, ContextTypes
        <4>5. completing.fabric \in Index
          BY <4>4 DEF Completions, Nothing
        <4>6. confirmed' \in [Index -> 0 .. MaxNoc]
          <5>1. ~Free(completing.fabric) => table[completing.fabric].noc \in 0 .. MaxNoc
            <6>1. ~Free(completing.fabric) => table[completing.fabric] \in Fabric
              BY <1>0, Entries DEF Free, Tables
            <6> QED  BY <6>1 DEF Fabric
          <5> QED  BY <4>1, <4>5, <5>1 DEF Answered, Types, FlagTypes
        <4>7. status' \in [Index -> {"none", "pending", "committed", "late", "recovered",
                                     "undone", "lost", "reverted", "erased"}]
          BY <4>1 DEF Answered, Types, FlagTypes
        <4> QED  BY <1>3, <2>1, <4>1, <4>3, <4>6, <4>7 DEF CommissioningClosed, Answered,
                    Types, FlagTypes
      <3> QED  BY <2>1, <3>1, <3>2
    <2> QED  BY <1>3, <2>3, <2>4 DEF CommissioningClosed, Types, FabricTypes, core
  <1> QED  BY <1>1, <1>2, <1>3 DEF Completion

(* The commands of OperationalCredentials *)

LEMMA CommandTypes ==
    ASSUME Types,
           \/ \E s \in Sessions : AddNoc(s)
           \/ \E i \in Index : UpdateNoc(i) \/ RemoveFabric(i)
           \/ AddNocBuilt \/ UpdateNocBuilt \/ CommandWritten
    PROVE  Types'
  <1>0. /\ table \in Tables /\ cases \in Tables /\ writes \in Seq(Write)
        /\ changes \in Seq(Change) /\ nextIndex \in Index
        /\ command \in Commands /\ completing \in Completions
        /\ \A c \in failsafe : c \in FailsafeContext
        /\ \A i \in DOMAIN table : table[i] \in Fabric
    <2>1. table \in Tables
      BY DEF Types, FabricTypes
    <2> QED  BY <2>1, Entries DEF Tables, Types, FabricTypes, ContextTypes
  <1>1. CASE \E s \in Sessions : AddNoc(s)
    <2>1. PICK s \in Sessions : AddNoc(s)
      BY <1>1
    <2>2. PICK c \in failsafe :
            /\ \E i \in Index : Free(i)
            /\ failsafe' = {[c EXCEPT !.index = Allocated]}
            /\ command' = [op |-> "add", id |-> c.id, index |-> Allocated, session |-> s]
            /\ nextIndex' = IndexAfter(Allocated) /\ c.index = NoFabric
      BY <2>1 DEF AddNoc, Set
    <2>3. Allocated \in Index
      BY <1>0, <2>2, AllocatedIsIndex
    <2>4. nextIndex' \in Index
      BY <2>2, <2>3, CommissioningAssumption DEF IndexAfter, Index
    <2>5. command' \in Commands
      <3>1. s \in Session
        BY <1>0, Entries DEF Sessions, Session, Pase, Tables
      <3>2. c.id \in 1 .. MaxFailsafes
        BY <1>0 DEF FailsafeContext
      <3> QED  BY <2>2, <2>3, <3>1, <3>2 DEF Commands
    <2> DEFINE d == [c EXCEPT !.index = Allocated]
    <2>6. d \in FailsafeContext /\ d.stage = c.stage /\ d.index = Allocated /\ d.assoc = c.assoc
      BY <1>0, <2>3 DEF FailsafeContext
    <2>7. Allocated # NoFabric
      BY <2>3 DEF Index, NoFabric
    <2> HIDE DEF d
    <2>8. ContextTypes'
      BY <2>1, <2>2, <2>5, <2>6, <2>7 DEF AddNoc, Types, ContextTypes, d
    <2> QED  BY <2>1, <2>4, <2>8 DEF AddNoc, Types, FabricTypes, FlagTypes, net, after, history,
                answers
  <1>2. CASE \E i \in Index : UpdateNoc(i)
    <2>1. PICK i \in Index : UpdateNoc(i)
      BY <1>2
    <2>2. PICK c \in failsafe :
            /\ failsafe' = {[c EXCEPT !.index = i]} /\ ~Free(i) /\ table[i].noc < MaxNoc
            /\ command' = [op |-> "update", id |-> c.id, index |-> i, noc |-> table[i].noc + 1]
      BY <2>1 DEF UpdateNoc, Set
    <2>3. command' \in Commands
      <3>1. table[i].noc \in 0 .. MaxNoc
        BY <1>0, <2>2 DEF Free, Fabric
      <3>2. c.id \in 1 .. MaxFailsafes
        BY <1>0 DEF FailsafeContext
      <3> QED  BY <2>2, <3>1, <3>2, CommissioningAssumption DEF Commands
    <2> DEFINE d == [c EXCEPT !.index = i]
    <2>4. d \in FailsafeContext /\ d.stage = c.stage /\ d.index = i /\ d.assoc = c.assoc
      BY <1>0 DEF FailsafeContext
    <2>5. i # NoFabric
      BY DEF Index, NoFabric
    <2> HIDE DEF d
    <2>6. ContextTypes'
      BY <2>1, <2>2, <2>3, <2>4, <2>5 DEF UpdateNoc, Types, ContextTypes, d
    <2> QED  BY <2>1, <2>6 DEF UpdateNoc, Types, FabricTypes, FlagTypes, core, net, after,
                history, answers
  <1>3. CASE \E i \in Index : RemoveFabric(i)
    <2>1. PICK i \in Index : RemoveFabric(i)
      BY <1>3
    <2>2. table' \in Tables /\ writes' \in Seq(Write)
      <3>1. Without(table, i) \in Tables
        BY <1>0, WithoutTable DEF Tables
      <3> QED  BY <1>0, <2>1, <3>1, Appended DEF RemoveFabric
    <2>3. command' \in Commands
      BY <2>1 DEF RemoveFabric, Commands
    <2>4. completing' \in Completions
      BY <1>0, <2>1 DEF RemoveFabric, Completions, Nothing
    <2>5. FlagTypes'
      BY <2>1 DEF RemoveFabric, Forget, Types, FlagTypes, after, answers
    <2>6. ContextTypes'
      BY <2>1, <2>3, <2>4 DEF RemoveFabric, Types, ContextTypes
    <2> QED  BY <2>1, <2>2, <2>5, <2>6 DEF RemoveFabric, Types, FabricTypes, net, after, answers
  <1>4. CASE AddNocBuilt
    <2> DEFINE i == command.index
    <2>1. i \in Index
      BY <1>0, <1>4 DEF AddNocBuilt, Commands, Nothing
    <2>2. table' \in Tables
      BY <1>0, <1>4, <2>1, WithTable, NewFabricType DEF AddNocBuilt, Tables
    <2>3. changes' \in Seq(Change)
      <3>1. [action |-> "added", index |-> i] \in Change
        BY <2>1 DEF Change
      <3> QED  BY <1>0, <1>4, <3>1 DEF AddNocBuilt, Announce
    <2>4. \/ failsafe' = failsafe
          \/ \E c \in failsafe : failsafe' = {[c EXCEPT !.assoc = i, !.assocFabric = NewFabric]}
      BY <1>4, OneContext DEF AddNocBuilt
    <2>5. ContextTypes'
      <3>1. command' \in Commands
        BY <1>4 DEF AddNocBuilt, Commands
      <3>2. CASE failsafe' = failsafe
        BY <1>4, <3>1, <3>2 DEF AddNocBuilt, Types, ContextTypes
      <3>3. CASE \E c \in failsafe : failsafe' = {[c EXCEPT !.assoc = i, !.assocFabric = NewFabric]}
        <4>1. PICK c \in failsafe : failsafe' = {[c EXCEPT !.assoc = i, !.assocFabric = NewFabric]}
          BY <3>3
        <4> DEFINE d == [c EXCEPT !.assoc = i, !.assocFabric = NewFabric]
        <4>2. d \in FailsafeContext /\ d.stage = c.stage /\ d.index = c.index /\ d.assoc = i
          BY <1>0, <2>1, NewFabricType DEF FailsafeContext
        <4>3. i # NoFabric
          BY <2>1 DEF Index, NoFabric
        <4> HIDE DEF d
        <4> QED  BY <1>4, <3>1, <4>1, <4>2, <4>3 DEF AddNocBuilt, Types, ContextTypes, d
      <3> QED  BY <2>4, <3>2, <3>3
    <2>6. FlagTypes'
      <3>1. confirmed' \in [Index -> 0 .. MaxNoc]
        <4>1. confirmed' = [confirmed EXCEPT ![i] = 0] /\ 0 \in 0 .. MaxNoc
          BY <1>4, CommissioningAssumption DEF AddNocBuilt
        <4> QED  BY <4>1 DEF Types, FlagTypes
      <3>2. status' \in [Index -> {"none", "pending", "committed", "late", "recovered", "undone",
                                   "lost", "reverted", "erased"}]
        <4>1. \E x \in {"pending", "late"} : status' = [status EXCEPT ![i] = x]
          BY <1>4 DEF AddNocBuilt
        <4> QED  BY <4>1 DEF Types, FlagTypes
      <3> QED  BY <1>4, <3>1, <3>2 DEF AddNocBuilt, Types, FlagTypes
    <2>7. pase' \in {NoSession, NoFabric} \cup Index
      BY <1>4, <2>1 DEF AddNocBuilt, Types, FabricTypes
    <2> QED  BY <1>4, <2>1, <2>2, <2>3, <2>5, <2>6, <2>7 DEF AddNocBuilt, Types, FabricTypes
  <1>5. CASE UpdateNocBuilt
    <2> DEFINE i == command.index
               updated == [table EXCEPT ![i] = [noc |-> command.noc, tracked |-> FALSE]]
    <2>1. i \in Index /\ command.noc \in 0 .. MaxNoc
      BY <1>0, <1>5 DEF UpdateNocBuilt, Commands, Nothing
    <2>2. updated \in Tables
      <3>1. [noc |-> command.noc, tracked |-> FALSE] \in Fabric
        BY <2>1 DEF Fabric
      <3>2. updated \in [DOMAIN table -> Fabric]
        <4>1. table \in [DOMAIN table -> Fabric]
          BY <1>0, Table DEF Tables
        <4> QED  BY <3>1, <4>1
      <3>3. DOMAIN table \in SUBSET Index
        BY <1>0, Entries DEF Tables
      <3> QED  BY <3>2, <3>3, NewTable DEF Tables
    <2> HIDE DEF updated
    <2>3. \/ table' = table /\ writes' = writes
          \/ table' = updated /\ writes' = Persist(updated, "command")
      BY <1>5 DEF UpdateNocBuilt, updated
    <2>4. table' \in Tables /\ writes' \in Seq(Write)
      BY <1>0, <2>2, <2>3, Appended
    <2>5. command' \in Commands
      BY <1>5, <2>1 DEF UpdateNocBuilt, Commands
    <2>6. ContextTypes'
      BY <1>5, <2>5 DEF UpdateNocBuilt, Types, ContextTypes
    <2>7. FlagTypes'
      BY <1>5 DEF UpdateNocBuilt, Types, FlagTypes, after, answers
    <2> QED  BY <1>5, <2>4, <2>6, <2>7 DEF UpdateNocBuilt, Types, FabricTypes, net, after, answers
  <1>6. CASE CommandWritten
    <2> DEFINE i == command.index
    <2>1. i \in Index
      BY <1>0, <1>6 DEF CommandWritten, Commands, Nothing
    <2>2. /\ cases' \in Tables /\ changes' \in Seq(Change)
          /\ window' \in {"closed", "factory", "admin"} /\ removed' \subseteq Index
      <3>1. CASE command.op = "removing"
        BY <1>6, <2>1, <3>1, DroppedTypes DEF CommandWritten, Types, FabricTypes
      <3>2. CASE command.op # "removing"
        <4>1. [action |-> "updated", index |-> i] \in Change
          BY <2>1 DEF Change
        <4>2. changes' = Announce("updated", i) /\ UNCHANGED <<cases, window, removed>>
          BY <1>6, <3>2 DEF CommandWritten
        <4>3. changes' \in Seq(Change)
          BY <1>0, <4>1, <4>2 DEF Announce
        <4> QED  BY <4>2, <4>3 DEF Types, FabricTypes, FlagTypes
      <3> QED  BY <3>1, <3>2
    <2>3. ContextTypes'
      BY <1>6 DEF CommandWritten, Types, ContextTypes, Commands
    <2> QED  BY <1>6, <2>2, <2>3 DEF CommandWritten, Types, FabricTypes, FlagTypes, core
  <1> QED  BY <1>1, <1>2, <1>3, <1>4, <1>5, <1>6

(* Reactors, the storage and restarts *)

LEMMA BlankTypes ==
    ASSUME NEW fabrics \in Files, NEW next \in Index, Blank(fabrics, next)
    PROVE  /\ table' \in Tables /\ nextIndex' \in Index /\ writes' = <<>> /\ changes' = <<>>
           /\ failsafe' = {} /\ command' = Nothing /\ completing' = Nothing
           /\ cases' = <<>> /\ pase' = NoSession /\ window' \in {"factory", "closed"}
           /\ commissioned' \in BOOLEAN /\ erasing' = FALSE /\ missed' = FALSE
           /\ DOMAIN table' = DOMAIN fabrics
           /\ \A i \in DOMAIN fabrics : table'[i].noc = fabrics[i]
  <1> DEFINE new == [i \in DOMAIN fabrics |-> [noc |-> fabrics[i], tracked |-> TRUE]]
  <1>1. new \in [DOMAIN fabrics -> Fabric] /\ DOMAIN fabrics \in SUBSET Index
    BY Entries DEF Files, Fabric
  <1>2. new \in Tables
    BY <1>1, NewTable DEF Tables
  <1>3. \A i \in DOMAIN fabrics : new[i].noc = fabrics[i]
    OBVIOUS
  <1>4. table' = new /\ DOMAIN new = DOMAIN fabrics
    BY DEF Blank
  <1> HIDE DEF new
  <1> QED  BY <1>2, <1>3, <1>4 DEF Blank

LEMMA OtherTypes ==
    ASSUME Types, HandleFabricChange \/ WriteDone \/ WriteError \/ Crash \/ FactoryReset
    PROVE  Types'
  <1>0. /\ table \in Tables /\ writes \in Seq(Write) /\ changes \in Seq(Change)
        /\ stored \in [fabrics : Files, next : Index] /\ nextIndex \in Index
        /\ \A c \in failsafe : c \in FailsafeContext
    BY DEF Types, FabricTypes, ContextTypes
  <1>a. <<>> \in Tables /\ <<>> \in Files /\ 1 \in Index
    BY EmptyTable, CommissioningAssumption DEF Tables, Files, Index
  <1>1. CASE HandleFabricChange
    <2>1. /\ \/ failsafe' = failsafe
             \/ failsafe' = {[c EXCEPT !.monitored = TRUE] : c \in failsafe}
          /\ commissioned' \in BOOLEAN /\ erasing' \in BOOLEAN /\ missed' \in BOOLEAN
      BY <1>1 DEF HandleFabricChange, Recheck, Types, FlagTypes
    <2> DEFINE E(c) == [c EXCEPT !.monitored = TRUE]
    <2>2. \A c \in failsafe :
            /\ E(c) \in FailsafeContext /\ E(c).stage = c.stage /\ E(c).index = c.index
            /\ E(c).assoc = c.assoc
      BY <1>0 DEF FailsafeContext
    <2>3. failsafe' = failsafe \/ failsafe' = {E(c) : c \in failsafe}
      BY <2>1
    <2> HIDE DEF E
    <2>4. ContextTypes'
      BY <1>1, <2>2, <2>3 DEF HandleFabricChange, Types, ContextTypes
    <2>5. changes' \in Seq(Change)
      BY <1>0, <1>1 DEF HandleFabricChange
    <2> QED  BY <1>1, <2>1, <2>4, <2>5 DEF HandleFabricChange, Types, FabricTypes, FlagTypes,
                core, net, history, answers
  <1>2. CASE WriteDone
    <2>1. writes' \in Seq(Write) /\ Head(writes) \in Write
      BY <1>0, <1>2, Popped DEF WriteDone
    <2>2. stored' \in [fabrics : Files, next : Index]
      BY <1>0, <1>2, <2>1 DEF WriteDone, Write
    <2>3. ContextTypes'
      BY <1>2 DEF WriteDone, Types, ContextTypes
    <2> QED  BY <1>2, <2>1, <2>2, <2>3 DEF WriteDone, Types, FabricTypes, FlagTypes, core, net,
                after, history, answers
  <1>3. CASE WriteError
    <2>1. writes' \in Seq(Write)
      BY <1>0, <1>3, Popped DEF WriteError
    <2>2. /\ failsafe' \subseteq failsafe /\ commissioned' \in BOOLEAN /\ erasing' \in BOOLEAN
          /\ faults' \in 0 .. MaxFaults
      <3>1. faults' \in 0 .. MaxFaults
        BY <1>3, CommissioningAssumption DEF WriteError, Fault, Types, FlagTypes
      <3> QED  BY <1>3, <3>1, DestroyedTypes DEF WriteError, Types, FlagTypes
    <2>3. ContextTypes'
      BY <1>3, <2>2 DEF WriteError, Types, ContextTypes, Commands, Completions
    <2> QED  BY <1>3, <2>1, <2>2, <2>3 DEF WriteError, Types, FabricTypes, FlagTypes, core, net
  <1>4. CASE Crash
    <2>1. stored.fabrics \in Files /\ stored.next \in Index
      BY <1>0
    <2>2. Blank(stored.fabrics, stored.next)
      BY <1>4 DEF Crash
    <2>3. /\ table' \in Tables /\ nextIndex' \in Index /\ writes' = <<>> /\ changes' = <<>>
          /\ failsafe' = {} /\ command' = Nothing /\ completing' = Nothing
          /\ cases' = <<>> /\ pase' = NoSession /\ window' \in {"factory", "closed"}
          /\ commissioned' \in BOOLEAN /\ erasing' = FALSE /\ missed' = FALSE
      BY <2>1, <2>2, BlankTypes
    <2>4. FabricTypes'
      BY <1>a, <1>4, <2>3 DEF Crash, Types, FabricTypes, answers
    <2>5. ContextTypes'
      BY <1>4, <2>3 DEF Crash, Types, ContextTypes, Commands, Completions
    <2>6. FlagTypes'
      <3>1. faults' \in 0 .. MaxFaults
        BY <1>4, CommissioningAssumption DEF Crash, Fault, Types, FlagTypes
      <3> QED  BY <1>4, <2>3, <3>1 DEF Crash, Types, FlagTypes, answers
    <2> QED  BY <2>4, <2>5, <2>6 DEF Types
  <1>5. CASE FactoryReset
    <2>1. Blank(<<>>, 1)
      BY <1>5 DEF FactoryReset
    <2>2. /\ table' \in Tables /\ nextIndex' \in Index /\ writes' = <<>> /\ changes' = <<>>
          /\ failsafe' = {} /\ command' = Nothing /\ completing' = Nothing
          /\ cases' = <<>> /\ pase' = NoSession /\ window' \in {"factory", "closed"}
          /\ commissioned' \in BOOLEAN /\ erasing' = FALSE /\ missed' = FALSE
      BY <1>a, <2>1, BlankTypes
    <2>3. FabricTypes'
      BY <1>a, <1>5, <2>2 DEF FactoryReset, Types, FabricTypes
    <2>4. ContextTypes'
      BY <1>5, <2>2 DEF FactoryReset, Types, ContextTypes, Commands, Completions
    <2>5. FlagTypes'
      BY <1>5, <2>2 DEF FactoryReset, Types, FlagTypes
    <2> QED  BY <2>3, <2>4, <2>5 DEF Types
  <1> QED  BY <1>1, <1>2, <1>3, <1>4, <1>5

LEMMA TypesStep ==
    ASSUME Types, [Next]_vars
    PROVE  Types'
  <1>1. CASE Expire \/ RevokeCommissioning
    <2>1. CASE \E c \in failsafe : Close(c) /\ (Expire \/ RevokeCommissioning)
      <3>1. PICK c \in failsafe : Close(c)
        BY <2>1
      <3>2. completing' \in Completions /\ window' \in {"closed", "factory", "admin"}
        BY <1>1 DEF Expire, RevokeCommissioning, Types, ContextTypes, FlagTypes, Completions, Nothing
      <3> QED  BY <3>1, <3>2, CloseTypes
    <2>2. CASE RevokeCommissioning /\ UNCHANGED <<core, stored, writes, failsafe, armed, command,
                                                  completing, net, after, faults, history>>
      <3>1. ContextTypes'
        BY <2>2 DEF Types, ContextTypes
      <3> QED  BY <2>2, <3>1 DEF RevokeCommissioning, Types, FabricTypes, FlagTypes, core, net,
                  after, history, answers
    <2> QED  BY <1>1, <2>1, <2>2, OneContext DEF Expire, RevokeCommissioning
  <1>2. CASE UNCHANGED vars
    BY <1>2 DEF vars, core, net, after, history, answers, Types, FabricTypes, ContextTypes, FlagTypes
  <1> QED  BY <1>1, <1>2, ArmingTypes, SessionTypes, RollbackTypes, CompletionTypes, CommandTypes,
              OtherTypes DEF Next, CommandSteps

(* Every variable keeps to its type: at most one failsafe context exists,  *)
(* its rollback knows the fabrics it announces, and an index, certificate  *)
(* or session is one the device can have.                                  *)
THEOREM TypeCorrect == Spec => []TypeOK
  <1>1. Spec => []Types
    BY InitTypes, TypesStep, PTL DEF Spec
  <1>2. Types => TypeOK
    <2> SUFFICES ASSUME Types PROVE TypeOK
      OBVIOUS
    <2>1. Cardinality(failsafe) <= 1
      <3>1. CASE failsafe = {}
        BY <3>1, FS_EmptySet
      <3>2. CASE \E c \in failsafe : failsafe = {c}
        <4>1. PICK c \in failsafe : failsafe = {c}
          BY <3>2
        <4>2. Cardinality({c}) = 1
          BY FS_Singleton
        <4> QED  BY <4>1, <4>2
      <3> QED  BY <3>1, <3>2, OneContext
    <2> QED  BY <2>1 DEF TypeOK, Types, FabricTypes, ContextTypes, FlagTypes, Tables, Files
  <1> QED  BY <1>1, <1>2, PTL

-----------------------------------------------------------------------------
(* What the steps do, as far as the promises depend on it *)

(* c and d are one context before and after a step that leaves its stage   *)
(* alone; SameFabrics leaves out which timers run and whether it is held.  *)
SameFabrics(c, d) ==
    /\ d.id = c.id /\ d.index = c.index /\ d.update = c.update
    /\ d.assoc = c.assoc /\ d.assocFabric = c.assocFabric
Alike(c, d) ==
    SameFabrics(c, d) /\ d.stage = c.stage /\ d.held = c.held /\ d.timer = c.timer

Unmoved == UNCHANGED <<table, stored, writes, armed, command, completing, status, confirmed, removed>>

Quiet ==
    /\ Unmoved
    /\ \A d \in failsafe' : \E c \in failsafe : Alike(c, d)
    /\ \A c \in failsafe : \E d \in failsafe' : Alike(c, d)

Arms ==
    /\ UNCHANGED <<table, stored, writes, command, completing, status, confirmed, removed>>
    /\ failsafe = {} /\ armed' = armed + 1
    /\ \E d \in FailsafeContext :
        /\ failsafe' = {d} /\ d.id = armed + 1 /\ d.stage = "none" /\ d.index = NoFabric
        /\ d.held /\ d.timer /\ d.update = "unset"

LEMMA ArmingEffect ==
    ASSUME Types, ArmFailSafe \/ OpenPase
    PROVE  Arms \/ Quiet
  <1>1. CASE \E a \in Index \cup {NoFabric}, f \in Fabric : Arm(a, f) /\ failsafe = {}
    <2>1. PICK a \in Index \cup {NoFabric}, f \in Fabric : Arm(a, f) /\ failsafe = {}
      BY <1>1
    <2>2. failsafe' = {NewContext(a, f)} /\ NewContext(a, f) \in FailsafeContext
      BY <2>1, ArmTypes
    <2> QED  BY <2>1, <2>2 DEF ArmFailSafe, OpenPase, Arm, Arms, NewContext, core, history, answers
  <1>2. CASE UNCHANGED <<failsafe, armed>>
    BY <1>2 DEF ArmFailSafe, OpenPase, Arm, Quiet, Unmoved, Alike, SameFabrics, core, history, answers
  <1>3. /\ \A i \in DOMAIN cases : i \in Index /\ cases[i] \in Fabric
        /\ pase \in {NoSession, NoFabric} \cup Index
    BY Entries DEF Types, FabricTypes, Tables
  <1> QED  BY <1>1, <1>2, <1>3, NewFabricType DEF ArmFailSafe, OpenPase, Armed

LEMMA QuietEffect ==
    ASSUME Types,
           \/ OpenWindow \/ WindowEnds \/ AddTrustedRootCertificate \/ HandleFabricChange
           \/ UNCHANGED vars \/ \E i \in Index : OpenCase(i)
    PROVE  Quiet
  <1>0. \A c \in failsafe : c \in FailsafeContext
    BY DEF Types, ContextTypes
  <1>1. Unmoved
    BY DEF OpenWindow, WindowEnds, AddTrustedRootCertificate, HandleFabricChange, OpenCase,
           vars, Unmoved, core, history, answers
  <1>2. CASE OpenWindow \/ WindowEnds \/ UNCHANGED vars
    BY <1>1, <1>2 DEF OpenWindow, WindowEnds, vars, Quiet, Alike, SameFabrics
  <1>3. CASE AddTrustedRootCertificate
    <2>1. PICK c \in failsafe : failsafe' = {[c EXCEPT !.root = TRUE]}
      BY <1>3 DEF AddTrustedRootCertificate, Set
    <2>2. Alike(c, [c EXCEPT !.root = TRUE])
      BY <1>0 DEF FailsafeContext, Alike, SameFabrics
    <2>3. failsafe = {c}
      BY OneContext
    <2> QED  BY <1>1, <2>1, <2>2, <2>3 DEF Quiet
  <1>4. CASE HandleFabricChange
    <2>1. \A c \in failsafe : Alike(c, [c EXCEPT !.monitored = TRUE]) /\ Alike(c, c)
      BY <1>0 DEF FailsafeContext, Alike, SameFabrics
    <2>2. \/ failsafe' = failsafe
          \/ failsafe' = {[c EXCEPT !.monitored = TRUE] : c \in failsafe}
      BY <1>4 DEF HandleFabricChange
    <2> QED  BY <1>1, <2>1, <2>2 DEF Quiet
  <1>5. CASE \E i \in Index : OpenCase(i)
    <2>1. PICK i \in Index :
            failsafe' = {[c EXCEPT !.csr = IF @ = i THEN NoSession ELSE @] : c \in failsafe}
      BY <1>5 DEF OpenCase
    <2>2. \A c \in failsafe : Alike(c, [c EXCEPT !.csr = IF @ = i THEN NoSession ELSE @])
      BY <1>0 DEF FailsafeContext, Alike, SameFabrics
    <2> QED  BY <1>1, <2>1, <2>2 DEF Quiet
  <1> QED  BY <1>2, <1>3, <1>4, <1>5

(* A context is rolled back one step further.  It was not held and its     *)
(* timers stood still, or it was closed by this step.                      *)
Moves(c, s) ==
    \E d \in FailsafeContext :
        /\ failsafe' = {d} /\ SameFabrics(c, d) /\ d.stage = s /\ d.monitored = c.monitored
        /\ d.held => c.held /\ c.stage # "none"
        /\ d.timer => c.timer /\ c.stage # "none"

Ends(c) ==
    /\ Destroyed(c) /\ UNCHANGED <<table, writes>> /\ \A i \in Index : status'[i] = status[i]
    /\ \/ c.stage = "none" /\ Revokes(c) /\ Free(c.index)
       \/ c.stage = "revokingAgain" /\ Written("rollback")
       \/ c.stage = "network" /\ Restores(c) /\ Free(c.assoc)
       \/ c.stage = "again"

TakesOut(c) ==
    /\ Revokes(c) /\ ~Free(c.index)
    /\ \/ c.stage = "none" /\ Moves(c, "revoking")
       \/ c.stage = "again" /\ Moves(c, "revokingAgain")
    /\ table' = Without(table, c.index) /\ writes' = Persist(Without(table, c.index), "rollback")
    /\ \A i \in Index : status'[i] = IF i = c.index THEN "none" ELSE status[i]
    /\ UNCHANGED <<commissioned, erasing>>

PutsBack(c) ==
    /\ c.stage = "network" /\ Restores(c) /\ ~Free(c.assoc) /\ Moves(c, "restoring")
    /\ table' = With(table, c.assoc, c.assocFabric)
    /\ writes' = Persist(With(table, c.assoc, c.assocFabric), "rollback")
    /\ \A i \in Index : status'[i] = IF i = c.assoc /\ c.assocFabric.noc # confirmed[i]
                                     THEN "reverted" ELSE status[i]
    /\ UNCHANGED <<commissioned, erasing>>

GoesOn(c) ==
    /\ \/ c.stage = "none" /\ ~Revokes(c) /\ Moves(c, "pase")
       \/ c.stage = "revoking" /\ Written("rollback") /\ Moves(c, "pase")
       \/ c.stage = "pase" /\ Moves(c, "network")
       \/ c.stage = "network" /\ ~Restores(c) /\ Moves(c, "again")
       \/ c.stage = "restoring" /\ Written("rollback") /\ Moves(c, "again")
    /\ UNCHANGED <<table, writes, commissioned, erasing>>
    /\ \A i \in Index : status'[i] = status[i]

RollsBack(c) ==
    /\ Ends(c) \/ TakesOut(c) \/ PutsBack(c) \/ GoesOn(c)
    /\ UNCHANGED <<stored, armed, command, missed, confirmed, removed, refused, overtaken>>
    /\ IF c.stage \in {"revoking", "revokingAgain"} THEN changes' = Announce("removed", c.index)
       ELSE IF c.stage = "restoring" THEN changes' = Announce("updated", c.assoc)
       ELSE changes' = changes

(* A context that has not begun its rollback is closed when its timer      *)
(* fires, or by RevokeCommissioning, which disturbs the completion.        *)
RollsOrCloses(c) ==
    /\ RollsBack(c)
    /\ \/ completing' = completing /\ (c.stage = "none" => c.timer)
       \/ completing # Nothing /\ completing' = [completing EXCEPT !.disturbed = TRUE]
       \/ completing = Nothing /\ completing' = Nothing

LEMMA CloseEffect ==
    ASSUME Types, NEW c \in failsafe, c.stage = "none", Close(c)
    PROVE  RollsBack(c)
  <1>0. c \in FailsafeContext /\ table \in Tables
    BY OneContext DEF Types, FabricTypes
  <1> DEFINE closing == [c EXCEPT !.held = FALSE, !.timer = FALSE]
             d(s) == [closing EXCEPT !.stage = s]
  <1>1. \A s \in {"revoking", "pase"} :
          /\ d(s) \in FailsafeContext /\ SameFabrics(c, d(s)) /\ d(s).stage = s
          /\ d(s).monitored = c.monitored /\ ~d(s).held /\ ~d(s).timer
    BY <1>0 DEF FailsafeContext, SameFabrics
  <1>2. \A s \in {"revoking", "pase"} : failsafe' = {d(s)} => Moves(c, s)
    <2> HIDE DEF d
    <2> QED  BY <1>1 DEF Moves
  <1>3. \A i \in Index : status'[i] = IF i \in DOMAIN table \ DOMAIN table' THEN "none" ELSE status[i]
    BY DEF Close, Forget
  <1>4. CASE Revokes(c) /\ Free(c.index)
    <2>1. Ends(c)
      BY <1>3, <1>4 DEF Close, Ends
    <2> QED  BY <2>1 DEF RollsBack, Close, answers
  <1>5. CASE Revokes(c) /\ ~Free(c.index)
    <2>1. /\ table' = Without(table, c.index) /\ failsafe' = {d("revoking")}
          /\ writes' = Persist(Without(table, c.index), "rollback")
          /\ UNCHANGED <<commissioned, erasing>>
      BY <1>5 DEF Close, Set
    <2>2. DOMAIN table' = DOMAIN table \ {c.index}
      BY <1>0, <2>1, TableWithout
    <2>3. DOMAIN table \ DOMAIN table' = {c.index}
      BY <1>5, <2>2 DEF Free
    <2>4. TakesOut(c)
      BY <1>2, <1>3, <1>5, <2>1, <2>3 DEF TakesOut
    <2> QED  BY <2>4 DEF RollsBack, Close, answers
  <1>6. CASE ~Revokes(c)
    <2>1. failsafe' = {d("pase")} /\ UNCHANGED <<table, writes, commissioned, erasing>>
      BY <1>6 DEF Close, Set
    <2>2. GoesOn(c)
      BY <1>2, <1>3, <1>6, <2>1 DEF GoesOn
    <2> QED  BY <2>2 DEF RollsBack, Close, answers
  <1> QED  BY <1>4, <1>5, <1>6

LEMMA RollbackEffect ==
    ASSUME Types, Rollback
    PROVE  \E c \in failsafe : RollsBack(c) /\ c.stage # "none" /\ completing' = completing
  <1>0. table \in Tables /\ \A c \in failsafe : c \in FailsafeContext
    BY OneContext DEF Types, FabricTypes
  <1> DEFINE d(c, s) == [c EXCEPT !.stage = s]
  <1>1. ASSUME NEW c \in failsafe, c.stage # "none",
               NEW s \in {"pase", "network", "restoring", "again", "revokingAgain"},
               failsafe' = {d(c, s)}
        PROVE  Moves(c, s)
    <2>1. /\ d(c, s) \in FailsafeContext /\ SameFabrics(c, d(c, s)) /\ d(c, s).stage = s
          /\ d(c, s).monitored = c.monitored /\ d(c, s).held = c.held /\ d(c, s).timer = c.timer
      BY <1>0 DEF FailsafeContext, SameFabrics
    <2> HIDE DEF d
    <2> QED  BY <1>1, <2>1 DEF Moves
  <1>2. CASE RollbackRevoked
    <2>1. PICK c \in failsafe :
            /\ c.stage \in {"revoking", "revokingAgain"} /\ Written("rollback") /\ Dropped(c.index)
            /\ IF c.stage = "revoking"
               THEN failsafe' = {d(c, "pase")} /\ UNCHANGED <<commissioned, erasing>>
               ELSE Destroyed(c)
      BY <1>2 DEF RollbackRevoked, Set
    <2>2. Ends(c) \/ GoesOn(c)
      BY <1>1, <1>2, <2>1 DEF RollbackRevoked, Ends, GoesOn, core, history
    <2> QED  BY <1>2, <2>1, <2>2 DEF RollbackRevoked, RollsBack, Dropped, core, history, answers
  <1>3. CASE RollbackSessions
    <2>1. PICK c \in failsafe, b \in BOOLEAN :
            c.stage = "pase" /\ failsafe' = {[c EXCEPT !.stage = "network", !.captured = b]}
      BY <1>3 DEF RollbackSessions, Set
    <2> DEFINE e == [c EXCEPT !.stage = "network", !.captured = b]
    <2>2. /\ e \in FailsafeContext /\ SameFabrics(c, e) /\ e.stage = "network"
          /\ e.monitored = c.monitored /\ e.held = c.held /\ e.timer = c.timer
      BY <1>0 DEF FailsafeContext, SameFabrics
    <2> HIDE DEF e
    <2>3. Moves(c, "network")
      BY <2>1, <2>2 DEF Moves, e
    <2>4. GoesOn(c)
      BY <1>3, <2>1, <2>3 DEF RollbackSessions, GoesOn, core, after, history
    <2> QED  BY <1>3, <2>1, <2>4 DEF RollbackSessions, RollsBack, core, after, history, answers
  <1>4. CASE RollbackRestore
    <2>1. PICK c \in failsafe :
            /\ c.stage = "network"
            /\ IF Restores(c)
               THEN IF ~CanRestore(c)
                    THEN Destroyed(c) /\ UNCHANGED <<table, writes, status>>
                    ELSE /\ table' = With(table, c.assoc, c.assocFabric)
                         /\ writes' = Persist(With(table, c.assoc, c.assocFabric), "rollback")
                         /\ failsafe' = {d(c, "restoring")}
                         /\ status' = IF c.assocFabric.noc # confirmed[c.assoc]
                                      THEN [status EXCEPT ![c.assoc] = "reverted"] ELSE status
                         /\ UNCHANGED <<commissioned, erasing>>
               ELSE /\ failsafe' = {d(c, "again")}
                    /\ UNCHANGED <<table, writes, commissioned, erasing, status>>
      BY <1>4 DEF RollbackRestore, Set
    <2>2. CASE Restores(c) /\ ~CanRestore(c)
      BY <1>4, <2>1, <2>2 DEF RollbackRestore, Ends, RollsBack, CanRestore, answers
    <2>3. CASE Restores(c) /\ CanRestore(c)
      <3>1. c.assoc \in Index
        BY <1>0, <2>3 DEF Restores, FailsafeContext
      <3>2. \A i \in Index : status'[i] = IF i = c.assoc /\ c.assocFabric.noc # confirmed[i]
                                          THEN "reverted" ELSE status[i]
        BY <2>1, <2>3, <3>1 DEF Types, FlagTypes
      <3>3. Moves(c, "restoring")
        BY <1>1, <2>1, <2>3
      <3>4. PutsBack(c)
        BY <2>1, <2>3, <3>2, <3>3 DEF PutsBack, CanRestore
      <3> QED  BY <1>4, <2>1, <3>4 DEF RollbackRestore, RollsBack, answers
    <2>4. CASE ~Restores(c)
      <3>1. GoesOn(c)
        BY <1>1, <2>1, <2>4 DEF GoesOn
      <3> QED  BY <1>4, <2>1, <3>1 DEF RollbackRestore, RollsBack, answers
    <2> QED  BY <2>2, <2>3, <2>4
  <1>5. CASE RollbackRestored
    <2>1. PICK c \in failsafe :
            /\ c.stage = "restoring" /\ Written("rollback") /\ failsafe' = {d(c, "again")}
            /\ changes' = Announce("updated", c.assoc)
      BY <1>5 DEF RollbackRestored, Set
    <2>2. GoesOn(c)
      BY <1>1, <1>5, <2>1 DEF RollbackRestored, GoesOn, core, history
    <2> QED  BY <1>5, <2>1, <2>2 DEF RollbackRestored, RollsBack, core, history, answers
  <1>6. CASE RollbackEnds
    <2>1. PICK c \in failsafe :
            /\ c.stage = "again"
            /\ \/ /\ Revokes(c) /\ ~Free(c.index) /\ table' = Without(table, c.index)
                  /\ writes' = Persist(Without(table, c.index), "rollback")
                  /\ failsafe' = {d(c, "revokingAgain")} /\ UNCHANGED <<commissioned, erasing>>
               \/ Destroyed(c) /\ UNCHANGED <<table, writes>>
      BY <1>6 DEF RollbackEnds, Set
    <2>2. \A i \in Index : status'[i] = IF i \in DOMAIN table \ DOMAIN table' THEN "none" ELSE status[i]
      BY <1>6 DEF RollbackEnds, Forget
    <2>3. CASE table' = Without(table, c.index) /\ ~Free(c.index)
      <3>1. DOMAIN table \ DOMAIN table' = {c.index}
        <4>1. DOMAIN table' = DOMAIN table \ {c.index}
          BY <1>0, <2>3, TableWithout
        <4> QED  BY <2>3, <4>1 DEF Free
      <3>2. table' # table
        BY <2>3, <3>1
      <3>3. TakesOut(c)
        BY <1>1, <2>1, <2>2, <2>3, <3>1, <3>2 DEF TakesOut
      <3> QED  BY <1>6, <2>1, <3>3 DEF RollbackEnds, RollsBack, answers
    <2>4. CASE Destroyed(c) /\ UNCHANGED <<table, writes>>
      BY <1>6, <2>1, <2>2, <2>4 DEF RollbackEnds, Ends, RollsBack, answers
    <2> QED  BY <2>1, <2>3, <2>4
  <1> QED  BY <1>2, <1>3, <1>4, <1>5, <1>6 DEF Rollback

LEMMA RollsEffect ==
    ASSUME Types, Expire \/ RevokeCommissioning \/ Rollback
    PROVE  Quiet \/ \E c \in failsafe : RollsOrCloses(c)
  <1>1. CASE Expire
    <2>1. PICK c \in failsafe : c.timer /\ c.stage = "none" /\ Close(c) /\ completing' = completing
      BY <1>1 DEF Expire
    <2> QED  BY <2>1, CloseEffect DEF RollsOrCloses
  <1>2. CASE RevokeCommissioning /\ \E c \in failsafe : c.stage = "none"
    <2>1. PICK c \in failsafe : c.stage = "none" /\ Close(c)
      BY <1>2, OneContext DEF RevokeCommissioning
    <2> QED  BY <1>2, <2>1, CloseEffect DEF RevokeCommissioning, RollsOrCloses
  <1>3. CASE RevokeCommissioning /\ ~\E c \in failsafe : c.stage = "none"
    BY <1>3 DEF RevokeCommissioning, Quiet, Unmoved, Alike, SameFabrics, core, history, answers
  <1>4. CASE Rollback
    BY <1>4, RollbackEffect DEF RollsOrCloses
  <1> QED  BY <1>1, <1>2, <1>3, <1>4

(* A request changes the context of a failsafe without a fabric of its own *)
(* yet; the last part says which command is under way because of it.       *)
Asks(c, d) ==
    /\ c.index = NoFabric /\ command = Nothing
    /\ failsafe' = {d} /\ d.id = c.id /\ d.stage = c.stage /\ d.held = c.held /\ d.timer = c.timer
    /\ d.assoc = c.assoc /\ d.assocFabric = c.assocFabric
    /\ UNCHANGED <<table, stored, writes, armed, completing, status, confirmed, removed>>
    /\ \/ d.index = NoFabric /\ command' = Nothing
       \/ /\ d.index \in Index /\ d.update = "no"
          /\ command'.op = "add" /\ command'.id = c.id /\ command'.index = d.index
       \/ /\ d.index \in Index /\ d.update = "yes" /\ d.index = c.assoc
          /\ command'.op = "update" /\ command'.id = c.id /\ command'.index = d.index

Requests ==
    \/ \E s \in Sessions, forUpdate \in BOOLEAN : CsrRequest(s, forUpdate)
    \/ \E s \in Sessions : AddNoc(s)
    \/ \E i \in Index : UpdateNoc(i)

LEMMA AsksEffect ==
    ASSUME Types, Requests
    PROVE  \E c \in failsafe, d \in FailsafeContext : Asks(c, d)
  <1>0. nextIndex \in Index /\ \A c \in failsafe : c \in FailsafeContext
    BY DEF Types, FabricTypes, ContextTypes
  <1>1. CASE \E s \in Sessions, forUpdate \in BOOLEAN : CsrRequest(s, forUpdate)
    <2>1. PICK s \in Sessions, forUpdate \in BOOLEAN : CsrRequest(s, forUpdate)
      BY <1>1
    <2>2. PICK c \in failsafe, u \in {"yes", "no"} :
            c.index = NoFabric /\ failsafe' = {[c EXCEPT !.csr = s, !.update = u]}
      BY <2>1 DEF CsrRequest, Set
    <2> DEFINE d == [c EXCEPT !.csr = s, !.update = u]
    <2>3. s \in Session
      BY Entries DEF Types, FabricTypes, Sessions, Session, Pase, Tables
    <2>4. /\ d \in FailsafeContext /\ d.id = c.id /\ d.stage = c.stage /\ d.held = c.held
          /\ d.timer = c.timer /\ d.assoc = c.assoc /\ d.assocFabric = c.assocFabric
          /\ d.index = c.index
      BY <1>0, <2>3 DEF FailsafeContext
    <2> HIDE DEF d
    <2>5. Asks(c, d)
      BY <2>1, <2>2, <2>4 DEF CsrRequest, Asks, d, core, history, answers
    <2> QED  BY <2>4, <2>5
  <1>2. CASE \E s \in Sessions : AddNoc(s)
    <2>1. PICK s \in Sessions : AddNoc(s)
      BY <1>2
    <2>2. PICK c \in failsafe :
            /\ c.index = NoFabric /\ c.update = "no" /\ \E i \in Index : Free(i)
            /\ failsafe' = {[c EXCEPT !.index = Allocated]}
            /\ command' = [op |-> "add", id |-> c.id, index |-> Allocated, session |-> s]
      BY <2>1 DEF AddNoc, Set
    <2> DEFINE d == [c EXCEPT !.index = Allocated]
    <2>3. Allocated \in Index
      BY <1>0, <2>2, AllocatedIsIndex
    <2>4. /\ d \in FailsafeContext /\ d.id = c.id /\ d.stage = c.stage /\ d.held = c.held
          /\ d.timer = c.timer /\ d.assoc = c.assoc /\ d.assocFabric = c.assocFabric
          /\ d.index = Allocated /\ d.update = c.update
      BY <1>0, <2>3 DEF FailsafeContext
    <2> HIDE DEF d
    <2>5. Asks(c, d)
      BY <2>1, <2>2, <2>3, <2>4 DEF AddNoc, Asks, d, history, answers
    <2> QED  BY <2>4, <2>5
  <1>3. CASE \E i \in Index : UpdateNoc(i)
    <2>1. PICK i \in Index : UpdateNoc(i)
      BY <1>3
    <2>2. PICK c \in failsafe :
            /\ c.index = NoFabric /\ c.update = "yes" /\ c.assoc = i
            /\ failsafe' = {[c EXCEPT !.index = i]}
            /\ command' = [op |-> "update", id |-> c.id, index |-> i, noc |-> table[i].noc + 1]
      BY <2>1 DEF UpdateNoc, Set
    <2> DEFINE d == [c EXCEPT !.index = i]
    <2>3. /\ d \in FailsafeContext /\ d.id = c.id /\ d.stage = c.stage /\ d.held = c.held
          /\ d.timer = c.timer /\ d.assoc = c.assoc /\ d.assocFabric = c.assocFabric
          /\ d.index = i /\ d.update = c.update
      BY <1>0 DEF FailsafeContext
    <2> HIDE DEF d
    <2>4. Asks(c, d)
      BY <2>1, <2>2, <2>3 DEF UpdateNoc, Asks, d, core, history, answers
    <2> QED  BY <2>3, <2>4
  <1> QED  BY <1>1, <1>2, <1>3 DEF Requests

(* CommissioningComplete, and the end of its write *)
Completing(c, d) ==
    /\ completing = Nothing /\ c.held
    /\ completing' \in Completions /\ completing' # Nothing
    /\ completing'.op = IF c.index # NoFabric THEN "persisting" ELSE "closing"
    /\ completing'.id = c.id /\ completing'.fabric = c.assoc
    /\ completing'.persists = (c.index # NoFabric) /\ completing'.disturbed = Free(c.assoc)
    /\ failsafe' = {d} /\ SameFabrics(c, d) /\ d.stage = c.stage /\ ~d.timer
    /\ d.held = (c.index # NoFabric)
    /\ writes' = IF c.index # NoFabric THEN Persist(table, "complete") ELSE writes
    /\ UNCHANGED <<table, stored, armed, command, status, confirmed, removed>>

LEMMA CompletingEffect ==
    ASSUME Types, CommissioningComplete
    PROVE  \E c \in failsafe, d \in FailsafeContext : Completing(c, d)
  <1>1. PICK c \in failsafe :
          /\ c.held
          /\ completing' = [op |-> IF c.index # NoFabric THEN "persisting" ELSE "closing",
                            id |-> c.id, fabric |-> c.assoc, persists |-> c.index # NoFabric,
                            disturbed |-> Free(c.assoc)]
          /\ failsafe' = {[Disarmed(c) EXCEPT !.held = (c.index # NoFabric)]}
          /\ writes' = IF c.index # NoFabric THEN Persist(table, "complete") ELSE writes
    BY DEF CommissioningComplete, Set
  <1> DEFINE d == [Disarmed(c) EXCEPT !.held = (c.index # NoFabric)]
  <1>2. /\ d \in FailsafeContext /\ SameFabrics(c, d) /\ d.stage = c.stage /\ ~d.timer
        /\ d.held = (c.index # NoFabric)
    BY OneContext DEF FailsafeContext, SameFabrics, Disarmed
  <1>3. completing' \in Completions
    BY CompletionTypes DEF Types, ContextTypes
  <1>4. completing' # Nothing
    BY <1>1 DEF Nothing
  <1> HIDE DEF d
  <1>5. Completing(c, d)
    BY <1>1, <1>2, <1>3, <1>4 DEF CommissioningComplete, Completing, d, core, history, answers
  <1> QED  BY <1>2, <1>5

Persisted(c, d) ==
    /\ SameFabrics(c, d) /\ d.stage = c.stage /\ d.timer = c.timer
    /\ d.held <=> c.held /\ c.id # completing.id

Persists ==
    /\ completing.op = "persisting" /\ Written("complete")
    /\ completing' # Nothing /\ completing'.op = "closing" /\ completing'.id = completing.id
    /\ completing'.fabric = completing.fabric /\ completing'.persists = completing.persists
    /\ completing'.disturbed = completing.disturbed
    /\ \A d \in failsafe' : \E c \in failsafe : Persisted(c, d)
    /\ \A c \in failsafe : \E d \in failsafe' : Persisted(c, d)
    /\ UNCHANGED <<table, stored, writes, armed, command, status, confirmed, removed>>

LEMMA PersistedEffect ==
    ASSUME Types, CommissioningPersisted
    PROVE  Persists
  <1>1. /\ completing' # Nothing /\ completing'.op = "closing" /\ completing'.id = completing.id
        /\ completing'.fabric = completing.fabric /\ completing'.persists = completing.persists
        /\ completing'.disturbed = completing.disturbed
    BY DEF CommissioningPersisted, Types, ContextTypes, Completions, Nothing
  <1> DEFINE E(c) == [c EXCEPT !.held = @ /\ c.id # completing.id]
  <1>2. \A c \in failsafe : Persisted(c, E(c))
    BY OneContext DEF FailsafeContext, Persisted, SameFabrics
  <1>3. failsafe' = {E(c) : c \in failsafe}
    BY DEF CommissioningPersisted
  <1> HIDE DEF E
  <1> QED  BY <1>1, <1>2, <1>3 DEF CommissioningPersisted, Persists, core, history, answers

(* AddNOC puts its fabric in the table. *)
Adds(i) ==
    /\ table' = With(table, i, NewFabric) /\ command' = Nothing
    /\ \A j \in Index \ {i} : status'[j] = status[j] /\ confirmed'[j] = confirmed[j]
    /\ removed' = removed \ {i}
    /\ UNCHANGED <<stored, writes, armed, completing>>
    /\ \/ /\ ~\E c \in failsafe : c.id = command.id /\ c.held
          /\ status'[i] = "late" /\ failsafe' = failsafe
       \/ /\ status'[i] = "pending"
          /\ \E c \in failsafe, d \in FailsafeContext :
              /\ c.id = command.id /\ c.held /\ failsafe' = {d}
              /\ d.id = c.id /\ d.index = c.index /\ d.update = c.update /\ d.stage = c.stage
              /\ d.held = c.held /\ d.timer = c.timer /\ d.assoc = i

LEMMA AddsEffect ==
    ASSUME Types, AddNocBuilt
    PROVE  command.op = "add" /\ command.index \in Index /\ Adds(command.index)
  <1> DEFINE i == command.index
             guarded == \E c \in failsafe : c.id = command.id /\ c.held
  <1>1. command.op = "add" /\ i \in Index
    BY DEF AddNocBuilt, Types, ContextTypes, Commands, Nothing
  <1>2. /\ table' = With(table, i, NewFabric) /\ command' = Nothing /\ removed' = removed \ {i}
        /\ UNCHANGED <<stored, writes, armed, completing>>
    BY DEF AddNocBuilt
  <1>3. \A j \in Index \ {i} : status'[j] = status[j] /\ confirmed'[j] = confirmed[j]
    BY <1>1 DEF AddNocBuilt, Types, FlagTypes
  <1>4. status'[i] = IF guarded THEN "pending" ELSE "late"
    BY <1>1 DEF AddNocBuilt, Types, FlagTypes
  <1>5. CASE guarded
    <2>1. PICK c \in failsafe : c.id = command.id /\ c.held
      BY <1>5
    <2> DEFINE d == [c EXCEPT !.assoc = i, !.assocFabric = NewFabric]
    <2>2. failsafe' = {d}
      BY <1>5, OneContext DEF AddNocBuilt
    <2>3. /\ d \in FailsafeContext /\ d.id = c.id /\ d.index = c.index /\ d.update = c.update
          /\ d.stage = c.stage /\ d.held = c.held /\ d.timer = c.timer /\ d.assoc = i
      BY <1>1, OneContext, NewFabricType DEF FailsafeContext
    <2> HIDE DEF d
    <2> QED  BY <1>1, <1>2, <1>3, <1>4, <1>5, <2>1, <2>2, <2>3 DEF Adds
  <1>6. CASE ~guarded
    <2>1. failsafe' = failsafe
      BY <1>6 DEF AddNocBuilt
    <2> QED  BY <1>1, <1>2, <1>3, <1>4, <1>6, <2>1 DEF Adds
  <1> QED  BY <1>5, <1>6

LEMMA Steps ==
    ASSUME Types, [Next]_vars
    PROVE  \/ Quiet \/ Arms \/ \E c \in failsafe : RollsOrCloses(c)
           \/ \E c \in failsafe, d \in FailsafeContext : Asks(c, d)
           \/ \E c \in failsafe, d \in FailsafeContext : Completing(c, d)
           \/ Persists \/ CommissioningClosed
           \/ command.op = "add" /\ command.index \in Index /\ Adds(command.index)
           \/ UpdateNocBuilt \/ FabricLeft \/ CommandWritten \/ \E i \in Index : RemoveFabric(i)
           \/ WriteDone \/ WriteError \/ Crash \/ FactoryReset
  BY ArmingEffect, QuietEffect, RollsEffect, AsksEffect, CompletingEffect, PersistedEffect,
     AddsEffect DEF Next, Requests, Completion, CommandSteps

-----------------------------------------------------------------------------
(* Who waits for which write *)

Writing(ws, who) == \E n \in 1 .. Len(ws) : ws[n].who = who

OneEach(ws) == \A m, n \in 1 .. Len(ws) : ws[m].who = ws[n].who => m = n

(* The rollback, the completion and the command under way have each at     *)
(* most one write in the queue, and wait for it.                           *)
Writers ==
    /\ OneEach(writes)
    /\ Writing(writes, "complete") => completing.op = "persisting"
    /\ Writing(writes, "command") => command.op \in {"updating", "removing"}
    /\ Writing(writes, "rollback") =>
          \E c \in failsafe : c.stage \in {"revoking", "restoring", "revokingAgain"}

LEMMA WrittenIsNotWriting ==
    ASSUME Types
    PROVE  \A who : Written(who) <=> ~Writing(writes, who)
  BY DEF Written, Writing, Types, FabricTypes

LEMMA OneMoreWrite ==
    ASSUME Types, OneEach(writes), NEW fabrics \in Tables,
           NEW who \in {"rollback", "complete", "command"}, ~Writing(writes, who),
           writes' = Persist(fabrics, who)
    PROVE  OneEach(writes') /\ \A w : Writing(writes', w) => Writing(writes, w) \/ w = who
  <1>1. /\ Len(writes') = Len(writes) + 1 /\ Len(writes) \in Nat
        /\ \A n \in 1 .. Len(writes) : writes'[n] = writes[n]
        /\ writes'[Len(writes) + 1].who = who
    BY Appended DEF Types, FabricTypes
  <1> QED  BY <1>1 DEF OneEach, Writing

LEMMA OneWriteLess ==
    ASSUME Types, OneEach(writes), writes # <<>>, writes' = Tail(writes)
    PROVE  /\ OneEach(writes') /\ ~Writing(writes', Head(writes).who)
           /\ \A w : Writing(writes', w) => Writing(writes, w)
           /\ Writing(writes, Head(writes).who)
  <1>1. /\ Len(writes') = Len(writes) - 1 /\ Len(writes) \in Nat \ {0}
        /\ \A n \in 1 .. Len(writes) - 1 : writes'[n] = writes[n + 1]
        /\ Head(writes) = writes[1]
    BY Popped DEF Types, FabricTypes
  <1> QED  BY <1>1 DEF OneEach, Writing

LEMMA WritersStep ==
    ASSUME Types, Types', Writers, [Next]_vars
    PROVE  Writers'
  <1>0. table \in Tables /\ Nothing.op = "none"
    BY DEF Types, FabricTypes, Nothing
  <1>1. CASE Quiet
    BY <1>1 DEF Quiet, Unmoved, Alike, Writers
  <1>2. CASE Arms
    BY <1>2 DEF Arms, Writers
  <1>3. CASE \E c \in failsafe : RollsOrCloses(c)
    <2>1. PICK c \in failsafe : RollsOrCloses(c)
      BY <1>3
    <2>2. completing'.op = completing.op /\ command' = command
      BY <2>1 DEF RollsOrCloses, RollsBack, Types, ContextTypes, Completions, Nothing
    <2>3. failsafe = {c}
      BY OneContext
    <2>4. CASE Ends(c)
      BY <2>2, <2>3, <2>4, WrittenIsNotWriting DEF Ends, Writers, Destroyed
    <2>5. CASE GoesOn(c)
      BY <2>2, <2>3, <2>5, WrittenIsNotWriting DEF GoesOn, Writers
    <2>6. CASE TakesOut(c)
      <3>1. Without(table, c.index) \in Tables /\ ~Writing(writes, "rollback")
        BY <1>0, <2>3, <2>6, TableWithout DEF TakesOut, Writers
      <3>2. /\ OneEach(writes')
            /\ \A w : Writing(writes', w) => Writing(writes, w) \/ w = "rollback"
        BY <2>6, <3>1, OneMoreWrite DEF TakesOut, Writers
      <3> QED  BY <2>2, <2>6, <3>2 DEF TakesOut, Moves, Writers
    <2>7. CASE PutsBack(c)
      <3>1. With(table, c.assoc, c.assocFabric) \in Tables /\ ~Writing(writes, "rollback")
        BY <1>0, <2>3, <2>7, TableWith, OneContext DEF PutsBack, Writers, Restores, FailsafeContext
      <3>2. /\ OneEach(writes')
            /\ \A w : Writing(writes', w) => Writing(writes, w) \/ w = "rollback"
        BY <2>7, <3>1, OneMoreWrite DEF PutsBack, Writers
      <3> QED  BY <2>2, <2>7, <3>2 DEF PutsBack, Moves, Writers
    <2> QED  BY <2>1, <2>4, <2>5, <2>6, <2>7 DEF RollsOrCloses, RollsBack
  <1>4. CASE \E c \in failsafe, d \in FailsafeContext : Asks(c, d)
    BY <1>0, <1>4, OneContext DEF Asks, Writers
  <1>5. CASE \E c \in failsafe, d \in FailsafeContext : Completing(c, d)
    <2>1. PICK c \in failsafe, d \in FailsafeContext : Completing(c, d)
      BY <1>5
    <2>2. ~Writing(writes, "complete")
      BY <1>0, <2>1 DEF Completing, Writers
    <2>3. CASE writes' = writes
      BY <2>1, <2>2, <2>3, OneContext DEF Completing, Writers
    <2>4. CASE c.index # NoFabric /\ writes' = Persist(table, "complete")
      <3>1. /\ OneEach(writes')
            /\ \A w : Writing(writes', w) => Writing(writes, w) \/ w = "complete"
        BY <1>0, <2>2, <2>4, OneMoreWrite DEF Writers
      <3> QED  BY <2>1, <2>4, <3>1, OneContext DEF Completing, Writers
    <2> QED  BY <2>1, <2>3, <2>4 DEF Completing
  <1>6. CASE Persists
    BY <1>6, WrittenIsNotWriting DEF Persists, Persisted, Writers
  <1>7. CASE CommissioningClosed
    <2>1. /\ ~Writing(writes, "complete") /\ writes' = writes /\ command' = command
          /\ failsafe' = failsafe \/ (failsafe' = {} /\ Armed /\ Context.stage = "none")
      BY <1>7 DEF CommissioningClosed, Writers, Destroyed, Current, Armed
    <2>2. \A c \in failsafe : failsafe' = {} => c.stage = "none"
      BY <2>1, OneContext DEF Armed
    <2> QED  BY <2>1, <2>2 DEF Writers
  <1>8. CASE command.op = "add" /\ command.index \in Index /\ Adds(command.index)
    BY <1>0, <1>8, OneContext DEF Adds, Writers
  <1>9. CASE UpdateNocBuilt
    <2>1. ~Writing(writes, "command") /\ UNCHANGED <<failsafe, completing>>
      BY <1>9 DEF UpdateNocBuilt, Writers
    <2> DEFINE updated == [table EXCEPT ![command.index] = [noc |-> command.noc, tracked |-> FALSE]]
    <2>2. CASE writes' = writes
      BY <2>1, <2>2 DEF Writers
    <2>3. CASE /\ writes' = Persist(updated, "command") /\ table' = updated
               /\ command'.op = "updating"
      <3>1. updated \in Tables
        BY <2>3 DEF Types, FabricTypes
      <3> HIDE DEF updated
      <3>2. /\ OneEach(writes')
            /\ \A w : Writing(writes', w) => Writing(writes, w) \/ w = "command"
        BY <2>1, <2>3, <3>1, OneMoreWrite DEF Writers
      <3> QED  BY <2>1, <2>3, <3>2 DEF Writers
    <2> QED  BY <1>9, <2>2, <2>3 DEF UpdateNocBuilt
  <1>10. CASE FabricLeft
    BY <1>10 DEF FabricLeft, Writers
  <1>11. CASE CommandWritten
    BY <1>11, WrittenIsNotWriting DEF CommandWritten, Writers
  <1>12. CASE \E i \in Index : RemoveFabric(i)
    <2>1. PICK i \in Index : RemoveFabric(i)
      BY <1>12
    <2>2. /\ ~Writing(writes, "command") /\ completing'.op = completing.op
          /\ failsafe' = failsafe
      BY <1>0, <2>1 DEF RemoveFabric, Writers, Types, ContextTypes, Completions, Nothing
    <2>3. CASE writes' = writes
      BY <2>2, <2>3 DEF Writers
    <2>4. CASE writes' = Persist(Without(table, i), "command") /\ command'.op = "removing"
      <3>1. Without(table, i) \in Tables
        BY <1>0, TableWithout
      <3>2. /\ OneEach(writes')
            /\ \A w : Writing(writes', w) => Writing(writes, w) \/ w = "command"
        BY <2>2, <2>4, <3>1, OneMoreWrite DEF Writers
      <3> QED  BY <2>2, <2>4, <3>2 DEF Writers
    <2> QED  BY <2>1, <2>3, <2>4 DEF RemoveFabric
  <1>13. CASE WriteDone
    BY <1>13, OneWriteLess DEF WriteDone, Writers
  <1>14. CASE WriteError
    <2>1. /\ OneEach(writes') /\ ~Writing(writes', Head(writes).who)
          /\ \A w : Writing(writes', w) => Writing(writes, w)
      BY <1>14, OneWriteLess DEF WriteError, Writers
    <2> QED  BY <1>14, <2>1 DEF WriteError, Writers
  <1>15. CASE Crash \/ FactoryReset
    <2>1. writes' = <<>>
      BY <1>15 DEF Crash, FactoryReset, Blank
    <2> QED  BY <2>1 DEF Writers, OneEach, Writing
  <1> QED  BY <1>1, <1>2, <1>3, <1>4, <1>5, <1>6, <1>7, <1>8, <1>9, <1>10, <1>11, <1>12, <1>13,
              <1>14, <1>15, Steps

-----------------------------------------------------------------------------
(* What is known of a context while others work with it *)

Completes(c) == completing.op \in {"persisting", "closing"} /\ completing.id = c.id

(* A context has a number of its own: one that is gone never comes back.   *)
Numbered ==
    /\ \A c \in failsafe : c.id <= armed
    /\ command.op \in {"add", "update"} => command.id <= armed
    /\ completing # Nothing => completing.id <= armed
    /\ completing.op = "persisting" => completing.persists

(* A context that is rolled back has let its failsafe go; an UpdateNOC is  *)
(* for the associated fabric; a command that builds a fabric finds the     *)
(* context as it left it.                                                  *)
Related ==
    \A c \in failsafe :
        /\ c.stage # "none" => ~c.held /\ ~c.timer
        /\ c.index # NoFabric /\ c.update = "yes" => c.assoc = c.index
        /\ command.op = "add" /\ command.id = c.id => c.index = command.index /\ c.update = "no"
        /\ command.op = "update" /\ command.id = c.id =>
              c.index = command.index /\ c.update = "yes"

(* The context of a CommissioningComplete has stopped its timers, and      *)
(* unless somebody disturbs the completion nothing rolls it back and its   *)
(* fabric stays in the table.                                              *)
Completed ==
    \A c \in failsafe : Completes(c) =>
        /\ ~c.timer
        /\ c.held => completing.op = "persisting"
        /\ completing.op = "persisting" /\ c.stage = "none" => c.held
        /\ c.index = NoFabric \/ c.update = "yes" => completing.fabric = c.assoc
        /\ ~completing.disturbed => c.stage = "none" /\ ~Free(completing.fabric)

Contexts == Numbered /\ Related /\ Completed

LEMMA ContextsStep ==
    ASSUME Types, Types', Writers, Contexts, [Next]_vars
    PROVE  Contexts'
  <1>0. /\ table \in Tables /\ Nothing.op = "none" /\ NoFabric \notin Index
        /\ \A c \in failsafe : c \in FailsafeContext
        /\ armed \in Nat /\ command \in Commands /\ completing \in Completions
    BY CommissioningAssumption DEF Types, FabricTypes, ContextTypes, Nothing, Index, NoFabric
  <1>1. CASE Quiet
    <2>1. Numbered'
      BY <1>1 DEF Quiet, Unmoved, Alike, SameFabrics, Contexts, Numbered
    <2>2. Related'
      BY <1>1 DEF Quiet, Unmoved, Alike, SameFabrics, Contexts, Related
    <2>3. Completed'
      BY <1>1 DEF Quiet, Unmoved, Alike, SameFabrics, Contexts, Completed, Completes, Free
    <2> QED  BY <2>1, <2>2, <2>3 DEF Contexts
  <1>2. CASE Arms
    <2>1. PICK d \in FailsafeContext :
            /\ failsafe' = {d} /\ d.id = armed + 1 /\ d.stage = "none" /\ d.index = NoFabric
            /\ UNCHANGED <<command, completing>> /\ armed' = armed + 1
      BY <1>2 DEF Arms
    <2>2. /\ command.op \in {"add", "update"} => command.id # d.id
          /\ completing # Nothing => completing.id # d.id
          /\ completing = Nothing => completing.op = "none"
      BY <1>0, <2>1 DEF Contexts, Numbered, Commands, Completions, Nothing
    <2>3. Numbered'
      BY <1>0, <2>1 DEF Contexts, Numbered, Commands, Completions, Nothing
    <2> QED  BY <1>0, <2>1, <2>2, <2>3 DEF Contexts, Related, Completed, Completes
  <1>3. CASE \E c \in failsafe : RollsOrCloses(c)
    <2>1. PICK c \in failsafe : RollsOrCloses(c)
      BY <1>3
    <2>2. /\ completing'.op = completing.op /\ completing'.id = completing.id
          /\ completing'.fabric = completing.fabric /\ completing'.persists = completing.persists
          /\ command' = command /\ armed' = armed
          /\ completing = Nothing <=> completing' = Nothing
      BY <2>1 DEF RollsOrCloses, RollsBack, Types, ContextTypes, Completions, Nothing
    <2>3. \/ failsafe' = {}
          \/ \E d \in FailsafeContext :
              /\ failsafe' = {d} /\ SameFabrics(c, d) /\ d.stage # "none" /\ ~d.held /\ ~d.timer
      BY <1>0, <2>1 DEF RollsOrCloses, RollsBack, Ends, TakesOut, PutsBack, GoesOn, Moves, Destroyed,
            Contexts, Related
    <2>4. Completes(c) => completing'.disturbed
      BY <1>0, <2>1 DEF RollsOrCloses, RollsBack, Ends, TakesOut, PutsBack, GoesOn, Contexts,
            Completed, Completes, Completions, Nothing
    <2>5. Numbered'
      BY <2>2, <2>3 DEF Contexts, Numbered, SameFabrics
    <2>6. Related'
      BY <2>2, <2>3 DEF Contexts, Related, SameFabrics
    <2>7. Completed'
      BY <2>2, <2>3, <2>4 DEF Contexts, Completed, Completes, SameFabrics
    <2> QED  BY <2>5, <2>6, <2>7 DEF Contexts
  <1>4. CASE \E c \in failsafe, d \in FailsafeContext : Asks(c, d)
    <2>1. PICK c \in failsafe, d \in FailsafeContext : Asks(c, d)
      BY <1>4
    <2>2. Numbered'
      BY <1>0, <2>1 DEF Asks, Contexts, Numbered
    <2>3. Related'
      BY <1>0, <2>1 DEF Asks, Contexts, Related
    <2>4. Completed'
      BY <1>0, <2>1 DEF Asks, Contexts, Completed, Completes, Free
    <2> QED  BY <2>2, <2>3, <2>4 DEF Contexts
  <1>5. CASE \E c \in failsafe, d \in FailsafeContext : Completing(c, d)
    <2>1. PICK c \in failsafe, d \in FailsafeContext : Completing(c, d)
      BY <1>5
    <2>2. c.stage = "none"
      BY <2>1 DEF Completing, Contexts, Related
    <2>3. Numbered'
      BY <1>0, <2>1 DEF Completing, SameFabrics, Contexts, Numbered
    <2>4. Related'
      BY <1>0, <2>1, <2>2 DEF Completing, SameFabrics, Contexts, Related
    <2>5. Completed'
      BY <1>0, <2>1, <2>2 DEF Completing, SameFabrics, Completed, Completes, Free
    <2> QED  BY <2>3, <2>4, <2>5 DEF Contexts
  <1>6. CASE Persists
    <2>1. completing # Nothing
      BY <1>0, <1>6 DEF Persists
    <2>2. Numbered'
      BY <1>6, <2>1 DEF Persists, Persisted, SameFabrics, Contexts, Numbered
    <2>3. Related'
      BY <1>6 DEF Persists, Persisted, SameFabrics, Contexts, Related
    <2>4. Completed'
      BY <1>6 DEF Persists, Persisted, SameFabrics, Contexts, Completed, Completes, Free
    <2> QED  BY <2>2, <2>3, <2>4 DEF Contexts
  <1>7. CASE CommissioningClosed
    <2>1. /\ failsafe' \subseteq failsafe /\ UNCHANGED <<armed, command>>
          /\ completing'.op = "none" \/ completing'.op = "hung"
          /\ completing' = Nothing \/ (completing'.id = completing.id /\ completing # Nothing)
      BY <1>0, <1>7 DEF CommissioningClosed, Destroyed, Answered, Completions
    <2> QED  BY <2>1 DEF Contexts, Numbered, Related, Completed, Completes
  <1>8. CASE command.op = "add" /\ command.index \in Index /\ Adds(command.index)
    <2>1. \A j : ~Free(j) => ~Free(j)'
      <3>1. DOMAIN table' = DOMAIN table \cup {command.index}
        BY <1>0, <1>8, TableWith, NewFabricType DEF Adds
      <3> QED  BY <3>1 DEF Free
    <2>2. UNCHANGED <<armed, completing>> /\ command'.op = "none"
      BY <1>0, <1>8 DEF Adds
    <2>3. CASE failsafe' = failsafe
      BY <2>1, <2>2, <2>3 DEF Contexts, Numbered, Related, Completed, Completes
    <2>4. CASE \E c \in failsafe, d \in FailsafeContext :
                /\ c.id = command.id /\ failsafe' = {d}
                /\ d.id = c.id /\ d.index = c.index /\ d.update = c.update /\ d.stage = c.stage
                /\ d.held = c.held /\ d.timer = c.timer
      <3>1. PICK c \in failsafe, d \in FailsafeContext :
                /\ c.id = command.id /\ failsafe' = {d}
                /\ d.id = c.id /\ d.index = c.index /\ d.update = c.update /\ d.stage = c.stage
                /\ d.held = c.held /\ d.timer = c.timer
        BY <2>4
      <3>2. c.index = command.index /\ c.update = "no" /\ c.index # NoFabric
        BY <1>0, <1>8, <3>1 DEF Contexts, Related
      <3> QED  BY <2>1, <2>2, <3>1, <3>2 DEF Contexts, Numbered, Related, Completed, Completes
    <2> QED  BY <1>8, <2>3, <2>4 DEF Adds
  <1>9. CASE UpdateNocBuilt
    <2>1. /\ DOMAIN table' = DOMAIN table /\ UNCHANGED <<failsafe, armed, completing>>
          /\ command'.op \in {"none", "updating"}
      BY <1>0, <1>9 DEF UpdateNocBuilt
    <2> QED  BY <2>1 DEF Contexts, Numbered, Related, Completed, Completes, Free
  <1>10. CASE FabricLeft \/ CommandWritten
    <2>1. UNCHANGED <<table, failsafe, armed, completing>> /\ command'.op = "none"
      BY <1>0, <1>10 DEF FabricLeft, CommandWritten, core
    <2> QED  BY <2>1 DEF Contexts, Numbered, Related, Completed, Completes, Free
  <1>11. CASE \E i \in Index : RemoveFabric(i)
    <2>1. PICK i \in Index : RemoveFabric(i)
      BY <1>11
    <2>2. /\ completing'.op = completing.op /\ completing'.id = completing.id
          /\ completing'.fabric = completing.fabric /\ completing'.persists = completing.persists
          /\ (completing' = Nothing <=> completing = Nothing)
          /\ completing'.disturbed = completing.disturbed \/ completing'.disturbed
      BY <1>0, <2>1 DEF RemoveFabric, Completions, Nothing
    <2>3. UNCHANGED <<failsafe, armed>> /\ command'.op \in {"removing", "leaving"}
      BY <2>1 DEF RemoveFabric
    <2>4. \A j : ~Free(j) => ~Free(j)' \/ (j = i /\ table' = Without(table, i))
      BY <1>0, <2>1, TableWithout DEF RemoveFabric, Free
    <2>5. completing # Nothing /\ completing.fabric = i /\ table' = Without(table, i) =>
            completing'.disturbed \/ table' = table
      BY <1>0, <2>1 DEF RemoveFabric, Completions, Nothing
    <2>6. Completed'
      BY <1>0, <2>2, <2>3, <2>4, <2>5 DEF Contexts, Completed, Completes, Free
    <2> QED  BY <2>2, <2>3, <2>6 DEF Contexts, Numbered, Related
  <1>12. CASE WriteDone
    BY <1>12 DEF WriteDone, Contexts, Numbered, Related, Completed, Completes, Free, core
  <1>13. CASE WriteError
    <2>1. /\ UNCHANGED <<table, armed>> /\ failsafe' \subseteq failsafe
          /\ completing' = completing \/ (completing' = Nothing /\ completing'.op = "none")
          /\ command' = command \/ command'.op = "none"
      BY <1>0, <1>13 DEF WriteError, Destroyed, core
    <2> QED  BY <2>1 DEF Contexts, Numbered, Related, Completed, Completes, Free
  <1>14. CASE Crash \/ FactoryReset
    <2>1. failsafe' = {} /\ completing' = Nothing /\ command'.op = "none" /\ completing'.op = "none"
      BY <1>0, <1>14 DEF Crash, FactoryReset, Blank
    <2> QED  BY <2>1 DEF Contexts, Numbered, Related, Completed
  <1> QED  BY <1>1, <1>2, <1>3, <1>4, <1>5, <1>6, <1>7, <1>8, <1>9, <1>10, <1>11, <1>12, <1>13,
              <1>14, Steps

-----------------------------------------------------------------------------
(* Fabrics enter and leave the table *)

Restarts == Crash \/ FactoryReset

(* The completion is answered, or never will be. *)
ClosesOf(c) ==
    /\ c \in failsafe /\ Completes(c)
    /\ \/ c.stage = "none" /\ Destroyed(c) /\ Answered(completing.fabric, c.index)
       \/ /\ c.stage # "none" /\ failsafe' = failsafe /\ Answered(completing.fabric, NoFabric)
          /\ UNCHANGED <<commissioned, erasing>>
Hangs ==
    /\ \A c \in failsafe : ~Completes(c)
    /\ completing'.op = "hung" /\ completing' # Nothing /\ completing'.id = completing.id
    /\ UNCHANGED <<failsafe, commissioned, erasing, history>>

LEMMA ClosedEffect ==
    ASSUME Types, CommissioningClosed
    PROVE  /\ completing.op = "closing" /\ completing.fabric \in Index
           /\ UNCHANGED <<core, stored, writes, armed, command, changes, missed>>
           /\ Hangs \/ \E c : ClosesOf(c)
  <1>1. completing.op = "closing" /\ completing.fabric \in Index
    BY DEF CommissioningClosed, Types, ContextTypes, Completions, Nothing
  <1>2. CASE Current(completing.id)
    <2>1. PICK c \in failsafe : c.id = completing.id
      BY <1>2 DEF Current
    <2>2. Context = c
      BY <2>1, OneContext
    <2>3. ClosesOf(c)
      BY <1>1, <1>2, <2>1, <2>2 DEF CommissioningClosed, ClosesOf, Completes
    <2> QED  BY <1>1, <2>3 DEF CommissioningClosed
  <1>3. CASE ~Current(completing.id)
    <2>1. /\ completing' = [completing EXCEPT !.op = "hung"]
          /\ UNCHANGED <<failsafe, commissioned, erasing, history>>
      BY <1>3 DEF CommissioningClosed
    <2>2. completing'.op = "hung" /\ completing'.id = completing.id /\ completing' # Nothing
      BY <1>1, <2>1 DEF Types, ContextTypes, Completions, Nothing
    <2>3. Hangs
      BY <1>3, <2>1, <2>2 DEF Hangs, Completes, Current
    <2> QED  BY <1>1, <2>3 DEF CommissioningClosed
  <1> QED  BY <1>2, <1>3

(* What the answer makes of the fabrics *)
LEMMA AnswerEffect ==
    ASSUME Types, Contexts, NEW c, ClosesOf(c), completing.fabric \in Index
    PROVE  LET i == completing.fabric
               committed == completing.persists /\ ~completing.disturbed
           IN  /\ ~completing.disturbed => ~Free(i) /\ c.stage = "none"
               /\ status'[i] = IF completing.disturbed THEN "undone"
                               ELSE IF committed THEN "committed" ELSE status[i]
               /\ \A j \in Index \ {i} :
                    status'[j] = IF c.stage = "none" /\ j = c.index /\ ~Free(j) THEN "late"
                                                                               ELSE status[j]
               /\ \A j \in Index : confirmed'[j] = IF j = i /\ committed THEN table[j].noc
                                                                       ELSE confirmed[j]
               /\ overtaken' = (overtaken \/ (committed /\ erasing))
               /\ completing' = Nothing /\ UNCHANGED <<removed, refused>>
  <1> DEFINE i == completing.fabric
  <1>1. ~completing.disturbed => ~Free(i) /\ c.stage = "none"
    BY DEF ClosesOf, Contexts, Completed
  <1>2. PICK j : Answered(i, j) /\ j = IF c.stage = "none" THEN c.index ELSE NoFabric
    BY DEF ClosesOf
  <1>3. NoFabric \notin Index
    BY DEF NoFabric, Index
  <1>4. status'[i] = IF completing.disturbed THEN "undone"
                     ELSE IF completing.persists THEN "committed" ELSE status[i]
    BY <1>1, <1>2 DEF Answered
  <1>5. \A k \in Index \ {i} :
          status'[k] = IF c.stage = "none" /\ k = c.index /\ ~Free(k) THEN "late" ELSE status[k]
    BY <1>2, <1>3 DEF Answered
  <1>6. completing.persists /\ ~completing.disturbed <=>
            completing.persists /\ ~Free(i) /\ ~completing.disturbed
    BY <1>1
  <1>7. \A k \in Index : confirmed'[k] = IF k = i /\ completing.persists /\ ~completing.disturbed
                                         THEN table[k].noc ELSE confirmed[k]
    BY <1>2, <1>6 DEF Answered, Types, FlagTypes
  <1>8. overtaken' = (overtaken \/ (completing.persists /\ ~completing.disturbed /\ erasing))
    BY <1>2, <1>6 DEF Answered
  <1> QED  BY <1>1, <1>2, <1>4, <1>5, <1>7, <1>8 DEF Answered

(* A fabric leaves the table only when somebody takes it out, and comes in *)
(* only with AddNOC.                                                       *)
LEMMA TableStep ==
    ASSUME Types, [Next]_vars, ~Restarts
    PROVE  /\ \A i \in DOMAIN table : i \notin DOMAIN table' => status'[i] = "none"
           /\ \A i \in DOMAIN table' : i \notin DOMAIN table =>
                /\ command.op = "add" /\ i = command.index /\ Adds(i)
  <1>0. table \in Tables /\ DOMAIN table \subseteq Index
    BY Entries DEF Types, FabricTypes, Tables
  <1>1. CASE \E c \in failsafe : RollsOrCloses(c)
    <2>1. PICK c \in failsafe : RollsOrCloses(c)
      BY <1>1
    <2>2. CASE TakesOut(c)
      <3>1. DOMAIN table' = DOMAIN table \ {c.index}
        BY <1>0, <2>2, TableWithout DEF TakesOut
      <3> QED  BY <1>0, <2>2, <3>1 DEF TakesOut
    <2>3. CASE PutsBack(c)
      <3>1. c.assoc \in DOMAIN table /\ c.assoc \in Index /\ c.assocFabric \in Fabric
        BY <1>0, <2>3, OneContext DEF PutsBack, Free, FailsafeContext
      <3>2. DOMAIN table' = DOMAIN table \cup {c.assoc}
        <4>1. table \in Tables /\ table' = With(table, c.assoc, c.assocFabric)
          BY <1>0, <2>3 DEF PutsBack
        <4>2. DOMAIN With(table, c.assoc, c.assocFabric) = DOMAIN table \cup {c.assoc}
          BY <3>1, <4>1, WithDomain
        <4> QED  BY <4>1, <4>2
      <3> QED  BY <3>1, <3>2
    <2>4. CASE Ends(c) \/ GoesOn(c)
      BY <2>4 DEF Ends, GoesOn
    <2> QED  BY <2>1, <2>2, <2>3, <2>4 DEF RollsOrCloses, RollsBack
  <1>2. CASE command.op = "add" /\ command.index \in Index /\ Adds(command.index)
    <2>1. DOMAIN table' = DOMAIN table \cup {command.index}
      <3>1. table \in Tables /\ table' = With(table, command.index, NewFabric)
        BY <1>0, <1>2 DEF Adds
      <3>2. DOMAIN With(table, command.index, NewFabric) = DOMAIN table \cup {command.index}
        BY <1>2, <3>1, WithDomain, NewFabricType
      <3> QED  BY <3>1, <3>2
    <2> QED  BY <1>2, <2>1
  <1>3. CASE UpdateNocBuilt
    <2>1. DOMAIN table' = DOMAIN table
      BY <1>3 DEF UpdateNocBuilt
    <2> QED  BY <2>1
  <1>4. CASE \E i \in Index : RemoveFabric(i)
    <2>1. PICK i \in Index : RemoveFabric(i)
      BY <1>4
    <2>2. CASE table' = Without(table, i) /\ Forget({i})
      <3>1. DOMAIN table' = DOMAIN table \ {i}
        BY <1>0, <2>2, TableWithout
      <3> QED  BY <1>0, <2>2, <3>1 DEF Forget
    <2> QED  BY <2>1, <2>2 DEF RemoveFabric
  <1>5. CASE Quiet \/ Arms \/ Persists \/ CommissioningClosed \/ FabricLeft \/ CommandWritten
             \/ WriteDone \/ WriteError
    BY <1>5 DEF Quiet, Unmoved, Arms, Persists, CommissioningClosed, FabricLeft, CommandWritten,
          WriteDone, WriteError, core
  <1>6. CASE \E c \in failsafe, d \in FailsafeContext : Asks(c, d) \/ Completing(c, d)
    BY <1>6 DEF Asks, Completing
  <1> QED  BY <1>1, <1>2, <1>3, <1>4, <1>5, <1>6, Steps DEF Restarts

-----------------------------------------------------------------------------
(* The file and the writes under way *)

Snapshot(file, ws, n) == IF n = 0 THEN file ELSE ws[n].fabrics

Follows(ws, n, who) == \E m \in n + 1 .. Len(ws) : ws[m].who = who

(* What the storage holds, now and after any of the writes under way, is   *)
(* good, unless a write of who is still to come.                           *)
Settles(file, ws, good, who) ==
    \A n \in 0 .. Len(ws) : Follows(ws, n, who) \/ Snapshot(file, ws, n) \in good

Having(i) == {f \in Files : i \in DOMAIN f}
Lacking(i) == {f \in Files : i \notin DOMAIN f}
Nobody == "nobody"

Stores ==
    \/ UNCHANGED <<stored, writes>>
    \/ /\ stored' = stored
       /\ \E who \in {"rollback", "complete", "command"} : writes' = Persist(table', who)
    \/ WriteDone \/ WriteError

LEMMA StoresStep ==
    ASSUME Types, [Next]_vars, ~Restarts
    PROVE  Stores
  <1>1. CASE \E c \in failsafe : RollsOrCloses(c)
    BY <1>1 DEF RollsOrCloses, RollsBack, Ends, TakesOut, PutsBack, GoesOn, Stores
  <1>2. CASE \E c \in failsafe, d \in FailsafeContext : Asks(c, d) \/ Completing(c, d)
    BY <1>2 DEF Asks, Completing, Stores
  <1>3. CASE Quiet \/ Arms \/ Persists \/ CommissioningClosed \/ FabricLeft \/ CommandWritten
    BY <1>3 DEF Quiet, Unmoved, Arms, Persists, CommissioningClosed, FabricLeft, CommandWritten,
          Stores
  <1>4. CASE UpdateNocBuilt
    BY <1>4 DEF UpdateNocBuilt, Stores
  <1>5. CASE \E i \in Index : RemoveFabric(i)
    BY <1>5 DEF RemoveFabric, Stores
  <1>6. CASE WriteDone \/ WriteError
    BY <1>6 DEF Stores
  <1>7. CASE command.op = "add" /\ command.index \in Index /\ Adds(command.index)
    BY <1>7 DEF Adds, Stores
  <1> QED  BY <1>1, <1>2, <1>3, <1>4, <1>5, <1>6, <1>7, Steps DEF Restarts

LEMMA SettlesStep ==
    ASSUME Types, Types', Stores, NEW good, NEW who,
           \A f \in Files : DOMAIN f = DOMAIN table' => f \in good,
           Settles(stored.fabrics, writes, good, who),
           WriteError => Head(writes).who # who
    PROVE  Settles(stored'.fabrics, writes', good, who)
  <1>0. writes \in Seq(Write) /\ writes' \in Seq(Write) /\ table' \in Tables
    BY DEF Types, FabricTypes
  <1>1. CASE UNCHANGED <<stored, writes>>
    BY <1>1
  <1>2. ASSUME stored' = stored, NEW w \in {"rollback", "complete", "command"},
               writes' = Persist(table', w)
        PROVE  Settles(stored'.fabrics, writes', good, who)
    <2>1. /\ Len(writes') = Len(writes) + 1 /\ Len(writes) \in Nat
          /\ \A n \in 1 .. Len(writes) : writes'[n] = writes[n]
          /\ DOMAIN writes'[Len(writes) + 1].fabrics = DOMAIN table'
      BY <1>0, <1>2, Appended
    <2>2. writes'[Len(writes) + 1].fabrics \in Files
      BY <1>0, <1>2, Appended
    <2>3. ASSUME NEW n \in 0 .. Len(writes)
          PROVE  /\ Snapshot(stored'.fabrics, writes', n) = Snapshot(stored.fabrics, writes, n)
                 /\ Follows(writes, n, who) => Follows(writes', n, who)
      BY <1>2, <2>1, <2>3 DEF Snapshot, Follows
    <2>4. Snapshot(stored'.fabrics, writes', Len(writes) + 1) \in good
      BY <2>1, <2>2 DEF Snapshot
    <2>5. ASSUME NEW n \in 0 .. Len(writes')
          PROVE  Follows(writes', n, who) \/ Snapshot(stored'.fabrics, writes', n) \in good
      <3>1. CASE n = Len(writes) + 1
        BY <2>4, <3>1
      <3>2. CASE n \in 0 .. Len(writes)
        BY <2>3, <3>2 DEF Settles
      <3> QED  BY <2>1, <3>1, <3>2
    <2> QED  BY <2>5 DEF Settles
  <1>3. ASSUME writes # <<>>, writes' = Tail(writes)
        PROVE  /\ Len(writes') = Len(writes) - 1 /\ Len(writes) \in Nat \ {0}
               /\ \A n \in 1 .. Len(writes) - 1 : writes'[n] = writes[n + 1]
               /\ Head(writes) = writes[1]
    BY <1>0, <1>3, Popped
  <1>4. CASE WriteDone
    <2>1. /\ Len(writes') = Len(writes) - 1 /\ Len(writes) \in Nat \ {0}
          /\ \A n \in 1 .. Len(writes) - 1 : writes'[n] = writes[n + 1]
          /\ stored'.fabrics = writes[1].fabrics
      BY <1>3, <1>4 DEF WriteDone
    <2>2. ASSUME NEW n \in 0 .. Len(writes')
          PROVE  /\ n + 1 \in 0 .. Len(writes)
                 /\ Snapshot(stored'.fabrics, writes', n) = Snapshot(stored.fabrics, writes, n + 1)
                 /\ Follows(writes, n + 1, who) => Follows(writes', n, who)
      <3>1. n + 1 \in 0 .. Len(writes)
        BY <2>1
      <3>2. Snapshot(stored'.fabrics, writes', n) = Snapshot(stored.fabrics, writes, n + 1)
        BY <2>1 DEF Snapshot
      <3>3. ASSUME NEW m \in n + 1 + 1 .. Len(writes), writes[m].who = who
            PROVE  m - 1 \in n + 1 .. Len(writes') /\ writes'[m - 1].who = who
        BY <2>1, <3>3
      <3> QED  BY <3>1, <3>2, <3>3 DEF Follows
    <2> QED  BY <2>2 DEF Settles
  <1>5. CASE WriteError
    <2>1. /\ Len(writes') = Len(writes) - 1 /\ Len(writes) \in Nat \ {0}
          /\ \A n \in 1 .. Len(writes) - 1 : writes'[n] = writes[n + 1]
          /\ stored' = stored /\ writes[1].who # who
      BY <1>3, <1>5 DEF WriteError
    <2>2. ASSUME NEW n \in 1 .. Len(writes')
          PROVE  Follows(writes', n, who) \/ Snapshot(stored'.fabrics, writes', n) \in good
      <3>1. n + 1 \in 0 .. Len(writes)
        BY <2>1
      <3>2. Snapshot(stored'.fabrics, writes', n) = Snapshot(stored.fabrics, writes, n + 1)
        BY <2>1 DEF Snapshot
      <3>3. ASSUME NEW m \in n + 1 + 1 .. Len(writes), writes[m].who = who
            PROVE  m - 1 \in n + 1 .. Len(writes') /\ writes'[m - 1].who = who
        BY <2>1, <3>3
      <3>4. Follows(writes, n + 1, who) => Follows(writes', n, who)
        BY <3>3 DEF Follows
      <3> QED  BY <3>1, <3>2, <3>4 DEF Settles
    <2>3. Follows(writes', 0, who) \/ Snapshot(stored'.fabrics, writes', 0) \in good
      <3>1. Follows(writes, 0, who) \/ stored.fabrics \in good
        BY <2>1 DEF Settles, Snapshot
      <3>2. ASSUME NEW m \in 0 + 1 .. Len(writes), writes[m].who = who
            PROVE  m - 1 \in 0 + 1 .. Len(writes') /\ writes'[m - 1].who = who
        BY <2>1, <3>2
      <3> QED  BY <2>1, <3>1, <3>2 DEF Follows, Snapshot
    <2> QED  BY <2>1, <2>2, <2>3 DEF Settles
  <1> QED  BY <1>1, <1>2, <1>4, <1>5 DEF Stores

(* Without a write of who to come, everything is good already. *)
LEMMA SettledForAll ==
    ASSUME Types, NEW good, NEW who, NEW other, ~Writing(writes, who),
           Settles(stored.fabrics, writes, good, who)
    PROVE  Settles(stored.fabrics, writes, good, other) /\ stored.fabrics \in good
  <1>1. \A n \in 0 .. Len(writes) : ~Follows(writes, n, who)
    BY DEF Follows, Writing
  <1>2. Len(writes) \in Nat
    BY DEF Types, FabricTypes
  <1> QED  BY <1>1, <1>2 DEF Settles, Snapshot

LEMMA NobodyWrites ==
    ASSUME Types
    PROVE  ~Writing(writes, Nobody) /\ (writes # <<>> => Head(writes).who # Nobody)
  <1>1. \A n \in 1 .. Len(writes) : writes[n].who \in {"rollback", "complete", "command"}
    <2>1. \A n \in 1 .. Len(writes) : writes[n] \in Write
      BY DEF Types, FabricTypes
    <2> QED  BY <2>1 DEF Write
  <1>2. writes # <<>> => Head(writes) = writes[1] /\ 1 \in 1 .. Len(writes)
    BY DEF Types, FabricTypes
  <1> QED  BY <1>1, <1>2 DEF Writing, Nobody

(* The write just asked for makes everything good when it comes. *)
LEMMA OwnWrite ==
    ASSUME Types, Types', NEW good, NEW who \in {"rollback", "complete", "command"},
           stored' = stored, writes' = Persist(table', who),
           \A f \in Files : DOMAIN f = DOMAIN table' => f \in good
    PROVE  Settles(stored'.fabrics, writes', good, who)
  <1>0. writes \in Seq(Write) /\ writes' \in Seq(Write) /\ table' \in Tables
    BY DEF Types, FabricTypes
  <1>1. /\ Len(writes') = Len(writes) + 1 /\ Len(writes) \in Nat
        /\ writes'[Len(writes) + 1].who = who
        /\ DOMAIN writes'[Len(writes) + 1].fabrics = DOMAIN table'
    BY <1>0, Appended
  <1>2. writes'[Len(writes) + 1].fabrics \in Files
    BY <1>0, Appended
  <1>3. \A n \in 0 .. Len(writes) : Follows(writes', n, who)
    BY <1>1 DEF Follows
  <1> QED  BY <1>1, <1>2, <1>3 DEF Settles, Snapshot

-----------------------------------------------------------------------------
(* A commissioned fabric is in the table and in the storage *)

Commits(i) ==
    /\ CommissioningClosed /\ i = completing.fabric
    /\ completing.persists /\ ~completing.disturbed /\ \E c : ClosesOf(c)

(* Only the answer of a completion commits a fabric, only AddNOC makes it  *)
(* pending, and none is lost or erased while the device runs.              *)
LEMMA StatusStep ==
    ASSUME Types, Contexts, [Next]_vars, ~Restarts
    PROVE  \A i \in Index :
             /\ status'[i] = "committed" => status[i] = "committed" \/ Commits(i)
             /\ status'[i] = "pending" => status[i] = "pending"
                    \/ (command.op = "add" /\ i = command.index /\ Adds(i))
             /\ status'[i] \in {"lost", "erased"} => status'[i] = status[i]
  <1>1. CASE \E c \in failsafe : RollsOrCloses(c)
    <2>1. \A i \in Index : status'[i] \in {status[i], "none", "reverted"}
      BY <1>1 DEF RollsOrCloses, RollsBack, Ends, TakesOut, PutsBack, GoesOn
    <2> QED  BY <2>1
  <1>2. CASE \E c \in failsafe, d \in FailsafeContext : Asks(c, d) \/ Completing(c, d)
    BY <1>2 DEF Asks, Completing
  <1>3. CASE Quiet \/ Arms \/ Persists \/ FabricLeft \/ CommandWritten \/ WriteDone \/ WriteError
    BY <1>3 DEF Quiet, Unmoved, Arms, Persists, FabricLeft, CommandWritten, WriteDone, WriteError,
          history
  <1>4. CASE UpdateNocBuilt
    <2>1. \A i \in Index : status'[i] \in {status[i], "late"}
      BY <1>4 DEF UpdateNocBuilt, Types, FlagTypes
    <2> QED  BY <2>1
  <1>5. CASE \E i \in Index : RemoveFabric(i)
    <2>1. \A i \in Index : status'[i] \in {status[i], "none"}
      BY <1>5 DEF RemoveFabric, Forget
    <2> QED  BY <2>1
  <1>6. CASE CommissioningClosed
    <2>1. completing.fabric \in Index /\ (Hangs \/ \E c : ClosesOf(c))
      BY <1>6, ClosedEffect
    <2>2. CASE Hangs
      BY <2>2 DEF Hangs, history
    <2>3. CASE \E c : ClosesOf(c)
      <3>1. PICK c : ClosesOf(c)
        BY <2>3
      <3>2. /\ status'[completing.fabric] =
                  IF completing.disturbed THEN "undone"
                  ELSE IF completing.persists /\ ~completing.disturbed THEN "committed"
                  ELSE status[completing.fabric]
            /\ \A j \in Index \ {completing.fabric} : status'[j] \in {"late", status[j]}
        BY <2>1, <3>1, AnswerEffect
      <3>3. \A j \in Index : j = completing.fabric \/ j \in Index \ {completing.fabric}
        OBVIOUS
      <3> QED  BY <1>6, <3>1, <3>2, <3>3 DEF Commits
    <2> QED  BY <2>1, <2>2, <2>3
  <1>7. CASE command.op = "add" /\ command.index \in Index /\ Adds(command.index)
    <2>1. /\ \A j \in Index \ {command.index} : status'[j] = status[j]
          /\ status'[command.index] \in {"late", "pending"}
      BY <1>7 DEF Adds
    <2>2. \A j \in Index : j = command.index \/ j \in Index \ {command.index}
      OBVIOUS
    <2> QED  BY <1>7, <2>1, <2>2
  <1> QED  BY <1>1, <1>2, <1>3, <1>4, <1>5, <1>6, <1>7, Steps DEF Restarts

Stored ==
    /\ \A i \in Index : status[i] = "committed" =>
          i \in DOMAIN table /\ Settles(stored.fabrics, writes, Having(i), Nobody)
    /\ \A c \in failsafe : Completes(c) /\ completing.persists /\ ~completing.disturbed =>
          Settles(stored.fabrics, writes, Having(completing.fabric), "complete")

LEMMA HavingStep ==
    ASSUME Types, Types', Stores, NEW i \in DOMAIN table', NEW who,
           Settles(stored.fabrics, writes, Having(i), who), WriteError => Head(writes).who # who
    PROVE  Settles(stored'.fabrics, writes', Having(i), who)
  <1>1. \A f \in Files : DOMAIN f = DOMAIN table' => f \in Having(i)
    BY DEF Having
  <1> HIDE DEF Having
  <1> QED  BY <1>1, SettlesStep

(* The completion under way is the one there was, or begins now.           *)
LEMMA CompletionStep ==
    ASSUME Types, Contexts, Contexts', [Next]_vars, ~Restarts, NEW d \in failsafe', Completes(d)',
           completing'.persists, ~completing'.disturbed
    PROVE  \/ /\ \E c \in failsafe : Completes(c)
              /\ completing.persists /\ ~completing.disturbed
              /\ completing'.fabric = completing.fabric
              /\ WriteError => Head(writes).who # "complete"
           \/ /\ stored' = stored /\ table' = table /\ writes' = Persist(table, "complete")
  <1>0. completing'.op \in {"persisting", "closing"} /\ completing'.id = d.id
    BY DEF Completes
  <1>a. /\ Nothing.op = "none" /\ (completing = Nothing <=> completing.op = "none")
        /\ completing \in Completions /\ armed \in Nat
    BY DEF Nothing, Types, ContextTypes, Completions
  <1>b. WriteError => Head(writes).who # "complete"
    BY <1>0, <1>a DEF WriteError
  <1> DEFINE Same == /\ \E c \in failsafe : c.id = d.id
                     /\ completing.op \in {"persisting", "closing"} /\ completing.id = d.id
                     /\ completing.persists /\ ~completing.disturbed
                     /\ completing'.fabric = completing.fabric
  <1>c. SUFFICES ASSUME ~Same
                 PROVE  stored' = stored /\ table' = table /\ writes' = Persist(table, "complete")
    BY <1>b DEF Completes
  <1>1. CASE Quiet
    BY <1>0, <1>1, <1>c DEF Quiet, Unmoved, Alike, SameFabrics
  <1>2. CASE Arms
    BY <1>0, <1>2, <1>a DEF Arms, Contexts, Numbered
  <1>3. CASE \E c \in failsafe : RollsOrCloses(c)
    <2>1. PICK c \in failsafe : RollsOrCloses(c)
      BY <1>3
    <2>2. d.id = c.id
      BY <2>1 DEF RollsOrCloses, RollsBack, Ends, TakesOut, PutsBack, GoesOn, Moves, Destroyed,
            SameFabrics
    <2>3. completing # Nothing => ([completing EXCEPT !.disturbed = TRUE]).disturbed
      BY <1>a DEF Completions, Nothing
    <2>4. completing' = completing
      BY <1>0, <1>a, <2>1, <2>3 DEF RollsOrCloses
    <2> QED  BY <1>0, <1>c, <2>2, <2>4
  <1>4. CASE \E c \in failsafe, e \in FailsafeContext : Asks(c, e)
    BY <1>0, <1>4, <1>c DEF Asks
  <1>5. CASE \E c \in failsafe, e \in FailsafeContext : Completing(c, e)
    BY <1>5 DEF Completing
  <1>6. CASE Persists
    <2>1. /\ completing.op = "persisting" /\ completing.id = d.id
          /\ completing'.fabric = completing.fabric
          /\ completing.persists /\ ~completing.disturbed
      BY <1>0, <1>6 DEF Persists
    <2>2. \E c \in failsafe : c.id = d.id
      BY <1>6 DEF Persists, Persisted, SameFabrics
    <2> QED  BY <1>c, <2>1, <2>2
  <1>7. CASE CommissioningClosed
    BY <1>0, <1>7, <1>a, ClosedEffect DEF Hangs, ClosesOf, Answered
  <1>8. CASE command.op = "add" /\ command.index \in Index /\ Adds(command.index)
    BY <1>0, <1>8, <1>c DEF Adds
  <1>9. CASE UpdateNocBuilt \/ FabricLeft \/ CommandWritten \/ WriteDone
    BY <1>0, <1>9, <1>c DEF UpdateNocBuilt, FabricLeft, CommandWritten, WriteDone
  <1>10. CASE \E i \in Index : RemoveFabric(i)
    <2>1. completing # Nothing => ([completing EXCEPT !.disturbed = TRUE]).disturbed
      BY <1>a DEF Completions, Nothing
    <2>2. completing' = completing /\ failsafe' = failsafe
      BY <1>10, <2>1 DEF RemoveFabric
    <2> QED  BY <1>0, <1>c, <2>2
  <1>11. CASE WriteError
    <2>1. completing' = completing /\ failsafe' \subseteq failsafe
      BY <1>0, <1>11, <1>a DEF WriteError, Destroyed
    <2> QED  BY <1>0, <1>c, <2>1
  <1> QED  BY <1>1, <1>2, <1>3, <1>4, <1>5, <1>6, <1>7, <1>8, <1>9, <1>10, <1>11, Steps DEF Restarts

LEMMA StoredStep ==
    ASSUME Types, Types', Writers, Contexts, Contexts', Stored, [Next]_vars
    PROVE  Stored'
  <1>0. DOMAIN table \subseteq Index /\ DOMAIN table' \subseteq Index /\ table' \in Tables
    BY Entries DEF Types, FabricTypes, Tables
  <1>1. CASE Crash
    <2>1. stored.fabrics \in Files /\ stored.next \in Index /\ Blank(stored.fabrics, stored.next)
      BY <1>1 DEF Crash, Types, FabricTypes
    <2>2. /\ writes' = <<>> /\ failsafe' = {} /\ stored' = stored
          /\ DOMAIN table' = DOMAIN stored.fabrics
      BY <1>1, <2>1, BlankTypes DEF Crash
    <2>3. \A i \in Index : status'[i] = "committed" => i \in DOMAIN stored.fabrics
      BY <1>1 DEF Crash
    <2>4. \A i \in DOMAIN stored.fabrics : Settles(stored'.fabrics, writes', Having(i), Nobody)
      BY <2>1, <2>2 DEF Settles, Snapshot, Having
    <2> QED  BY <2>2, <2>3, <2>4 DEF Stored
  <1>2. CASE FactoryReset
    <2>1. failsafe' = {} /\ \A i \in Index : status'[i] # "committed"
      BY <1>2 DEF FactoryReset, Blank
    <2> QED  BY <2>1 DEF Stored
  <1>3. CASE ~Restarts
    <2>1. Stores
      BY <1>3, StoresStep
    <2>2. ASSUME NEW i \in Index, status'[i] = "committed"
          PROVE  i \in DOMAIN table' /\ Settles(stored'.fabrics, writes', Having(i), Nobody)
      <3>1. i \in DOMAIN table /\ Settles(stored.fabrics, writes, Having(i), Nobody)
        <4>1. CASE status[i] = "committed"
          BY <4>1 DEF Stored
        <4>2. CASE Commits(i)
          <5>1. PICK c : ClosesOf(c)
            BY <4>2 DEF Commits
          <5>2. c \in failsafe /\ Completes(c) /\ completing.persists /\ ~completing.disturbed
            BY <4>2, <5>1 DEF Commits, ClosesOf
          <5>3. i \in DOMAIN table
            BY <4>2, <5>2 DEF Contexts, Completed, Free, Commits
          <5>4. completing.op = "closing"
            BY <4>2, ClosedEffect DEF Commits
          <5>5. ~Writing(writes, "complete")
            BY <5>4 DEF Writers
          <5>6. Settles(stored.fabrics, writes, Having(i), "complete")
            BY <4>2, <5>2 DEF Stored, Commits
          <5> QED  BY <5>3, <5>5, <5>6, SettledForAll
        <4> QED  BY <1>3, <2>2, <4>1, <4>2, StatusStep
      <3>2. i \in DOMAIN table'
        BY <1>3, <2>2, <3>1, TableStep
      <3>3. WriteError => Head(writes).who # Nobody
        BY NobodyWrites DEF WriteError
      <3> QED  BY <2>1, <3>1, <3>2, <3>3, HavingStep
    <2>3. ASSUME NEW d \in failsafe', Completes(d)', completing'.persists, ~completing'.disturbed
          PROVE  Settles(stored'.fabrics, writes', Having(completing'.fabric), "complete")
      <3>1. completing'.fabric \in DOMAIN table'
        BY <2>3 DEF Contexts, Completed, Free
      <3>2. CASE /\ stored' = stored /\ table' = table /\ writes' = Persist(table, "complete")
        <4>1. \A f \in Files : DOMAIN f = DOMAIN table' => f \in Having(completing'.fabric)
          BY <3>1 DEF Having
        <4> QED  BY <3>2, <4>1, OwnWrite
      <3>3. CASE /\ \E c \in failsafe : Completes(c)
                 /\ completing.persists /\ ~completing.disturbed
                 /\ completing'.fabric = completing.fabric
                 /\ WriteError => Head(writes).who # "complete"
        <4>1. Settles(stored.fabrics, writes, Having(completing'.fabric), "complete")
          BY <3>3 DEF Stored
        <4> QED  BY <2>1, <3>1, <3>3, <4>1, HavingStep
      <3> QED  BY <1>3, <2>3, <3>2, <3>3, CompletionStep
    <2> QED  BY <2>2, <2>3 DEF Stored
  <1> QED  BY <1>1, <1>2, <1>3 DEF Restarts

Base == Types /\ Writers /\ Contexts /\ Stored

LEMMA BaseAlways == Spec => []Base
  <1>1. Init => Base
    <2> SUFFICES ASSUME Init PROVE Base
      OBVIOUS
    <2>1. Types
      BY InitTypes
    <2>2. Writers
      BY DEF Init, Writers, OneEach, Writing
    <2>3. Contexts
      BY DEF Init, Contexts, Numbered, Related, Completed, Nothing
    <2>4. ASSUME NEW i \in Index, status[i] = "committed"
          PROVE  i \in DOMAIN table /\ Settles(stored.fabrics, writes, Having(i), Nobody)
      <3>1. i \in DOMAIN table
        BY <2>4 DEF Init
      <3>2. stored.fabrics \in Files /\ DOMAIN stored.fabrics = DOMAIN table
        BY <2>1 DEF Types, FabricTypes, Init
      <3>3. Len(writes) = 0
        BY DEF Init
      <3> QED  BY <3>1, <3>2, <3>3 DEF Settles, Snapshot, Having
    <2>5. Stored
      BY <2>4 DEF Stored, Init
    <2> QED  BY <2>1, <2>2, <2>3, <2>5 DEF Base
  <1>2. Base /\ [Next]_vars => Base'
    BY TypesStep, WritersStep, ContextsStep, StoredStep DEF Base
  <1> QED  BY <1>1, <1>2, PTL DEF Spec

(* A fabric whose commissioning was answered with success (the end of      *)
(* completeCommission(), after persistFabrics()) is lost neither to a      *)
(* rollback nor to a restart, whatever other rollbacks and commands write  *)
(* at the same time and whichever of the writes the storage refuses.       *)
THEOREM CommittedIsNeverLost == Spec => []NeverLost
  <1>1. Init => NeverLost
    BY DEF Init, NeverLost
  <1>2. Base /\ NeverLost /\ [Next]_vars => NeverLost'
    <2> SUFFICES ASSUME Base, NeverLost, [Next]_vars, NEW i \in Index, status'[i] = "lost"
                 PROVE  FALSE
      BY DEF NeverLost
    <2>1. CASE ~Restarts
      BY <2>1, StatusStep DEF Base, NeverLost
    <2>2. CASE Crash
      <3>1. status[i] = "committed" /\ i \notin DOMAIN stored.fabrics
        BY <2>2 DEF Crash, NeverLost
      <3>2. Settles(stored.fabrics, writes, Having(i), Nobody)
        BY <3>1 DEF Base, Stored
      <3>3. stored.fabrics \in Having(i)
        BY <3>2, NobodyWrites, SettledForAll DEF Base
      <3> QED  BY <3>1, <3>3 DEF Having
    <2>3. CASE FactoryReset
      BY <2>3 DEF FactoryReset
    <2> QED  BY <2>1, <2>2, <2>3 DEF Restarts
  <1> QED  BY <1>1, <1>2, BaseAlways, PTL DEF Spec

-----------------------------------------------------------------------------
(* A removed fabric is in neither *)

Removals ==
    /\ \A i \in removed :
          i \notin DOMAIN table /\ Settles(stored.fabrics, writes, Lacking(i), Nobody)
    /\ command.op = "removing" =>
          /\ command.index \notin DOMAIN table
          /\ Settles(stored.fabrics, writes, Lacking(command.index), "command")

LEMMA LackingStep ==
    ASSUME Types, Types', Stores, NEW i, i \notin DOMAIN table', NEW who,
           Settles(stored.fabrics, writes, Lacking(i), who), WriteError => Head(writes).who # who
    PROVE  Settles(stored'.fabrics, writes', Lacking(i), who)
  <1>1. \A f \in Files : DOMAIN f = DOMAIN table' => f \in Lacking(i)
    BY DEF Lacking
  <1> HIDE DEF Lacking
  <1> QED  BY <1>1, SettlesStep

(* RemoveFabric reports a fabric removed when its write is done.           *)
LEMMA RemovedStep ==
    ASSUME Types, [Next]_vars, ~Restarts
    PROVE  /\ \A i \in removed' :
                i \in removed \/ (CommandWritten /\ command.op = "removing" /\ i = command.index)
           /\ command'.op = "removing" =>
                \/ command' = command
                \/ \E i \in Index : /\ command'.index = i /\ table' = Without(table, i)
                                    /\ writes' = Persist(table', "command") /\ stored' = stored
  <1>0. Nothing.op = "none"
    BY DEF Nothing
  <1>1. CASE \E c \in failsafe : RollsOrCloses(c)
    BY <1>1 DEF RollsOrCloses, RollsBack
  <1>2. CASE \E c \in failsafe, d \in FailsafeContext : Asks(c, d) \/ Completing(c, d)
    BY <1>0, <1>2 DEF Asks, Completing
  <1>3. CASE Quiet \/ Arms \/ Persists \/ FabricLeft \/ WriteDone \/ WriteError
    BY <1>0, <1>3 DEF Quiet, Unmoved, Arms, Persists, FabricLeft, WriteDone, WriteError, history,
          answers
  <1>4. CASE CommandWritten
    BY <1>0, <1>4 DEF CommandWritten
  <1>5. CASE CommissioningClosed
    BY <1>5 DEF CommissioningClosed, Answered, history, answers
  <1>6. CASE command.op = "add" /\ command.index \in Index /\ Adds(command.index)
    BY <1>0, <1>6 DEF Adds
  <1>7. CASE UpdateNocBuilt
    BY <1>0, <1>7 DEF UpdateNocBuilt, answers
  <1>8. CASE \E i \in Index : RemoveFabric(i)
    BY <1>8 DEF RemoveFabric, answers
  <1> QED  BY <1>1, <1>2, <1>3, <1>4, <1>5, <1>6, <1>7, <1>8, Steps DEF Restarts

LEMMA RemovalsStep ==
    ASSUME Base, Base', Removals, [Next]_vars
    PROVE  Removals'
  <1>0. Types /\ Types' /\ Nothing.op = "none"
    BY DEF Base, Nothing
  <1>1. CASE Crash
    <2>1. stored.fabrics \in Files /\ stored.next \in Index /\ Blank(stored.fabrics, stored.next)
      BY <1>0, <1>1 DEF Crash, Types, FabricTypes
    <2>2. /\ writes' = <<>> /\ command'.op = "none" /\ stored' = stored /\ removed' = removed
          /\ DOMAIN table' = DOMAIN stored.fabrics
      BY <1>0, <1>1, <2>1, BlankTypes DEF Crash, Blank, answers
    <2>3. \A i \in removed : stored.fabrics \in Lacking(i)
      BY <1>0, NobodyWrites, SettledForAll DEF Removals
    <2>4. \A i \in removed : Settles(stored'.fabrics, writes', Lacking(i), Nobody)
      BY <2>2, <2>3 DEF Settles, Snapshot
    <2>5. \A i \in removed : i \notin DOMAIN stored.fabrics
      BY <2>3 DEF Lacking
    <2> QED  BY <2>2, <2>4, <2>5 DEF Removals
  <1>2. CASE FactoryReset
    BY <1>0, <1>2 DEF FactoryReset, Blank, Removals
  <1>3. CASE ~Restarts
    <2>1. Stores
      BY <1>0, <1>3, StoresStep
    <2>2. \A i : i \notin DOMAIN table =>
            i \notin DOMAIN table' \/ (command.op = "add" /\ i \notin removed')
      BY <1>0, <1>3, TableStep DEF Adds
    <2>3. ASSUME NEW i \in removed'
          PROVE  i \notin DOMAIN table' /\ Settles(stored'.fabrics, writes', Lacking(i), Nobody)
      <3>1. i \notin DOMAIN table /\ Settles(stored.fabrics, writes, Lacking(i), Nobody)
        <4>1. CASE i \in removed
          BY <4>1 DEF Removals
        <4>2. CASE CommandWritten /\ command.op = "removing" /\ i = command.index
          <5>1. ~Writing(writes, "command")
            BY <1>0, <4>2, WrittenIsNotWriting DEF CommandWritten
          <5>2. i \notin DOMAIN table /\ Settles(stored.fabrics, writes, Lacking(i), "command")
            BY <4>2 DEF Removals
          <5> QED  BY <1>0, <5>1, <5>2, SettledForAll
        <4> QED  BY <1>0, <1>3, <4>1, <4>2, RemovedStep
      <3>2. i \notin DOMAIN table'
        BY <2>2, <2>3, <3>1
      <3>3. WriteError => Head(writes).who # Nobody
        BY <1>0, NobodyWrites DEF WriteError
      <3> QED  BY <1>0, <2>1, <3>1, <3>2, <3>3, LackingStep
    <2>4. ASSUME command'.op = "removing"
          PROVE  /\ command'.index \notin DOMAIN table'
                 /\ Settles(stored'.fabrics, writes', Lacking(command'.index), "command")
      <3>1. CASE command' = command
        <4>1. /\ command.index \notin DOMAIN table
              /\ Settles(stored.fabrics, writes, Lacking(command'.index), "command")
          BY <2>4, <3>1 DEF Removals
        <4>2. command'.index \notin DOMAIN table'
          BY <2>2, <2>4, <3>1, <4>1
        <4>3. WriteError => Head(writes).who # "command"
          BY <1>0, <2>4 DEF WriteError
        <4> QED  BY <1>0, <2>1, <4>1, <4>2, <4>3, LackingStep
      <3>2. ASSUME NEW i \in Index, command'.index = i, table' = Without(table, i),
                   writes' = Persist(table', "command"), stored' = stored
            PROVE  /\ command'.index \notin DOMAIN table'
                   /\ Settles(stored'.fabrics, writes', Lacking(command'.index), "command")
        <4>1. table \in Tables
          BY <1>0 DEF Types, FabricTypes
        <4>2. i \notin DOMAIN table'
          BY <3>2, <4>1, WithoutDomain
        <4>3. \A f \in Files : DOMAIN f = DOMAIN table' => f \in Lacking(i)
          BY <4>2 DEF Lacking
        <4>4. Settles(stored'.fabrics, writes', Lacking(i), "command")
          BY <1>0, <3>2, <4>3, OwnWrite
        <4> QED  BY <3>2, <4>2, <4>4
      <3> QED  BY <1>0, <1>3, <2>4, <3>1, <3>2, RemovedStep
    <2> QED  BY <2>3, <2>4 DEF Removals
  <1> QED  BY <1>1, <1>2, <1>3 DEF Restarts

(* A fabric RemoveFabric took out does not come back: no rollback and no   *)
(* UpdateNOC puts it back in the table, and none of the writes under way   *)
(* puts it back in the storage, from where a restart would read it.        *)
THEOREM RemovedStaysOut == Spec => []RemovedIsGone
  <1>1. Init => Removals
    BY DEF Init, Removals, Nothing
  <1>2. Base /\ Base' /\ Removals /\ [Next]_vars => Removals'
    BY RemovalsStep
  <1>3. Base /\ Removals => RemovedIsGone
    <2> SUFFICES ASSUME Base, Removals, NEW i \in removed
                 PROVE  Free(i) /\ i \notin DOMAIN stored.fabrics
      BY DEF RemovedIsGone
    <2>1. stored.fabrics \in Lacking(i)
      BY NobodyWrites, SettledForAll DEF Base, Removals
    <2> QED  BY <2>1 DEF Removals, Free, Lacking
  <1> QED  BY <1>1, <1>2, <1>3, BaseAlways, PTL DEF Spec

-----------------------------------------------------------------------------
(* Somebody still answers for a fabric that is not committed *)

(* The failsafe can still take back what was done under it, or the         *)
(* completion whose fabrics are written is about to be answered.           *)
Guarded(c, done) ==
    /\ c.stage = "none"
    /\ c.held \/ (done.op = "closing" /\ done.id = c.id /\ done.persists)

(* Only its own rollback or the answer ends a context that has a fabric.   *)
LEMMA ContextStays ==
    ASSUME Types, Writers, Contexts, [Next]_vars, ~Restarts,
           NEW c \in failsafe, c.index # NoFabric, c.stage \in {"none", "pase", "network"}
    PROVE  \/ RollsOrCloses(c)
           \/ CommissioningClosed /\ ClosesOf(c) /\ c.stage = "none"
           \/ \E d \in failsafe' :
                /\ d.index = c.index /\ d.update = c.update /\ d.stage = c.stage
                /\ Guarded(c, completing) => Guarded(d, completing')
  <1> DEFINE Stays == \E d \in failsafe' :
                        /\ d.index = c.index /\ d.update = c.update /\ d.stage = c.stage
                        /\ Guarded(c, completing) => Guarded(d, completing')
  <1>0. failsafe = {c} /\ c \in FailsafeContext /\ completing \in Completions
        /\ Nothing.op = "none"
    BY OneContext DEF Types, ContextTypes, Nothing
  <1>1. CASE Quiet
    BY <1>1 DEF Quiet, Unmoved, Alike, SameFabrics, Guarded
  <1>2. CASE Arms
    BY <1>0, <1>2 DEF Arms
  <1>3. CASE \E x \in failsafe : RollsOrCloses(x)
    BY <1>0, <1>3
  <1>4. CASE \E x \in failsafe, d \in FailsafeContext : Asks(x, d)
    BY <1>0, <1>4 DEF Asks
  <1>5. CASE \E x \in failsafe, d \in FailsafeContext : Completing(x, d)
    <2>1. PICK d \in FailsafeContext : Completing(c, d)
      BY <1>0, <1>5
    <2>2. d \in failsafe' /\ d.index = c.index /\ d.update = c.update /\ d.stage = c.stage /\ d.held
      BY <2>1 DEF Completing, SameFabrics
    <2> QED  BY <2>2 DEF Guarded
  <1>6. CASE Persists
    <2>1. PICK d \in failsafe' : Persisted(c, d)
      BY <1>6 DEF Persists
    <2>2. d.index = c.index /\ d.update = c.update /\ d.stage = c.stage /\ d.id = c.id
      BY <2>1 DEF Persisted, SameFabrics
    <2>3. ASSUME Guarded(c, completing)
          PROVE  Guarded(d, completing')
      <3>1. c.held /\ c.stage = "none"
        BY <1>6, <2>3 DEF Guarded, Persists
      <3>2. CASE c.id # completing.id
        BY <2>1, <2>2, <3>1, <3>2 DEF Persisted, Guarded
      <3>3. CASE c.id = completing.id
        <4>1. completing.op = "persisting" /\ completing.persists
          BY <1>6 DEF Persists, Contexts, Numbered
        <4>2. completing'.op = "closing" /\ completing'.id = d.id /\ completing'.persists
          BY <1>6, <2>2, <3>3, <4>1 DEF Persists
        <4> QED  BY <2>2, <3>1, <4>2 DEF Guarded
      <3> QED  BY <3>2, <3>3
    <2> QED  BY <2>2, <2>3
  <1>7. CASE CommissioningClosed
    <2>1. completing.op = "closing" /\ (Hangs \/ \E x : ClosesOf(x))
      BY <1>7, ClosedEffect
    <2>2. CASE Hangs
      <3>1. failsafe' = failsafe /\ completing.id # c.id
        BY <2>1, <2>2 DEF Hangs, Completes
      <3> QED  BY <3>1 DEF Guarded
    <2>3. CASE \E x : ClosesOf(x)
      <3>1. ClosesOf(c)
        BY <1>0, <2>3 DEF ClosesOf
      <3>2. CASE c.stage # "none"
        BY <3>1, <3>2 DEF ClosesOf, Guarded
      <3> QED  BY <1>7, <3>1, <3>2
    <2> QED  BY <2>1, <2>2, <2>3
  <1>8. CASE command.op = "add" /\ command.index \in Index /\ Adds(command.index)
    <2>1. CASE failsafe' = failsafe
      BY <1>8, <2>1 DEF Adds, Guarded
    <2>2. CASE \E d \in FailsafeContext :
                 /\ failsafe' = {d} /\ d.id = c.id /\ d.index = c.index /\ d.update = c.update
                 /\ d.stage = c.stage /\ d.held = c.held
      BY <1>8, <2>2 DEF Adds, Guarded
    <2> QED  BY <1>0, <1>8, <2>1, <2>2 DEF Adds
  <1>9. CASE UpdateNocBuilt \/ FabricLeft \/ CommandWritten \/ WriteDone
    <2>1. UNCHANGED <<failsafe, completing>>
      BY <1>9 DEF UpdateNocBuilt, FabricLeft, CommandWritten, WriteDone
    <2> QED  BY <2>1
  <1>10. CASE \E i \in Index : RemoveFabric(i)
    <2>1. /\ completing'.op = completing.op /\ completing'.id = completing.id
          /\ completing'.persists = completing.persists /\ failsafe' = failsafe
      BY <1>0, <1>10 DEF RemoveFabric, Completions, Nothing
    <2> QED  BY <2>1 DEF Guarded
  <1>11. CASE WriteError
    <2>1. Writing(writes, Head(writes).who)
      BY <1>11, OneWriteLess DEF WriteError, Writers
    <2>2. Head(writes).who # "rollback"
      BY <1>0, <2>1 DEF Writers
    <2>3. failsafe' = failsafe
      BY <1>11, <2>2 DEF WriteError
    <2>4. CASE completing' = completing
      BY <2>3, <2>4
    <2>5. CASE Head(writes).who = "complete"
      <3>1. completing.op = "persisting"
        BY <2>1, <2>5 DEF Writers
      <3> QED  BY <2>3, <3>1 DEF Guarded
    <2> QED  BY <1>11, <2>4, <2>5 DEF WriteError
  <1> QED  BY <1>1, <1>2, <1>3, <1>4, <1>5, <1>6, <1>7, <1>8, <1>9, <1>10, <1>11, Steps DEF Restarts

(* The answer of a completion that guards a fabric is one that persists.   *)
LEMMA GuardedCloses ==
    ASSUME Types, Contexts, CommissioningClosed, NEW c \in failsafe, ClosesOf(c),
           Guarded(c, completing)
    PROVE  completing.persists
  <1>1. completing.op = "closing"
    BY ClosedEffect
  <1>2. ~c.held
    BY <1>1 DEF Contexts, Completed, ClosesOf
  <1> QED  BY <1>2 DEF Guarded

Pending ==
    \A i \in Index : status[i] = "pending" =>
        /\ i \in DOMAIN table
        /\ \E c \in failsafe : c.index = i /\ c.update = "no" /\ Guarded(c, completing)

LEMMA PendingStep ==
    ASSUME Base, Pending, [Next]_vars
    PROVE  Pending'
  <1> SUFFICES ASSUME NEW i \in Index, status'[i] = "pending"
               PROVE  /\ i \in DOMAIN table'
                      /\ \E d \in failsafe' :
                            d.index = i /\ d.update = "no" /\ Guarded(d, completing')
    BY DEF Pending
  <1>0. Types /\ Writers /\ Contexts /\ NoFabric \notin Index /\ table \in Tables
    BY DEF Base, Types, FabricTypes, NoFabric, Index
  <1>1. ~Restarts
    BY DEF Restarts, Crash, FactoryReset
  <1>2. CASE status[i] = "pending"
    <2>1. PICK c \in failsafe : c.index = i /\ c.update = "no" /\ Guarded(c, completing)
      BY <1>2 DEF Pending
    <2>2. i \in DOMAIN table /\ i \in DOMAIN table' /\ c.stage = "none"
      BY <1>0, <1>1, <1>2, <2>1, TableStep DEF Pending, Guarded
    <2>3. ~RollsOrCloses(c)
      <3>1. Revokes(c) /\ ~Free(c.index)
        BY <1>0, <2>1, <2>2 DEF Revokes, Free
      <3>2. ~TakesOut(c)
        BY <2>1 DEF TakesOut
      <3> QED  BY <2>2, <3>1, <3>2 DEF RollsOrCloses, RollsBack, Ends, PutsBack, GoesOn
    <2>4. ~(CommissioningClosed /\ ClosesOf(c))
      <3> SUFFICES ASSUME CommissioningClosed, ClosesOf(c) PROVE FALSE
        OBVIOUS
      <3>1. completing.persists /\ completing.fabric \in Index
        BY <1>0, <2>1, GuardedCloses, ClosedEffect
      <3>2. CASE i = completing.fabric
        BY <1>0, <3>1, <3>2, AnswerEffect
      <3>3. CASE i # completing.fabric
        BY <1>0, <2>1, <2>2, <3>1, <3>3, AnswerEffect DEF Free
      <3> QED  BY <3>2, <3>3
    <2> QED  BY <1>0, <1>1, <2>1, <2>2, <2>3, <2>4, ContextStays
  <1>3. CASE command.op = "add" /\ i = command.index /\ Adds(i)
    <2>1. i \in DOMAIN table'
      <3>1. DOMAIN With(table, i, NewFabric) = DOMAIN table \cup {i}
        BY <1>0, WithDomain, NewFabricType
      <3> QED  BY <1>3, <3>1 DEF Adds
    <2>2. PICK c \in failsafe, d \in FailsafeContext :
            /\ c.id = command.id /\ c.held /\ failsafe' = {d} /\ d.index = c.index
            /\ d.update = c.update /\ d.stage = c.stage /\ d.held = c.held
      BY <1>3 DEF Adds
    <2>3. c.index = i /\ c.update = "no" /\ c.stage = "none"
      BY <1>0, <1>3, <2>2 DEF Contexts, Related
    <2> QED  BY <2>1, <2>2, <2>3 DEF Guarded
  <1> QED  BY <1>0, <1>1, <1>2, <1>3, StatusStep

(* A fabric that AddNOC added while the failsafe was held (addFabric()     *)
(* after the key derivation) stays in the table until the failsafe takes   *)
(* it out or the commissioning is answered, and until then there is a      *)
(* failsafe that still can.                                                *)
THEOREM PendingIsGuarded == Spec => []PendingHasFailsafe
  <1>1. Init => Pending
    BY DEF Init, Pending
  <1>2. Base /\ Pending /\ [Next]_vars => Pending'
    BY PendingStep
  <1>3. Pending => PendingHasFailsafe
    BY DEF Pending, PendingHasFailsafe, Free
  <1> QED  BY <1>1, <1>2, <1>3, BaseAlways, PTL DEF Spec

-----------------------------------------------------------------------------
(* The certificate of a committed fabric *)

(* An UpdateNOC whose failsafe is not over yet: it is either completed, or *)
(* the rollback has still to put the associated fabric back.               *)
Unsettled(c) ==
    c.update = "yes" /\ (Guarded(c, completing) \/ c.stage \in {"pase", "network"})

Nocs ==
    \A i \in DOMAIN table : status[i] = "committed" =>
        \/ table[i].noc = confirmed[i]
        \/ \E c \in failsafe : c.index = i /\ Unsettled(c)

(* Only an UpdateNOC changes the certificate of a committed fabric, and a  *)
(* rollback only back to the one it was committed with.                    *)
LEMMA NocStep ==
    ASSUME Base, [Next]_vars, ~Restarts, NEW i \in DOMAIN table, i \in DOMAIN table',
           status[i] = "committed", status'[i] = "committed"
    PROVE  \/ table'[i].noc = table[i].noc /\ confirmed'[i] = confirmed[i]
           \/ table'[i].noc = confirmed'[i]
           \/ UpdateNocBuilt /\ command.op = "update" /\ i = command.index
              /\ \E c \in failsafe : c.id = command.id /\ c.held
  <1>0. Types /\ Contexts /\ table \in Tables /\ i \in Index
    BY Entries DEF Base, Types, FabricTypes, Tables
  <1>1. CASE \E c \in failsafe : RollsOrCloses(c)
    <2>1. PICK c \in failsafe : RollsOrCloses(c)
      BY <1>1
    <2>2. CASE TakesOut(c)
      <3>1. table' = Without(table, c.index)
        BY <2>2 DEF TakesOut
      <3>2. DOMAIN table' = DOMAIN table \ {c.index}
        BY <1>0, <3>1, WithoutDomain
      <3>3. table'[i] = table[i]
        BY <3>1, <3>2 DEF Without
      <3> QED  BY <2>1, <3>3 DEF RollsOrCloses, RollsBack
    <2>3. CASE PutsBack(c)
      <3>1. table' = With(table, c.assoc, c.assocFabric)
        BY <2>3 DEF PutsBack
      <3>2. table'[i] = IF i = c.assoc THEN c.assocFabric ELSE table[i]
        BY <3>1 DEF With
      <3>3. i = c.assoc => c.assocFabric.noc = confirmed[i]
        BY <1>0, <2>3 DEF PutsBack
      <3> QED  BY <2>1, <3>2, <3>3 DEF RollsOrCloses, RollsBack
    <2>4. CASE Ends(c) \/ GoesOn(c)
      BY <2>1, <2>4 DEF RollsOrCloses, RollsBack, Ends, GoesOn
    <2> QED  BY <2>1, <2>2, <2>3, <2>4 DEF RollsOrCloses, RollsBack
  <1>2. CASE \E c \in failsafe, d \in FailsafeContext : Asks(c, d) \/ Completing(c, d)
    BY <1>2 DEF Asks, Completing
  <1>3. CASE Quiet \/ Arms \/ Persists \/ FabricLeft \/ CommandWritten \/ WriteDone \/ WriteError
    BY <1>3 DEF Quiet, Unmoved, Arms, Persists, FabricLeft, CommandWritten, WriteDone, WriteError,
          core, history, answers
  <1>4. CASE CommissioningClosed
    <2>1. completing.fabric \in Index /\ table' = table /\ (Hangs \/ \E c : ClosesOf(c))
      BY <1>0, <1>4, ClosedEffect DEF core
    <2>2. CASE Hangs
      BY <2>1, <2>2 DEF Hangs, history, answers
    <2>3. CASE \E c : ClosesOf(c)
      BY <1>0, <2>1, <2>3, AnswerEffect
    <2> QED  BY <2>1, <2>2, <2>3
  <1>5. CASE command.op = "add" /\ command.index \in Index /\ Adds(command.index)
    <2>1. i # command.index
      BY <1>5 DEF Adds
    <2>2. table' = With(table, command.index, NewFabric) /\ confirmed'[i] = confirmed[i]
      BY <1>0, <1>5, <2>1 DEF Adds
    <2>3. table'[i] = table[i]
      BY <2>1, <2>2 DEF With
    <2> QED  BY <2>2, <2>3
  <1>6. CASE UpdateNocBuilt
    <2>1. confirmed' = confirmed /\ command.op = "update"
      BY <1>6 DEF UpdateNocBuilt, answers
    <2>2. CASE i # command.index
      BY <1>6, <2>1, <2>2 DEF UpdateNocBuilt
    <2>3. CASE i = command.index
      <3>1. ~Free(i)
        BY DEF Free
      <3>2. \E c \in failsafe : c.id = command.id /\ c.held
        BY <1>0, <1>6, <2>3, <3>1 DEF UpdateNocBuilt, Types, FlagTypes
      <3> QED  BY <1>6, <2>1, <2>3, <3>2
    <2> QED  BY <2>2, <2>3
  <1>7. CASE \E j \in Index : RemoveFabric(j)
    <2>1. PICK j \in Index : RemoveFabric(j)
      BY <1>7
    <2>2. CASE table' = Without(table, j)
      <3>1. DOMAIN table' = DOMAIN table \ {j}
        BY <1>0, <2>2, WithoutDomain
      <3>2. table'[i] = table[i]
        BY <2>2, <3>1 DEF Without
      <3> QED  BY <2>1, <3>2 DEF RemoveFabric, answers
    <2> QED  BY <2>1, <2>2 DEF RemoveFabric, answers
  <1> QED  BY <1>0, <1>1, <1>2, <1>3, <1>4, <1>5, <1>6, <1>7, Steps DEF Restarts

LEMMA NocsStep ==
    ASSUME Base, Nocs, [Next]_vars
    PROVE  Nocs'
  <1>0. /\ Types /\ Writers /\ Contexts /\ NoFabric \notin Index
        /\ table \in Tables /\ DOMAIN table' \subseteq Index
    <2>1. Types /\ Writers /\ Contexts /\ Types' /\ NoFabric \notin Index
      BY TypesStep DEF Base, NoFabric, Index
    <2>2. table \in Tables /\ table' \in Tables
      BY <2>1 DEF Types, FabricTypes
    <2> QED  BY <2>1, <2>2, Entries DEF Tables
  <1>1. CASE Crash
    <2>1. stored.fabrics \in Files /\ DOMAIN stored.fabrics \subseteq Index
      BY <1>0, Entries DEF Types, FabricTypes, Files
    <2>2. table' = [i \in DOMAIN stored.fabrics |-> [noc |-> stored.fabrics[i], tracked |-> TRUE]]
      BY <1>1 DEF Crash, Blank
    <2>3. \A i \in DOMAIN table' : status'[i] = "committed" => stored.fabrics[i] = confirmed[i]
      BY <1>1, <2>1, <2>2 DEF Crash
    <2>4. confirmed' = confirmed
      BY <1>1 DEF Crash, answers
    <2> QED  BY <2>2, <2>3, <2>4 DEF Nocs
  <1>2. CASE FactoryReset
    <2>1. \A i \in Index : status'[i] # "committed"
      BY <1>2 DEF FactoryReset
    <2> QED  BY <1>0, <2>1 DEF Nocs
  <1>3. CASE ~Restarts
    <2> SUFFICES ASSUME NEW i \in DOMAIN table', status'[i] = "committed",
                        table'[i].noc # confirmed'[i]
                 PROVE  \E d \in failsafe' : /\ d.index = i /\ d.update = "yes"
                                             /\ Guarded(d, completing') \/ d.stage \in {"pase", "network"}
      BY DEF Nocs, Unsettled
    <2>0. i \in Index
      BY <1>0
    <2>1. status[i] = "committed"
      <3>1. CASE Commits(i)
        <4>1. completing.fabric \in Index /\ table' = table
          BY <1>0, <3>1, ClosedEffect DEF Commits, core
        <4>2. confirmed'[i] = table[i].noc
          BY <1>0, <2>0, <3>1, <4>1, AnswerEffect DEF Commits
        <4> QED  BY <4>1, <4>2
      <3> QED  BY <1>0, <1>3, <2>0, <3>1, StatusStep
    <2>2. i \in DOMAIN table
      BY <2>0, <2>1 DEF Base, Stored
    <2>3. CASE UpdateNocBuilt /\ command.op = "update" /\ i = command.index
               /\ \E c \in failsafe : c.id = command.id /\ c.held
      <3>1. PICK c \in failsafe : c.id = command.id /\ c.held
        BY <2>3
      <3>2. c.index = i /\ c.update = "yes" /\ c.stage = "none"
        BY <1>0, <2>3, <3>1 DEF Contexts, Related
      <3>3. failsafe' = failsafe
        BY <2>3 DEF UpdateNocBuilt
      <3> QED  BY <3>1, <3>2, <3>3 DEF Guarded
    <2>4. CASE table'[i].noc = table[i].noc /\ confirmed'[i] = confirmed[i]
      <3>1. PICK c \in failsafe : c.index = i /\ Unsettled(c)
        BY <2>1, <2>2, <2>4 DEF Nocs
      <3>2. /\ c.update = "yes" /\ c.index # NoFabric /\ c.assoc = i
            /\ Guarded(c, completing) \/ c.stage \in {"pase", "network"}
            /\ c.stage \in {"none", "pase", "network"}
        BY <1>0, <2>0, <3>1 DEF Unsettled, Guarded, Contexts, Related
      <3>3. CASE RollsOrCloses(c)
        <4>1. Restores(c) /\ ~Revokes(c) /\ ~Free(c.assoc)
          BY <2>2, <3>1, <3>2 DEF Restores, Revokes, Free
        <4>2. ~PutsBack(c)
          <5> SUFFICES ASSUME PutsBack(c) PROVE FALSE
            OBVIOUS
          <5>1. table'[i] = c.assocFabric /\ c.assocFabric.noc = confirmed[i]
            BY <2>0, <3>2 DEF PutsBack, With
          <5> QED  BY <2>4, <5>1
        <4>3. GoesOn(c) /\ c.stage # "network"
          BY <3>2, <3>3, <4>1, <4>2 DEF RollsOrCloses, RollsBack, Ends, TakesOut, GoesOn
        <4>4. PICK d \in FailsafeContext :
                failsafe' = {d} /\ SameFabrics(c, d) /\ d.stage \in {"pase", "network"}
          BY <3>2, <4>3 DEF GoesOn, Moves
        <4> QED  BY <3>1, <3>2, <4>4 DEF SameFabrics
      <3>4. CASE CommissioningClosed /\ ClosesOf(c) /\ c.stage = "none"
        <4>1. completing.fabric = i /\ table' = table
          BY <1>0, <2>0, <3>2, <3>4, ClosedEffect DEF Contexts, Completed, ClosesOf, core
        <4>2. completing.persists
          BY <1>0, <3>2, <3>4, GuardedCloses
        <4>3. confirmed'[i] = table[i].noc
          BY <1>0, <2>0, <3>4, <4>1, <4>2, AnswerEffect
        <4> QED  BY <4>1, <4>3
      <3>5. CASE \E d \in failsafe' :
                   /\ d.index = c.index /\ d.update = c.update /\ d.stage = c.stage
                   /\ Guarded(c, completing) => Guarded(d, completing')
        BY <3>1, <3>2, <3>5
      <3> QED  BY <1>0, <1>3, <3>2, <3>3, <3>4, <3>5, ContextStays
    <2> QED  BY <1>3, <2>1, <2>2, <2>3, <2>4, NocStep
  <1> QED  BY <1>1, <1>2, <1>3 DEF Restarts

(* Whatever UpdateNOC, its failsafe, RevokeCommissioning and restarts do,  *)
(* a committed fabric whose certificate is another than the one it was     *)
(* committed with has a failsafe that is not over yet.                     *)
THEOREM CommittedNocStays == Spec => []NocSettled
  <1>1. Init => Nocs
    <2> SUFFICES ASSUME Init, NEW i \in DOMAIN table PROVE table[i].noc = confirmed[i]
      BY DEF Nocs
    <2>1. table = [j \in {1} |-> NewFabric] /\ i \in Index
      BY CommissioningAssumption DEF Init, Index
    <2> QED  BY <2>1 DEF Init, NewFabric
  <1>2. Base /\ Nocs /\ [Next]_vars => Nocs'
    BY NocsStep
  <1>3. Nocs => NocSettled
    BY DEF Nocs, NocSettled, Settled, Armed
  <1> QED  BY <1>1, <1>2, <1>3, BaseAlways, PTL DEF Spec

-----------------------------------------------------------------------------
(* Who looks at the table, and when *)

(* A step that tells the CommissioningServer nothing, and does not make    *)
(* the table empty unless it is a RemoveFabric that will.                  *)
Calm ==
    /\ UNCHANGED <<changes, commissioned, erasing, missed, refused, overtaken>>
    /\ \A c \in failsafe : \E d \in failsafe' : d.stage = c.stage /\ (d.monitored <=> c.monitored)
    /\ command.op = "removing" => command'.op = "removing"
    /\ command'.op = "removing" \/ (table' = <<>> <=> table = <<>>)

LEMMA CalmEffect ==
    ASSUME Types,
           \/ ArmFailSafe \/ OpenPase \/ OpenWindow \/ WindowEnds \/ CommissioningComplete
           \/ CommissioningPersisted \/ \E i \in Index : OpenCase(i) \/ RemoveFabric(i)
           \/ Requests \/ AddTrustedRootCertificate \/ UpdateNocBuilt \/ FabricLeft \/ WriteDone
           \/ UNCHANGED vars
           \/ RevokeCommissioning /\ ~\E c \in failsafe : c.stage = "none"
    PROVE  Calm
  <1>0. Nothing.op = "none" /\ \A c \in failsafe : c \in FailsafeContext /\ failsafe = {c}
    BY OneContext DEF Nothing
  <1>1. CASE ArmFailSafe \/ OpenPase
    <2>1. UNCHANGED <<after, history, command, table>> /\ (failsafe = {} \/ failsafe' = failsafe)
      BY <1>1 DEF ArmFailSafe, OpenPase, Armed, core
    <2> QED  BY <2>1 DEF Calm, after, history, answers
  <1>2. CASE \/ OpenWindow \/ WindowEnds \/ FabricLeft \/ WriteDone \/ UNCHANGED vars
             \/ RevokeCommissioning /\ ~\E c \in failsafe : c.stage = "none"
    BY <1>0, <1>2 DEF OpenWindow, WindowEnds, FabricLeft, WriteDone, RevokeCommissioning, vars, core,
          after, history, answers, Calm
  <1>3. CASE UpdateNocBuilt
    <2>1. table \in Tables /\ UNCHANGED <<after, answers, failsafe>> /\ command.op = "update"
      BY <1>3 DEF UpdateNocBuilt, Types, FabricTypes
    <2>2. DOMAIN table' = DOMAIN table
      BY <1>3 DEF UpdateNocBuilt
    <2>3. table' = <<>> <=> table = <<>>
      <3>1. DOMAIN <<>> = {} /\ (table = <<>> <=> DOMAIN table = {})
        BY <2>1, EmptyTable DEF Tables
      <3>2. CASE command.index \in DOMAIN table
        BY <2>2, <3>1, <3>2
      <3>3. CASE command.index \notin DOMAIN table
        BY <1>3, <3>3 DEF UpdateNocBuilt, Free
      <3> QED  BY <3>2, <3>3
    <2> QED  BY <2>1, <2>3 DEF Calm, after, answers
  <1>4. CASE \E i \in Index : RemoveFabric(i)
    BY <1>0, <1>4 DEF RemoveFabric, after, answers, Calm
  <1>5. CASE CommissioningComplete
    <2>1. PICK c \in failsafe, b \in BOOLEAN : failsafe' = {[Disarmed(c) EXCEPT !.held = b]}
      BY <1>5 DEF CommissioningComplete, Set
    <2> DEFINE d == [Disarmed(c) EXCEPT !.held = b]
    <2>2. d.stage = c.stage /\ d.monitored = c.monitored
      BY <1>0 DEF Disarmed, FailsafeContext
    <2> HIDE DEF d
    <2>3. failsafe' = {d} /\ failsafe = {c}
      BY <1>0, <2>1 DEF d
    <2> QED  BY <1>5, <2>2, <2>3 DEF CommissioningComplete, core, after, history, answers, Calm
  <1>6. CASE CommissioningPersisted
    <2> DEFINE E(c) == [c EXCEPT !.held = @ /\ c.id # completing.id]
    <2>1. \A c \in failsafe : E(c).stage = c.stage /\ E(c).monitored = c.monitored
      BY <1>0 DEF FailsafeContext
    <2>2. failsafe' = {E(c) : c \in failsafe}
      BY <1>6 DEF CommissioningPersisted
    <2> HIDE DEF E
    <2>3. \A c \in failsafe : \E d \in failsafe' : d.stage = c.stage /\ (d.monitored <=> c.monitored)
      BY <2>1, <2>2
    <2> QED  BY <1>6, <2>3 DEF CommissioningPersisted, core, after, history, answers, Calm
  <1>7. CASE \E i \in Index : OpenCase(i)
    <2>1. PICK i \in Index : OpenCase(i)
      BY <1>7
    <2> DEFINE E(c) == [c EXCEPT !.csr = IF @ = i THEN NoSession ELSE @]
    <2>2. \A c \in failsafe : E(c).stage = c.stage /\ E(c).monitored = c.monitored
      BY <1>0 DEF FailsafeContext
    <2>3. failsafe' = {E(c) : c \in failsafe}
      BY <2>1 DEF OpenCase
    <2> HIDE DEF E
    <2>4. \A c \in failsafe : \E d \in failsafe' : d.stage = c.stage /\ (d.monitored <=> c.monitored)
      BY <2>2, <2>3
    <2> QED  BY <2>1, <2>4 DEF OpenCase, core, after, history, answers, Calm
  <1>8. CASE AddTrustedRootCertificate
    <2>1. PICK c \in failsafe : failsafe' = {[c EXCEPT !.root = TRUE]}
      BY <1>8 DEF AddTrustedRootCertificate, Set
    <2>2. LET d == [c EXCEPT !.root = TRUE] IN d.stage = c.stage /\ (d.monitored <=> c.monitored)
      BY <1>0 DEF FailsafeContext
    <2> QED  BY <1>0, <1>8, <2>1, <2>2 DEF AddTrustedRootCertificate, core, after, history, answers,
                Calm
  <1>9. CASE Requests
    <2>1. UNCHANGED <<after, history, table>> /\ command = Nothing
      BY <1>9 DEF Requests, CsrRequest, AddNoc, UpdateNoc, core
    <2>2. PICK c \in failsafe :
            \E s, u, i : failsafe' \in {{[c EXCEPT !.csr = s, !.update = u]}, {[c EXCEPT !.index = i]}}
      BY <1>9 DEF Requests, CsrRequest, AddNoc, UpdateNoc, Set
    <2>3. PICK s, u, i : failsafe' \in {{[c EXCEPT !.csr = s, !.update = u]}, {[c EXCEPT !.index = i]}}
      BY <2>2
    <2> DEFINE d == [c EXCEPT !.csr = s, !.update = u]
               e == [c EXCEPT !.index = i]
    <2>4. d.stage = c.stage /\ d.monitored = c.monitored
      BY <1>0 DEF FailsafeContext
    <2>5. e.stage = c.stage /\ e.monitored = c.monitored
      BY <1>0 DEF FailsafeContext
    <2>6. failsafe' = {d} \/ failsafe' = {e}
      BY <2>3
    <2> HIDE DEF d, e
    <2>7. failsafe = {c}
      BY <1>0
    <2>8. \E x \in failsafe' : x.stage = c.stage /\ (x.monitored <=> c.monitored)
      BY <2>4, <2>5, <2>6
    <2> QED  BY <1>0, <2>1, <2>7, <2>8 DEF after, history, answers, Calm
  <1> QED  BY <1>1, <1>2, <1>3, <1>4, <1>5, <1>6, <1>7, <1>8, <1>9

LEMMA AfterSteps ==
    ASSUME Types, [Next]_vars
    PROVE  \/ Calm \/ \E c \in failsafe : RollsOrCloses(c)
           \/ CommissioningClosed \/ AddNocBuilt \/ CommandWritten \/ HandleFabricChange
           \/ WriteError \/ Crash \/ FactoryReset
  <1>1. CASE RevokeCommissioning /\ \E c \in failsafe : c.stage = "none"
    <2>1. PICK c \in failsafe : c.stage = "none" /\ Close(c)
      BY <1>1, OneContext DEF RevokeCommissioning
    <2> QED  BY <1>1, <2>1, CloseEffect DEF RevokeCommissioning, RollsOrCloses
  <1>2. CASE Expire
    <2>1. PICK c \in failsafe : c.timer /\ c.stage = "none" /\ Close(c) /\ completing' = completing
      BY <1>2 DEF Expire
    <2> QED  BY <2>1, CloseEffect DEF RollsOrCloses
  <1>3. CASE Rollback
    BY <1>3, RollbackEffect DEF RollsOrCloses
  <1> QED  BY <1>1, <1>2, <1>3, CalmEffect DEF Next, Requests, Completion, CommandSteps

LEMMA DestroyedErases ==
    ASSUME NEW c, Destroyed(c), erasing'
    PROVE  erasing \/ table = <<>>
  BY DEF Destroyed, Recheck

(* What was refused or overtaken remains so, and a factory reset is begun  *)
(* only for an empty table.                                                *)
LEMMA FlagsStep ==
    ASSUME Types, [Next]_vars
    PROVE  /\ refused => refused'
           /\ overtaken => overtaken'
           /\ ~Restarts /\ erasing' => erasing \/ table = <<>>
  <1>1. CASE Calm
    BY <1>1 DEF Calm
  <1>2. CASE \E c \in failsafe : RollsOrCloses(c)
    BY <1>2, DestroyedErases DEF RollsOrCloses, RollsBack, Ends, TakesOut, PutsBack, GoesOn
  <1>3. CASE CommissioningClosed
    <2>1. CASE Hangs
      BY <2>1 DEF Hangs, history, answers
    <2>2. CASE \E c : ClosesOf(c)
      <3>1. PICK c, j : ClosesOf(c) /\ Answered(completing.fabric, j)
        BY <2>2 DEF ClosesOf
      <3>2. refused' = refused /\ (overtaken => overtaken')
        BY <3>1 DEF Answered
      <3>3. erasing' => erasing \/ table = <<>>
        BY <3>1, DestroyedErases DEF ClosesOf
      <3> QED  BY <3>2, <3>3
    <2> QED  BY <1>3, <2>1, <2>2, ClosedEffect
  <1>4. CASE AddNocBuilt \/ CommandWritten
    BY <1>4 DEF AddNocBuilt, CommandWritten
  <1>5. CASE HandleFabricChange
    BY <1>5 DEF HandleFabricChange, Recheck, history, answers
  <1>6. CASE WriteError
    BY <1>6, DestroyedErases DEF WriteError
  <1>7. CASE Restarts
    BY <1>7 DEF Restarts, Crash, FactoryReset, answers
  <1> QED  BY <1>1, <1>2, <1>3, <1>4, <1>5, <1>6, <1>7, AfterSteps DEF Restarts

LEMMA WatchedStep ==
    ASSUME Types, FailsafeWatched, [Next]_vars
    PROVE  FailsafeWatched'
  <1> SUFFICES ASSUME ~refused', NEW d \in failsafe'
               PROVE  \/ d.timer \/ d.stage # "none"
                      \/ completing' # Nothing /\ completing'.id = d.id
    BY DEF FailsafeWatched
  <1>0. /\ \A c \in failsafe : \/ c.timer \/ c.stage # "none"
                               \/ completing # Nothing /\ completing.id = c.id
        /\ Nothing.op = "none" /\ completing \in Completions
    BY FlagsStep DEF FailsafeWatched, Nothing, Types, ContextTypes
  <1>1. CASE Quiet
    BY <1>0, <1>1 DEF Quiet, Unmoved, Alike, SameFabrics
  <1>2. CASE Arms
    BY <1>2 DEF Arms
  <1>3. CASE \E c \in failsafe : RollsOrCloses(c)
    BY <1>3 DEF RollsOrCloses, RollsBack, Ends, TakesOut, PutsBack, GoesOn, Moves, Destroyed
  <1>4. CASE \E c \in failsafe, x \in FailsafeContext : Asks(c, x)
    BY <1>0, <1>4 DEF Asks
  <1>5. CASE \E c \in failsafe, x \in FailsafeContext : Completing(c, x)
    BY <1>5 DEF Completing, SameFabrics
  <1>6. CASE Persists
    BY <1>0, <1>6 DEF Persists, Persisted, SameFabrics
  <1>7. CASE CommissioningClosed
    <2>1. CASE Hangs
      BY <1>0, <2>1 DEF Hangs
    <2>2. CASE \E c : ClosesOf(c)
      BY <2>2, OneContext DEF ClosesOf, Destroyed
    <2> QED  BY <1>7, <2>1, <2>2, ClosedEffect
  <1>8. CASE command.op = "add" /\ command.index \in Index /\ Adds(command.index)
    BY <1>0, <1>8 DEF Adds
  <1>9. CASE UpdateNocBuilt \/ FabricLeft \/ CommandWritten \/ WriteDone
    BY <1>0, <1>9 DEF UpdateNocBuilt, FabricLeft, CommandWritten, WriteDone
  <1>10. CASE \E i \in Index : RemoveFabric(i)
    <2>1. /\ completing # Nothing => completing' # Nothing /\ completing'.id = completing.id
          /\ failsafe' = failsafe
      BY <1>0, <1>10 DEF RemoveFabric, Completions, Nothing
    <2> QED  BY <1>0, <2>1
  <1>11. CASE WriteError
    BY <1>11 DEF WriteError
  <1>12. CASE Crash \/ FactoryReset
    BY <1>12 DEF Crash, FactoryReset, Blank
  <1> QED  BY <1>1, <1>2, <1>3, <1>4, <1>5, <1>6, <1>7, <1>8, <1>9, <1>10, <1>11, <1>12, Steps

(* As long as the storage takes its writes every failsafe that is armed    *)
(* has something that will end it: complete() stops the timers of a        *)
(* context only for a completion that is under way.                        *)
THEOREM FailsafeIsWatched == Spec => []FailsafeWatched
  <1>1. Init => FailsafeWatched
    BY DEF Init, FailsafeWatched
  <1>2. Base /\ FailsafeWatched /\ [Next]_vars => FailsafeWatched'
    BY WatchedStep DEF Base
  <1> QED  BY <1>1, <1>2, BaseAlways, PTL DEF Spec

(* The reset that would erase a committed fabric was begun before it was   *)
(* committed.                                                              *)
Erasures ==
    \A i \in Index :
        status[i] = "erased" \/ (erasing /\ status[i] = "committed") => overtaken

LEMMA ErasuresStep ==
    ASSUME Base, Erasures, [Next]_vars
    PROVE  Erasures'
  <1> SUFFICES ASSUME NEW i \in Index, ~overtaken',
                      status'[i] = "erased" \/ (erasing' /\ status'[i] = "committed")
               PROVE  FALSE
    BY DEF Erasures
  <1>0. Types /\ Contexts /\ ~overtaken
    BY FlagsStep DEF Base
  <1>1. CASE Crash
    BY <1>1 DEF Crash, Blank
  <1>2. CASE FactoryReset
    <2>1. status[i] = "committed" /\ erasing
      BY <1>2 DEF FactoryReset, GoingOffline, Blank
    <2> QED  BY <1>0, <2>1 DEF Erasures
  <1>3. CASE ~Restarts
    <2>1. erasing' /\ status'[i] = "committed"
      BY <1>0, <1>3, StatusStep DEF Erasures
    <2>2. erasing \/ table = <<>>
      BY <1>0, <1>3, <2>1, FlagsStep
    <2>3. i \in DOMAIN table => table # <<>>
      BY EmptyTable
    <2>4. CASE status[i] = "committed"
      BY <1>0, <2>2, <2>3, <2>4 DEF Base, Stored, Erasures
    <2>5. CASE Commits(i)
      <3>1. PICK c : ClosesOf(c)
        BY <2>5 DEF Commits
      <3>2. completing.fabric \in Index /\ i = completing.fabric
        BY <1>0, <2>5, ClosedEffect DEF Commits
      <3>3. completing.persists /\ ~completing.disturbed
        BY <2>5 DEF Commits
      <3>4. ~Free(i) /\ ~erasing
        BY <1>0, <3>1, <3>2, <3>3, AnswerEffect
      <3> QED  BY <2>2, <2>3, <3>4 DEF Free
    <2> QED  BY <1>0, <1>3, <2>1, <2>4, <2>5, StatusStep
  <1> QED  BY <1>1, <1>2, <1>3 DEF Restarts

(* A factory reset erases a committed fabric only when the fabric was      *)
(* committed while the reset waited for the sessions to close: it is never *)
(* begun (CommissioningServer's reaction to the end of a failsafe or the   *)
(* removal of a fabric) while there is a fabric in the table.              *)
THEOREM ResetErasesNothingBefore == Spec => []NeverErased
  <1>1. Init => Erasures
    BY DEF Init, Erasures
  <1>2. Base /\ Erasures /\ [Next]_vars => Erasures'
    BY ErasuresStep
  <1>3. Erasures => NeverErased
    BY DEF Erasures, NeverErased
  <1> QED  BY <1>1, <1>2, <1>3, BaseAlways, PTL DEF Spec

(* A fabric event that makes the CommissioningServer look at the table *)
Announced(events) == \E n \in 1 .. Len(events) : events[n].action # "updated"

LEMMA AnnounceEffect ==
    ASSUME changes \in Seq(Change), NEW action, NEW i, changes' = Announce(action, i)
    PROVE  Announced(changes) \/ action # "updated" => Announced(changes')
  <1> DEFINE e == [action |-> action, index |-> i]
  <1>1. /\ Len(changes) \in Nat /\ Len(changes') = Len(changes) + 1 /\ changes'[Len(changes) + 1] = e
        /\ \A n \in 1 .. Len(changes) : changes'[n] = changes[n]
    BY DEF Announce
  <1>2. e.action = action
    OBVIOUS
  <1> HIDE DEF e
  <1> QED  BY <1>1, <1>2 DEF Announced

(* When the node is wrong about being commissioned somebody has still to   *)
(* look: an event's reactor, the listener of a failsafe, a rollback or a   *)
(* RemoveFabric that will announce what it took out.                       *)
Agrees ==
    \/ commissioned <=> table # <<>>
    \/ missed \/ refused \/ Announced(changes)
    \/ \E c \in failsafe : c.monitored \/ c.stage \in {"revoking", "revokingAgain"}
    \/ command.op = "removing"

LEMMA RollsAgree ==
    ASSUME Types, Agrees, NEW c \in failsafe, RollsOrCloses(c)
    PROVE  Agrees'
  <1>0. /\ changes \in Seq(Change) /\ table \in Tables /\ failsafe = {c} /\ c \in FailsafeContext
        /\ UNCHANGED <<missed, refused, command>>
    BY OneContext DEF Types, FabricTypes, RollsOrCloses, RollsBack
  <1>1. Announced(changes) \/ c.stage \in {"revoking", "revokingAgain"} => Announced(changes')
    <2>1. c.stage \in {"revoking", "revokingAgain"} => changes' = Announce("removed", c.index)
      BY DEF RollsOrCloses, RollsBack
    <2>2. c.stage = "restoring" => changes' = Announce("updated", c.assoc)
      BY DEF RollsOrCloses, RollsBack
    <2>3. changes' = changes \/ c.stage \in {"revoking", "revokingAgain", "restoring"}
      BY DEF RollsOrCloses, RollsBack
    <2> QED  BY <1>0, <2>1, <2>2, <2>3, AnnounceEffect
  <1>2. CASE Ends(c)
    <2>1. IF c.monitored THEN commissioned' = (table # <<>>) ELSE commissioned' = commissioned
      BY <1>2 DEF Ends, Destroyed, Recheck
    <2>2. table' = table
      BY <1>2 DEF Ends
    <2> QED  BY <1>0, <1>1, <2>1, <2>2 DEF Agrees
  <1>3. CASE TakesOut(c)
    BY <1>3 DEF TakesOut, Moves, Agrees
  <1>4. CASE PutsBack(c) \/ GoesOn(c)
    <2>1. commissioned' = commissioned /\ \E d \in failsafe' : d.monitored = c.monitored
      BY <1>4 DEF PutsBack, GoesOn, Moves
    <2>2. table' = <<>> <=> table = <<>>
      <3>1. CASE GoesOn(c)
        BY <3>1 DEF GoesOn
      <3>2. CASE PutsBack(c)
        <4>1. table' = With(table, c.assoc, c.assocFabric) /\ c.assoc \in DOMAIN table
          BY <3>2 DEF PutsBack, Free
        <4>2. c.assoc \in DOMAIN table'
          BY <4>1 DEF With
        <4> QED  BY <4>1, <4>2, EmptyTable
      <3> QED  BY <1>4, <3>1, <3>2
    <2> QED  BY <1>0, <1>1, <2>1, <2>2 DEF Agrees
  <1> QED  BY <1>2, <1>3, <1>4 DEF RollsOrCloses, RollsBack

LEMMA AgreesStep ==
    ASSUME Types, Agrees, [Next]_vars
    PROVE  Agrees'
  <1>0. /\ changes \in Seq(Change) /\ table \in Tables /\ Nothing.op = "none"
        /\ \A c \in failsafe : failsafe = {c} /\ c \in FailsafeContext
    BY OneContext DEF Types, FabricTypes, Nothing
  <1>1. CASE Calm
    BY <1>1 DEF Calm, Agrees
  <1>2. CASE \E c \in failsafe : RollsOrCloses(c)
    BY <1>2, RollsAgree
  <1>3. CASE CommissioningClosed
    <2>1. UNCHANGED <<table, command, changes, missed>>
      BY <1>3, ClosedEffect DEF core
    <2>2. CASE Hangs
      BY <2>1, <2>2 DEF Hangs, history, answers, Agrees
    <2>3. CASE \E c : ClosesOf(c)
      <3>1. PICK c : ClosesOf(c)
        BY <2>3
      <3>2. c \in failsafe /\ refused' = refused
        BY <3>1 DEF ClosesOf, Answered
      <3>3. CASE failsafe' = failsafe /\ commissioned' = commissioned
        BY <2>1, <3>2, <3>3 DEF Agrees
      <3>4. CASE c.stage = "none" /\ Destroyed(c)
        <4>1. IF c.monitored THEN commissioned' = (table # <<>>) ELSE commissioned' = commissioned
          BY <3>4 DEF Destroyed, Recheck
        <4> QED  BY <1>0, <2>1, <3>2, <3>4, <4>1 DEF Agrees
      <3> QED  BY <3>1, <3>3, <3>4 DEF ClosesOf
    <2> QED  BY <1>3, <2>2, <2>3, ClosedEffect
  <1>4. CASE AddNocBuilt
    BY <1>0, <1>4, AnnounceEffect DEF AddNocBuilt, Agrees
  <1>5. CASE CommandWritten
    <2>1. /\ UNCHANGED <<table, failsafe, commissioned, missed, refused>>
          /\ \/ command.op = "removing" /\ changes' = Announce("removed", command.index)
             \/ command.op # "removing" /\ changes' = Announce("updated", command.index)
      BY <1>5 DEF CommandWritten, Dropped, core
    <2>2. Announced(changes) \/ command.op = "removing" => Announced(changes')
      BY <1>0, <2>1, AnnounceEffect
    <2> QED  BY <2>1, <2>2 DEF Agrees
  <1>6. CASE HandleFabricChange
    <2>1. UNCHANGED <<table, command, refused>> /\ changes # <<>> /\ changes' = Tail(changes)
      BY <1>6 DEF HandleFabricChange, core, history, answers
    <2>2. \/ commissioned' = (table # <<>>)
          \/ /\ commissioned' = commissioned
             /\ missed => missed'
             /\ \/ missed'
                \/ Head(changes).action = "updated"
                \/ \E d \in failsafe' : d.monitored
             /\ \A c \in failsafe : \E d \in failsafe' :
                    d.stage = c.stage /\ (c.monitored => d.monitored)
      <3> DEFINE own == Owned(Head(changes).index)
                 M(c) == [c EXCEPT !.monitored = TRUE]
      <3>1. CASE own /\ (Head(changes).action = "removed" \/ ~Armed)
        BY <1>6, <3>1 DEF HandleFabricChange, Recheck
      <3>2. CASE ~own
        <4>1. /\ commissioned' = commissioned /\ failsafe' = failsafe
              /\ missed' = (missed \/ (Head(changes).action # "updated"))
          BY <1>6, <3>2 DEF HandleFabricChange
        <4>2. missed => missed'
          BY <4>1
        <4>3. missed' \/ Head(changes).action = "updated"
          BY <4>1
        <4> QED  BY <4>1, <4>2, <4>3
      <3>3. CASE own /\ ~(Head(changes).action = "removed" \/ ~Armed)
        <4>1. /\ commissioned' = commissioned /\ missed' = (missed \/ FALSE)
              /\ failsafe' = {M(c) : c \in failsafe} /\ failsafe # {}
          BY <1>6, <3>3 DEF HandleFabricChange, Armed
        <4>2. \A c \in failsafe : M(c).stage = c.stage /\ M(c).monitored
          BY <1>0 DEF FailsafeContext
        <4> HIDE DEF M
        <4>3. missed => missed'
          BY <4>1
        <4> QED  BY <4>1, <4>2, <4>3
      <3> QED  BY <3>1, <3>2, <3>3
    <2>3. Announced(changes) => Announced(changes') \/ Head(changes).action # "updated"
      <3>1. /\ Len(changes') = Len(changes) - 1 /\ Len(changes) \in Nat \ {0}
            /\ \A n \in 1 .. Len(changes) - 1 : changes'[n] = changes[n + 1]
            /\ Head(changes) = changes[1]
        BY <1>0, <2>1
      <3>2. ASSUME NEW n \in 1 .. Len(changes), changes[n].action # "updated", n # 1
            PROVE  n - 1 \in 1 .. Len(changes') /\ changes'[n - 1].action # "updated"
        BY <3>1, <3>2
      <3> QED  BY <3>1, <3>2 DEF Announced
    <2> QED  BY <2>1, <2>2, <2>3 DEF Agrees
  <1>7. CASE WriteError
    BY <1>7 DEF WriteError, Agrees
  <1>8. CASE Crash \/ FactoryReset
    <2>1. PICK fabrics, next : /\ fabrics \in Files /\ next \in Index /\ Blank(fabrics, next)
      <3>1. CASE Crash
        BY <3>1 DEF Crash, Types, FabricTypes
      <3>2. CASE FactoryReset
        <4>1. <<>> \in Files /\ 1 \in Index
          BY EmptyTable, CommissioningAssumption DEF Files, Index
        <4> QED  BY <3>2, <4>1 DEF FactoryReset
      <3> QED  BY <1>8, <3>1, <3>2
    <2>2. commissioned' = (fabrics # <<>>) /\ DOMAIN table' = DOMAIN fabrics /\ table' \in Tables
      BY <2>1, BlankTypes DEF Blank
    <2>3. fabrics = <<>> <=> table' = <<>>
      BY <2>1, <2>2, EmptyTable DEF Files, Tables
    <2> QED  BY <2>2, <2>3 DEF Agrees
  <1> QED  BY <1>1, <1>2, <1>3, <1>4, <1>5, <1>6, <1>7, <1>8, AfterSteps

(* Once no failsafe, command or event is left to react to, the node calls  *)
(* itself commissioned exactly when it has fabrics, unless a reactor       *)
(* failed because another fabric's failsafe was armed or the storage       *)
(* refused a write.                                                        *)
THEOREM CommissionedIsRight == Spec => []CommissionedAgrees
  <1>1. Init => Agrees
    BY DEF Init, Agrees
  <1>2. Base /\ Agrees /\ [Next]_vars => Agrees'
    BY AgreesStep DEF Base
  <1>3. Base /\ Agrees => CommissionedAgrees
    <2> SUFFICES ASSUME Base, Agrees, Settled, changes = <<>>, ~missed, ~refused
                 PROVE  commissioned = (table # <<>>)
      BY DEF CommissionedAgrees
    <2>1. failsafe = {} /\ command.op = "none" /\ Len(changes) = 0
      BY DEF Settled, Armed, Nothing
    <2>2. ~Announced(changes)
      BY <2>1 DEF Announced
    <2>3. commissioned <=> table # <<>>
      BY <2>1, <2>2 DEF Agrees
    <2>4. commissioned \in BOOLEAN
      BY DEF Base, Types, FlagTypes
    <2> QED  BY <2>3, <2>4
  <1> QED  BY <1>1, <1>2, <1>3, BaseAlways, PTL DEF Spec

=============================================================================
