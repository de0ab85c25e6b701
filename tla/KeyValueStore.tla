--------------------------- MODULE KeyValueStore ---------------------------
(***************************************************************************)
(* What a storage backend promises to those who use it (the interface      *)
(* Storage behind StorageContext): set(), delete() and clearAll() may      *)
(* overlap.  The sets of one key take effect in the order of the calls,    *)
(* each at one moment between its call and its answer; a set that was      *)
(* refused has no effect and takes those that wait behind it with it.  A   *)
(* removal takes effect on each of its keys at one moment between its call *)
(* and its answer.  What took effect survives a crash.                     *)
(*                                                                         *)
(* A set writes the number of its call, so every value is distinct.        *)
(***************************************************************************)
EXTENDS Naturals, Sequences

CONSTANTS Key, MaxCalls     \* bound: calls

Call == 1 .. MaxCalls
None == 0

VARIABLES
    store,      \* the value of every key, or None
    pending,    \* for every key the sets that have not taken effect, in order
    called,     \* calls so far
    kind,       \* set, delete or clear, for every call
    state,      \* new, open, and once it is answered ok, failed or lost
    todo,       \* the keys a removal has still to take effect on
    refused     \* calls that will fail

kvars == <<store, pending, called, kind, state, todo, refused>>

Removal == {"delete", "clear"}
Waiting(k) == {pending[k][n] : n \in DOMAIN pending[k]}

Init ==
    /\ store = [k \in Key |-> None] /\ pending = [k \in Key |-> <<>>]
    /\ called = 0 /\ kind = [c \in Call |-> "set"]
    /\ state = [c \in Call |-> "new"]
    /\ todo = [c \in Call |-> {}] /\ refused = {}

Invoke(what, K) ==
    /\ called < MaxCalls /\ called' = called + 1
    /\ kind' = [kind EXCEPT ![called'] = what]
    /\ state' = [state EXCEPT ![called'] = "open"]
    /\ todo' = [todo EXCEPT ![called'] = IF what = "set" THEN {} ELSE K]
    /\ pending' = [k \in Key |->
           IF what = "set" /\ k \in K THEN Append(pending[k], called') ELSE pending[k]]
    /\ UNCHANGED <<store, refused>>

(* The oldest set of a key takes effect. *)
TakeEffect(k) ==
    /\ pending[k] # <<>>
    /\ store' = [store EXCEPT ![k] = Head(pending[k])]
    /\ pending' = [pending EXCEPT ![k] = Tail(@)]
    /\ UNCHANGED <<called, kind, state, todo, refused>>

(* A set is refused, and with it those behind it and the removals that     *)
(* waited for it.                                                          *)
Refuse(k) ==
    /\ pending[k] # <<>>
    /\ pending' = [pending EXCEPT ![k] = <<>>]
    /\ \E R \in SUBSET {c \in Call : kind[c] \in Removal /\ state[c] = "open"} :
           refused' = refused \cup Waiting(k) \cup R
    /\ UNCHANGED <<store, called, kind, state, todo>>

Remove(c, K) ==
    /\ state[c] = "open" /\ kind[c] \in Removal /\ K \subseteq todo[c]
    /\ store' = [k \in Key |-> IF k \in K THEN None ELSE store[k]]
    /\ todo' = [todo EXCEPT ![c] = @ \ K]
    /\ UNCHANGED <<pending, called, kind, state, refused>>

Answer(c) ==
    /\ state[c] = "open" /\ \A k \in Key : c \notin Waiting(k)
    /\ \/ c \notin refused /\ todo[c] = {} /\ state' = [state EXCEPT ![c] = "ok"]
       \/ c \in refused /\ state' = [state EXCEPT ![c] = "failed"]
    /\ todo' = [todo EXCEPT ![c] = {}]
    /\ UNCHANGED <<store, pending, called, kind, refused>>

Crash ==
    /\ pending' = [k \in Key |-> <<>>]
    /\ state' = [c \in Call |-> IF state[c] = "open" THEN "lost" ELSE state[c]]
    /\ todo' = [c \in Call |-> {}]
    /\ UNCHANGED <<store, called, kind, refused>>

Next ==
    \/ \E K \in SUBSET Key, what \in {"set", "delete", "clear"} : Invoke(what, K)
    \/ \E k \in Key : TakeEffect(k) \/ Refuse(k)
    \/ \E c \in Call : Answer(c) \/ \E K \in SUBSET Key : Remove(c, K)
    \/ Crash

Spec == Init /\ [][Next]_kvars

=============================================================================
