------------------------------ MODULE Sessions ------------------------------
(***************************************************************************)
(* Secure sessions, their channels and the table of exchanges              *)
(* (SessionManager.ts, SecureSession.ts, ChannelManager.ts,                *)
(* ExchangeManager.ts).                                                    *)
(*                                                                         *)
(* A message finds its exchange in the table by exchange id alone, else it *)
(* begins one on a channel of its session.  A peer keeps a few channels; a *)
(* further one makes the manager end the session that was active least,    *)
(* and the message waits for that.  A session may also end by itself, at   *)
(* once or after its exchange.                                             *)
(*                                                                         *)
(* Ending a session waits for its subscriptions, then for a sweep that     *)
(* destroys its exchanges one by one, then for a close message; other code *)
(* runs in every one of these waits.  The channels of the session are      *)
(* closed last.  Timestamps are left out: any session may be the one       *)
(* active least.  Session ids are distinct: the 65535 of them are not      *)
(* exhausted.  Channels of PASE sessions have no limit and are left out,   *)
(* and so is the exchange that carries a close message.                    *)
(***************************************************************************)
EXTENDS Naturals, Sequences, FiniteSets

CONSTANTS
    Session, Pase,      \* secure sessions, and those of them from a passcode
    Peer, NoPeer,       \* the nodes they are with
    PeerId,             \* exchange ids a peer chooses
    MaxPerSession,      \* 5: MAXIMUM_CONCURRENT_EXCHANGES_PER_SESSION
    MaxChannels,        \* 3: #caseSessionsPerFabricAndNode
    MaxExchanges,       \* bound: exchanges
    MaxEnds             \* bound: calls that end a session

ASSUME SessionsAssumption ==
    /\ Pase \subseteq Session /\ NoPeer \notin Peer
    /\ {MaxPerSession, MaxChannels} \subseteq Nat \ {0} /\ {MaxExchanges, MaxEnds} \subseteq Nat

Exchange == 1 .. MaxExchanges
Free == 0

(* The index of an exchange: the ids of the peers and our own are apart.   *)
Index == (PeerId \X {"peer"}) \cup (Exchange \X {"own"})

VARIABLES
    peer,       \* the peer of every session established so far
    delayed,    \* closingAfterExchangeFinished
    quiet,      \* not sendCloseMessageWhenClosing
    sent,       \* the exchange ids each session has used
    ending,     \* calls of destroy() that wait for the subscriptions;
                \*   then: the exchange that waits for the call
    closing,    \* calls of destroy() that wait for the closer of their session
    ends,       \* calls that end a session so far
    begun,      \* exchanges so far, those to be made included
    net         \* what closing an exchange may change:
                \*   listed: sessions, those a message can find; swept: closedByExchange;
                \*   sweep: how far the destruction of a session's exchanges is;
                \*   channels: of every peer, latest last, each watched if it will be
                \*   closed with its session; table: the exchange at every
                \*   index, or Free; exchanges: every exchange

vars == <<peer, delayed, quiet, sent, ending, closing, ends, begun, net>>

(* place: the place in the map; late: begun after the session had ended    *)
(* (history).                                                              *)
ExchangeState ==
    [session : Session, at : Index, place : Nat, late : BOOLEAN,
     state : {"open", "acking", "draining", "closed"}]
Unused == [state |-> "none"]

(* An exchange to make, to handle a message or only to acknowledge it *)
Opening == [id : Exchange, session : Session, at : Index, state : {"open", "acking"}]
Nothing == [state |-> "none"]

(* A sweep that is on destroys the exchange at (Free: it has been through  *)
(* all of them).  It is awaited by the deletion of an index, or else it is *)
(* the closer of its session.                                              *)
NoIndex == <<0, "none">>
SweepState == [on : BOOLEAN, at : Exchange \cup {Free}, index : Index \cup {NoIndex}]
NoSweep == [on |-> FALSE, at |-> Free, index |-> NoIndex]

Init ==
    /\ peer = [s \in Session |-> NoPeer] /\ delayed = {} /\ quiet = {}
    /\ sent = {} /\ ending = {} /\ closing = {} /\ ends = 0 /\ begun = 0
    /\ net = [listed |-> {}, swept |-> {}, sweep |-> [s \in Session |-> NoSweep],
              channels |-> [p \in Peer |-> <<>>],
              table |-> [i \in Index |-> Free], exchanges |-> [e \in Exchange |-> Unused]]

InTable(n) == {n.table[i] : i \in {j \in Index : n.table[j] # Free}}
Of(n, s) == {e \in InTable(n) : n.exchanges[e].session = s}
Active(n, s) == {e \in Of(n, s) : n.exchanges[e].state \in {"open", "acking"}}

-----------------------------------------------------------------------------
(* Closing exchanges and sessions. *)

Closed(n, e) == [n EXCEPT !.exchanges[e].state = "closed"]

Removed(n, I) ==
    [n EXCEPT !.table = [i \in Index |-> IF i \in I THEN Free ELSE n.table[i]]]

StillOpen(n, s) == n                \* as a bug: channels outlive their session

Sessions(row) == {row[k].session : k \in DOMAIN row}

(* removeChannel(): the first channel of session s in a row *)
Without(row, s) ==
    IF s \notin Sessions(row) THEN row
    ELSE LET first == CHOOSE k \in DOMAIN row :
                         row[k].session = s /\ \A j \in 1 .. k - 1 : row[j].session # s
         IN  [k \in 1 .. Len(row) - 1 |-> row[IF k < first THEN k ELSE k + 1]]

(* destroyed: the channel is closed, if it listens *)
HungUp(n, s) ==
    [n EXCEPT !.channels[peer[s]] =
        IF \E k \in DOMAIN @ : @[k].session = s /\ @[k].watched THEN Without(@, s) ELSE @]

(* The close message of a session that ends later finds no channel any     *)
(* more: getChannelForSession() throws, unless the session is PASE.        *)
CloseFails(s) == s \in delayed /\ s \notin Pase /\ s \notin quiet

First(n, E) == CHOOSE e \in E : \A f \in E : n.exchanges[e].place <= n.exchanges[f].place

(* The exchange of session s that a loop over the map finds next           *)
FirstOf(n, s, E) == IF E = {} THEN Free ELSE First(n, E)
Following(n, s, e) ==
    FirstOf(n, s, {f \in Of(n, s) : n.exchanges[f].place > n.exchanges[e].place})

NotSwept(n, s, i) == n              \* as a bug: the exchanges of a session stay

(* As a bug: the exchanges of a session are forgotten and not closed. *)
OnlyForgotten(n, s, i) ==
    [Removed(n, {j \in Index : n.table[j] \in Of(n, s)}) EXCEPT !.swept = @ \cup {s}]

(* #closeSession() begins: it will destroy the exchanges of the session.   *)
CloseSession(n, s, i) ==
    IF s \in n.swept THEN n
    ELSE [n EXCEPT !.swept = @ \cup {s},
                   !.sweep[s] = [on |-> TRUE, at |-> FirstOf(n, s, Of(n, s)), index |-> i]]

OnlyRemoved(n, i) == Removed(n, {i})    \* as a bug: delayed sessions are forgotten

(* deleteExchange(): whatever is at the index, but the session is closed   *)
(* first if that is due.                                                   *)
DeleteExchange(n, i) ==
    IF n.table[i] = Free THEN n
    ELSE LET s == n.exchanges[n.table[i]].session
         IN  IF s \in delayed \ n.swept THEN CloseSession(n, s, i) ELSE Removed(n, {i})

Close(n, e) == DeleteExchange(Closed(n, e), n.exchanges[e].at)

Drain(n, e) == [n EXCEPT !.exchanges[e].state = "draining"]

-----------------------------------------------------------------------------
(* New exchanges. *)

(* As a bug: one exchange too many stays. *)
OldestOfMore(n, s) == IF Cardinality(Active(n, s)) <= MaxPerSession + 1 THEN {}
                      ELSE {First(n, Active(n, s))}

(* The exchange that has to give way *)
Oldest(n, s) == IF Cardinality(Active(n, s)) <= MaxPerSession THEN {}
                ELSE {First(n, Active(n, s))}

Added(n, o) ==
    LET made == Cardinality({e \in Exchange : n.exchanges[e] # Unused})
        place == IF n.table[o.at] = Free THEN made ELSE n.exchanges[n.table[o.at]].place
    IN  [n EXCEPT !.table[o.at] = o.id,
                  !.exchanges[o.id] = [session |-> o.session, at |-> o.at, state |-> o.state,
                                       place |-> place, late |-> o.session \notin n.listed]]

AddExchange(n, o) ==
    LET more == Added(n, o)
        old == Oldest(more, o.session)
    IN  IF old = {} THEN {more}
        ELSE {Close(more, e) : e \in old} \cup {Drain(more, e) : e \in old}

-----------------------------------------------------------------------------
(* Messages. *)

Establish(s, p) ==
    /\ peer[s] = NoPeer
    /\ peer' = [peer EXCEPT ![s] = p] /\ net' = [net EXCEPT !.listed = @ \cup {s}]
    /\ UNCHANGED <<delayed, quiet, sent, ending, closing, ends, begun>>

(* getOrCreateChannel(): a new channel may be one too many; the session    *)
(* active least has to end, or it is the new channel that is closed.       *)
Accept(o) ==
    LET s == o.session
        row == net.channels[peer[s]]
        push(w) == [net EXCEPT !.channels[peer[s]] = Append(@, [session |-> s, watched |-> w])]
    IN  \/ /\ s \in Pase \/ s \in Sessions(row)
           /\ net' \in AddExchange(net, o) /\ UNCHANGED ending
        \/ /\ s \notin Pase /\ s \notin Sessions(row) /\ Len(row) < MaxChannels
           /\ net' \in AddExchange(push(TRUE), o) /\ UNCHANGED ending
        \/ /\ s \notin Pase /\ s \notin Sessions(row) /\ Len(row) >= MaxChannels
           /\ \/ net' \in AddExchange(net, o) /\ UNCHANGED ending
              \/ /\ net' = push(FALSE)
                 /\ \E v \in Sessions(row) : ending' = ending \cup
                        {[session |-> v, delay |-> FALSE, say |-> FALSE, then |-> o]}

(* The exchange a message of session s finds: at an index of ours it has   *)
(* to be one that we initiated.                                            *)
Found(s, i) ==
    /\ net.table[i] # Free /\ net.exchanges[net.table[i]].session = s
    /\ i[2] = "own" => net.table[i] = i[1]

(* A message that finds no exchange.                                       *)
Receive(s, i, state) ==
    /\ s \in net.listed /\ s \notin delayed /\ ~Found(s, i)
    /\ begun < MaxExchanges /\ begun' = begun + 1
    /\ Accept([id |-> begun + 1, session |-> s, at |-> i, state |-> state])
    /\ UNCHANGED <<peer, delayed, quiet, closing, ends>>

(* The first message of an exchange: a peer uses an id once in a session.  *)
(* In another one it may meet the id again, its counter starts at random.  *)
FirstMessage(s, x) ==
    /\ <<s, x>> \notin sent /\ sent' = sent \cup {<<s, x>>} /\ Receive(s, <<x, "peer">>, "open")

(* It comes once more, or an answer to an exchange of ours does, when that *)
(* is not in the table: it gets an exchange only to be acknowledged.       *)
Duplicate(s, i) ==
    /\ \/ i[2] = "peer" /\ <<s, i[1]>> \in sent
       \/ i[2] = "own" /\ net.exchanges[i[1]] # Unused /\ net.exchanges[i[1]].session = s
                       /\ net.exchanges[i[1]].at = i
    /\ Receive(s, i, "acking") /\ UNCHANGED sent

(* The next message of an exchange that another one has replaced in the    *)
(* table begins a new one.                                                 *)
Stray(s, x) ==
    /\ \E e \in Exchange : net.exchanges[e].state = "open" /\ net.exchanges[e].session = s
                           /\ net.exchanges[e].at = <<x, "peer">>
    /\ Receive(s, <<x, "peer">>, "open") /\ UNCHANGED sent

(* initiateExchange(): on the latest channel of the peer that may be used *)
Initiate(p) ==
    LET row == net.channels[p]
    IN  /\ begun < MaxExchanges /\ begun' = begun + 1
        /\ \E s \in Session \ delayed :
            /\ \E k \in DOMAIN row : row[k].session = s
                   /\ \A j \in DOMAIN row : j > k => row[j].session \in delayed
            /\ net' \in AddExchange(net, [id |-> begun + 1, at |-> <<begun + 1, "own">>,
                                          session |-> s, state |-> "open"])
        /\ UNCHANGED <<peer, delayed, quiet, sent, ending, closing, ends>>

(* The protocol has handled the exchange and closes it, at once or when    *)
(* its last message was acknowledged or given up.                          *)
Finish(e) ==
    /\ net.exchanges[e].state = "open"
    /\ net' \in {Close(net, e), Drain(net, e)}
    /\ UNCHANGED <<peer, delayed, quiet, sent, ending, closing, ends, begun>>

(* The wait of a closing exchange is over, or its acknowledgement sent. *)
Drained(e) ==
    /\ net.exchanges[e].state \in {"acking", "draining"}
    /\ net' = Close(net, e)
    /\ UNCHANGED <<peer, delayed, quiet, sent, ending, closing, ends, begun>>

(* A handler closes an exchange that something else has closed: whatever   *)
(* is at the index goes once more.                                         *)
CloseAgain(e) ==
    /\ net.exchanges[e].state = "closed"
    /\ net' = DeleteExchange(net, net.exchanges[e].at)
    /\ UNCHANGED <<peer, delayed, quiet, sent, ending, closing, ends, begun>>

-----------------------------------------------------------------------------
(* The end of a session. *)

(* end() or destroy(), now or after the exchange that asked for it, with a *)
(* close message or without:                                               *)
(*   later, without: the removal of a fabric by one of its own sessions,   *)
(*     or a resumption whose answer could not be sent;                     *)
(*   later, with: the end of the failsafe, for the PASE session, or a      *)
(*     message counter about to roll over;                                 *)
(*   now: the peer, the controller, or the failsafe.                       *)
EndSession(s, delay, say) ==
    /\ s \in net.listed /\ ends < MaxEnds /\ ends' = ends + 1
    /\ delay /\ ~say => s \notin Pase /\ (Of(net, s) # {} \/ \A x \in PeerId : <<s, x>> \notin sent)
    /\ delay /\ s \in Pase => s \notin delayed
    /\ ending' = ending \cup {[session |-> s, delay |-> delay, say |-> say, then |-> Nothing]}
    /\ UNCHANGED <<peer, delayed, quiet, sent, closing, begun, net>>

(* sessions.delete() and its observer, which makes the sweep the closer *)
Unlisted(n, s) ==
    LET gone == [n EXCEPT !.listed = @ \ {s}]
    IN  IF s \in n.listed /\ s \notin delayed THEN CloseSession(gone, s, NoIndex) ELSE gone

(* The closer of session s is not done. *)
HasCloser(n, s) == n.sweep[s].on /\ n.sweep[s].index = NoIndex

(* The channel of session s is closed, and the new one will be with its    *)
(* session - unless that has ended meanwhile.                              *)
Evicted(n, s, o) ==
    LET row == Without(n.channels[peer[s]], s)
    IN  [n EXCEPT !.channels[peer[s]] = [k \in DOMAIN row |->
            IF row[k].session = o.session /\ o.session \in n.listed
            THEN [row[k] EXCEPT !.watched = TRUE] ELSE row[k]]]

(* destroyed.emit(), and what waited for destroy() to return *)
Destroyed(n, d) ==
    LET h == HungUp(n, d.session)
    IN  IF d.then = Nothing THEN {h} ELSE AddExchange(Evicted(h, d.session, d.then), d.then)

(* The subscriptions are closed: destroy() goes on, and if it finds a      *)
(* closer it waits for that.                                               *)
Destroy(d) ==
    LET s == d.session
        n == Unlisted(net, s)
    IN  /\ ending' = ending \ {d}
        /\ quiet' = IF d.say THEN quiet ELSE quiet \cup {s}
        /\ delayed' = IF d.delay THEN delayed \cup {s} ELSE delayed
        /\ \/ d.delay /\ net' = HungUp(net, s) /\ UNCHANGED closing
           \/ ~d.delay /\ HasCloser(n, s) /\ net' = n /\ closing' = closing \cup {d}
           \/ ~d.delay /\ ~HasCloser(n, s) /\ net' \in Destroyed(n, d) /\ UNCHANGED closing
        /\ UNCHANGED <<peer, sent, ends, begun>>

(* An exchange has been destroyed, with its last acknowledgement, and the  *)
(* loop over the live map goes on.                                         *)
SweepOne(s) ==
    LET e == net.sweep[s].at
        n == Close(net, e)
    IN  /\ net.sweep[s].on /\ e # Free
        /\ net' = [n EXCEPT !.sweep[s].at = Following(n, s, e)]
        /\ UNCHANGED <<peer, delayed, quiet, sent, ending, closing, ends, begun>>

(* The end of the session's own exchange waited for the sweep: now the     *)
(* session is destroyed, and the index freed.                              *)
SweepEnds(s) ==
    LET w == net.sweep[s]
        over == [net EXCEPT !.sweep[s] = NoSweep]
    IN  /\ w.on /\ w.at = Free /\ w.index # NoIndex
        /\ net' = Removed(IF CloseFails(s) THEN over
                          ELSE HungUp([over EXCEPT !.listed = @ \ {s}], s), {w.index})
        /\ UNCHANGED <<peer, delayed, quiet, sent, ending, closing, ends, begun>>

(* The closer is done.  If the session is to end after its exchange by now *)
(* it waits for itself, unless its close message fails.                    *)
CloserEnds(s) ==
    /\ HasCloser(net, s) /\ net.sweep[s].at = Free
    /\ s \in delayed => CloseFails(s)
    /\ net' = [net EXCEPT !.sweep[s] = NoSweep]
    /\ UNCHANGED <<peer, delayed, quiet, sent, ending, closing, ends, begun>>

(* destroy() has waited for the closer. *)
DestroyEnds(d) ==
    /\ ~HasCloser(net, d.session)
    /\ closing' = closing \ {d} /\ net' \in Destroyed(net, d)
    /\ UNCHANGED <<peer, delayed, quiet, sent, ending, ends, begun>>

Next ==
    \/ \E s \in Session, p \in Peer : Establish(s, p)
    \/ \E s \in Session, x \in PeerId : FirstMessage(s, x) \/ Stray(s, x)
    \/ \E s \in Session, i \in Index : Duplicate(s, i)
    \/ \E p \in Peer : Initiate(p)
    \/ \E e \in Exchange : Finish(e) \/ Drained(e) \/ CloseAgain(e)
    \/ \E s \in Session, delay, say \in BOOLEAN : EndSession(s, delay, say)
    \/ \E d \in ending : Destroy(d)
    \/ \E s \in Session : SweepOne(s) \/ SweepEnds(s) \/ CloserEnds(s)
    \/ \E d \in closing : DestroyEnds(d)

Spec == Init /\ [][Next]_vars

(* Protocols close their exchanges and the waits of closing ones end;      *)
(* subscriptions are closed, acknowledgements and close messages sent or   *)
(* given up.                                                               *)
FairSpec ==
    /\ Spec /\ (\A e \in Exchange : WF_vars(Finish(e) \/ Drained(e)))
    /\ WF_vars(\E d \in ending : Destroy(d))
    /\ \A s \in Session : WF_vars(SweepOne(s) \/ SweepEnds(s))

-----------------------------------------------------------------------------
(* Properties *)

Under(e) == net.exchanges[e].state \in {"open", "acking", "draining"}

(* Another exchange was begun with the index of e.                         *)
Rivalled(e) ==
    \E f \in Exchange \ {e} : net.exchanges[f] # Unused /\ net.exchanges[f].at = net.exchanges[e].at

(* The table and the exchanges agree: an entry is an exchange at its own   *)
(* index, under way unless the index waits for the sweep of its session    *)
(* (deleteExchange()), and an exchange under way that messages cannot find *)
(* lost its place to, or with, another one that used the same index.       *)
TableAgrees ==
    /\ \A i \in Index : net.table[i] # Free =>
            /\ net.exchanges[net.table[i]] # Unused /\ net.exchanges[net.table[i]].at = i
            /\ \/ Under(net.table[i])
               \/ LET w == net.sweep[net.exchanges[net.table[i]].session] IN w.on /\ w.index = i
    /\ \A e \in Exchange : Under(e) => net.table[net.exchanges[e].at] = e \/ Rivalled(e)

(* No session has more exchanges open than MaxPerSession, in the table or  *)
(* not and whatever order they begin and close in, except that one which   *)
(* lost its place to another one with the same index is not counted: the   *)
(* limit of #cleanupSessionExchanges() does not see it.                    *)
ExchangeLimit ==
    \A s \in Session : Cardinality({e \in Exchange :
        /\ net.exchanges[e].state \in {"open", "acking"} /\ net.exchanges[e].session = s
        /\ net.table[net.exchanges[e].at] = e \/ ~Rivalled(e)}) <= MaxPerSession

(* A session that has ended at once takes its exchanges with it: when      *)
(* destroy() is done, those in the table were begun after the session left *)
(* the list, by a message that had waited or on the channel it still had.  *)
EndedHasNoExchange ==
    \A e \in InTable(net) :
        LET s == net.exchanges[e].session
        IN  \/ s \in net.listed \/ s \in delayed \/ net.exchanges[e].late
            \/ HasCloser(net, s)

(* A channel is closed with its session: one whose session has left the    *)
(* list is still there only while a call of destroy() waits for the sweep  *)
(* and the close message (its messages may go on until then: getChannel()  *)
(* hands it to new exchanges), or it was made for a message that was       *)
(* still waiting when the session ended, and nothing watches it.           *)
ChannelsAreLive ==
    \A p \in Peer : \A k \in DOMAIN net.channels[p] :
        LET c == net.channels[p][k]
        IN  c.watched => c.session \in net.listed \/ \E d \in closing : d.session = c.session

(* A session that is to end after its exchange ends, if there is one and   *)
(* nothing else used its index.                                            *)
Due(s) ==
    /\ s \in delayed \cap net.listed /\ s \notin net.swept /\ (s \in Pase \/ s \in quiet)
    /\ \E e \in Of(net, s) : net.table[net.exchanges[e].at] = e
DelayedEnds ==
    \A s \in Session : Due(s) ~> s \notin net.listed \/ \E e \in Exchange :
        net.exchanges[e] # Unused /\ net.exchanges[e].session = s /\ Rivalled(e)

=============================================================================
