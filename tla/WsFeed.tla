------------------------------- MODULE WsFeed -------------------------------
(***************************************************************************)
(* The live feed of ws/mod.rs: handlers of listings, offers and orders     *)
(* announce the rows they have committed on a tokio broadcast channel, and *)
(* one task per WebSocket forwards the events its client subscribed to.    *)
(*                                                                         *)
(* The channel (external) keeps the last Capacity events for every         *)
(* receiver; a receiver that falls further behind is told so by its next   *)
(* recv and goes on with the oldest event kept.  sent is the history of    *)
(* the channel, so that an event is known by its position.                 *)
(***************************************************************************)
EXTENDS Naturals, Sequences

CONSTANTS
  Clients,       \* WebSocket clients
  Inscriptions,  \* inscription ids
  Capacity,      \* events the channel keeps
  Filters,       \* bound: the WsSubscribe messages clients send
  MaxRows,       \* bound: rows committed
  None           \* a filter, or a field of one, that is not there

ASSUME ConstantsAssumption ==
  /\ Capacity \in Nat \ {0}
  /\ MaxRows \in Nat
  /\ None \notin Inscriptions
  /\ Filters \subseteq [inscription: Inscriptions \cup {None}, collection: BOOLEAN]

VARIABLES
  rows,    \* inscriptions of the rows committed, in the order of the commits
  owed,    \* rows whose handler has not announced them yet
  sent,    \* rows announced to at least one receiver, in that order
  pc,      \* what the task of each client does next
  open,    \* does the client still hold its side of the socket?
  filter,  \* the WsSubscribe in force
  since,   \* where the receiver was created
  next,    \* position of the next event the receiver takes
  seen     \* positions of the events delivered to the client

handlerVars == <<rows, owed>>
clientVars  == <<pc, open, filter, since, next, seen>>
vars        == <<handlerVars, sent, clientVars>>

\* event_matches: no filter and a filter with no field take everything; no event
\* carries a collection, so a filter on a collection alone takes nothing.
Wanted(f) ==
  IF f = None \/ f = [inscription |-> None, collection |-> FALSE]
  THEN Inscriptions
  ELSE {f.inscription} \ {None}

\* Does client c want the event at position n?
Matches(c, n) == rows[sent[n]] \in Wanted(filter[c])

Subscribed(c)  == pc[c] \in {"listening", "sending"}
Receivers      == {c \in Clients : Subscribed(c)}
Overwritten(n) == n + Capacity <= Len(sent)

TypeOK ==
  /\ rows \in Seq(Inscriptions)
  /\ owed \subseteq 1 .. Len(rows)
  /\ sent \in Seq(1 .. Len(rows))
  /\ pc \in [Clients -> {"gone", "greeting", "listening", "sending"}]
  /\ open \in [Clients -> BOOLEAN]
  /\ filter \in [Clients -> Filters \cup {None}]
  /\ since \in [Clients -> 0 .. Len(sent) + 1]
  /\ next \in [Clients -> 0 .. Len(sent) + 1]
  /\ seen \in [Clients -> Seq(1 .. Len(sent))]

Init ==
  /\ rows = <<>>
  /\ owed = {}
  /\ sent = <<>>
  /\ pc = [c \in Clients |-> "gone"]
  /\ open = [c \in Clients |-> FALSE]
  /\ filter = [c \in Clients |-> None]
  /\ since = [c \in Clients |-> 0]
  /\ next = [c \in Clients |-> 0]
  /\ seen = [c \in Clients |-> <<>>]

-----------------------------------------------------------------------------
\* The handlers that announce.

\* Mutant: the handler announces its row before an INSERT that then fails.
CommitRow_AnnouncesFirst(i) ==
  /\ Len(rows) < MaxRows
  /\ \/ rows' = Append(rows, i) /\ owed' = owed \cup {Len(rows) + 1} /\ UNCHANGED sent
     \/ sent' = Append(sent, Len(rows) + 1) /\ UNCHANGED handlerVars
  /\ UNCHANGED clientVars

\* A handler commits a listing, an offer or a sale of inscription i.
CommitRow(i) ==
  /\ Len(rows) < MaxRows
  /\ rows' = Append(rows, i)
  /\ owed' = owed \cup {Len(rows) + 1}
  /\ UNCHANGED <<sent, clientVars>>

\* ... and, after the INSERT into activity_feed it awaits, sends the event: the
\* handlers of two rows may do so in either order.  Without receivers the
\* channel refuses the event and the error is ignored.
Announce(n) ==
  /\ n \in owed
  /\ owed' = owed \ {n}
  /\ sent' = IF Receivers = {} THEN sent ELSE Append(sent, n)
  /\ UNCHANGED <<rows, clientVars>>

\* The handler is dropped (timeout, disconnection) while it awaits.
DropHandler(n) ==
  /\ n \in owed
  /\ owed' = owed \ {n}
  /\ UNCHANGED <<rows, sent, clientVars>>

-----------------------------------------------------------------------------
\* The task of a socket: handle_socket.

Connect(c) ==
  /\ pc[c] = "gone"
  /\ pc' = [pc EXCEPT ![c] = "greeting"]
  /\ open' = [open EXCEPT ![c] = TRUE]
  /\ UNCHANGED <<handlerVars, sent, filter, since, next, seen>>

\* The first message, if it is a WsSubscribe and comes within 5 seconds, is the
\* filter; otherwise there is none.  Only then is the receiver created, and no
\* later message is ever read.
Subscribe(c) ==
  /\ pc[c] = "greeting"
  /\ pc' = [pc EXCEPT ![c] = "listening"]
  /\ \E f \in Filters \cup {None} : filter' = [filter EXCEPT ![c] = f]
  /\ since' = [since EXCEPT ![c] = Len(sent) + 1]
  /\ next' = [next EXCEPT ![c] = Len(sent) + 1]
  /\ UNCHANGED <<handlerVars, sent, open, seen>>

\* Mutant: the receiver is replaced by a new one, which starts at the end.
SkipMissed_Resubscribes(c) ==
  /\ pc[c] = "listening"
  /\ next[c] <= Len(sent) /\ Overwritten(next[c])
  /\ next' = [next EXCEPT ![c] = Len(sent) + 1]
  /\ UNCHANGED <<handlerVars, sent, pc, open, filter, since, seen>>

\* Mutant: a lagging receiver ends the task.
SkipMissed_Breaks(c) ==
  /\ pc[c] = "listening"
  /\ next[c] <= Len(sent) /\ Overwritten(next[c])
  /\ pc' = [pc EXCEPT ![c] = "gone"]
  /\ UNCHANGED <<handlerVars, sent, next, open, filter, since, seen>>

\* recv returned Lagged: go on with the oldest event the channel keeps.
SkipMissed(c) ==
  /\ pc[c] = "listening"
  /\ next[c] <= Len(sent) /\ Overwritten(next[c])
  /\ next' = [next EXCEPT ![c] = Len(sent) - Capacity + 1]
  /\ UNCHANGED <<handlerVars, sent, pc, open, filter, since, seen>>

\* Mutant: an event is forwarded whatever the filter says.
TakeEvent_Unfiltered(c) ==
  /\ pc[c] = "listening"
  /\ next[c] <= Len(sent) /\ ~Overwritten(next[c])
  /\ next' = [next EXCEPT ![c] = @ + 1]
  /\ pc' = [pc EXCEPT ![c] = "sending"]
  /\ UNCHANGED <<handlerVars, sent, open, filter, since, seen>>

\* recv returned an event: pass over it, or serialize it and start to send.
TakeEvent(c) ==
  /\ pc[c] = "listening"
  /\ next[c] <= Len(sent) /\ ~Overwritten(next[c])
  /\ next' = [next EXCEPT ![c] = @ + 1]
  /\ pc' = [pc EXCEPT ![c] = IF Matches(c, next[c]) THEN "sending" ELSE @]
  /\ UNCHANGED <<handlerVars, sent, open, filter, since, seen>>

\* socket.send of the event taken: delivered while the client is there; written to
\* a socket nobody reads any more, or refused, which ends the task.
SendFrame(c) ==
  /\ pc[c] = "sending"
  /\ pc' = [pc EXCEPT ![c] = "listening"]
  /\ seen' = IF open[c] THEN [seen EXCEPT ![c] = Append(@, next[c] - 1)] ELSE seen
  /\ UNCHANGED <<handlerVars, sent, open, filter, since, next>>

\* The tasks of these clients are over and their receivers dropped.
End(clients) ==
  /\ pc' = [c \in Clients |-> IF c \in clients THEN "gone" ELSE pc[c]]
  /\ open' = [c \in Clients |-> IF c \in clients THEN FALSE ELSE open[c]]
  /\ filter' = [c \in Clients |-> IF c \in clients THEN None ELSE filter[c]]
  /\ since' = [c \in Clients |-> IF c \in clients THEN 0 ELSE since[c]]
  /\ next' = [c \in Clients |-> IF c \in clients THEN 0 ELSE next[c]]
  /\ seen' = [c \in Clients |-> IF c \in clients THEN <<>> ELSE seen[c]]

SendFails(c) ==
  /\ pc[c] = "sending" /\ ~open[c]
  /\ End({c})
  /\ UNCHANGED <<handlerVars, sent>>

\* The client goes away.  The task learns it from a send that fails, and from
\* nothing else: a task whose filter takes no event stays.
Disconnect(c) ==
  /\ open[c]
  /\ open' = [open EXCEPT ![c] = FALSE]
  /\ UNCHANGED <<handlerVars, sent, pc, filter, since, next, seen>>

\* The server restarts: every task and every handler is gone, nothing is replayed.
Restart ==
  /\ \/ owed # {}
     \/ \E c \in Clients : pc[c] # "gone"
  /\ owed' = {}
  /\ End(Clients)
  /\ UNCHANGED <<rows, sent>>

-----------------------------------------------------------------------------
\* The steps the task of c takes by itself.
Forward(c) == SkipMissed(c) \/ TakeEvent(c) \/ SendFrame(c)

Next ==
  \/ \E i \in Inscriptions : CommitRow(i)
  \/ \E n \in owed : Announce(n) \/ DropHandler(n)
  \/ \E c \in Clients : \/ Connect(c) \/ Subscribe(c) \/ Forward(c)
                        \/ SendFails(c) \/ Disconnect(c)
  \/ Restart

\* The runtime polls every task and every handler, and a client that is there
\* reads its socket.
Fairness ==
  /\ \A c \in Clients : WF_vars(Forward(c))
  /\ \A n \in 1 .. MaxRows : WF_vars(n \in owed /\ Announce(n))

Spec     == Init /\ [][Next]_vars
FairSpec == Spec /\ Fairness

-----------------------------------------------------------------------------
\* Safety.

Delivered(c) == {seen[c][k] : k \in DOMAIN seen[c]}

\* "skip missed messages and continue": of the events its client wants, a task
\* has skipped only ones that Capacity younger events had pushed out of the
\* channel; all the others taken since it subscribed have been delivered, or the
\* last is being sent.
OnlyOverwrittenMissed ==
  \A c \in Receivers :
    open[c] => \A n \in since[c] .. next[c] - 1 :
      \/ ~Matches(c, n)
      \/ n \in Delivered(c)
      \/ pc[c] = "sending" /\ n = next[c] - 1
      \/ Overwritten(n)

\* The positions a task keeps: the client has been sent events it wants, each
\* later than the one before, all between its subscription and the next event.
InOrder ==
  \A c \in Clients :
    /\ Subscribed(c) => 1 <= since[c] /\ since[c] <= next[c]
    /\ ~Subscribed(c) => since[c] = 0 /\ seen[c] = <<>> /\ filter[c] = None
    /\ pc[c] = "sending" => since[c] < next[c] /\ Matches(c, next[c] - 1)
    /\ \A k \in DOMAIN seen[c] :
         /\ since[c] <= seen[c][k] /\ seen[c][k] < next[c]
         /\ pc[c] = "sending" => seen[c][k] < next[c] - 1
         /\ \A j \in 1 .. k - 1 : seen[c][j] < seen[c][k]

-----------------------------------------------------------------------------
\* The tasks keep the promise of the feed.
Promise == INSTANCE FeedPromise WITH
             Parties <- Clients, Topics <- Inscriptions,
             published <- [n \in 1 .. Len(sent) |-> rows[sent[n]]],
             wants <- [c \in Clients |-> IF Subscribed(c) THEN Wanted(filter[c]) ELSE {}],
             since <- since, told <- seen

\* Every step of handlers, sockets, lagging receivers and restarts is a step of
\* the abstract feed: what a client is told is in order, wanted and not repeated,
\* starts where it subscribed, and skips only what the channel has overwritten.
ImplementsFeedPromise == Promise!Spec

-----------------------------------------------------------------------------
\* Liveness.

\* A row that a listening client wants reaches it, unless its handler is dropped,
\* the channel overwrites it, or the client leaves (a restart takes it away too).
WantedRowArrives ==
  \A c \in Clients, n \in 1 .. MaxRows :
    (Subscribed(c) /\ open[c] /\ n \in owed /\ rows[n] \in Wanted(filter[c]))
      ~> \/ ~open[c]
         \/ n \notin owed /\ \A m \in 1 .. Len(sent) : sent[m] # n
         \/ \E m \in 1 .. Len(sent) :
              sent[m] = n /\ (m \in Delivered(c) \/ Overwritten(m))

=============================================================================
