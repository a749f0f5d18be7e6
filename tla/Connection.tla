----------------------------- MODULE Connection -----------------------------
(***************************************************************************)
(* One websocket connection (handle_socket and receive_client_message of   *)
(* servers/websocket_server.rs), with one coin's L2Book and L4Book         *)
(* subscriptions, on top of the feed that the listener implements          *)
(* (BookFeed.tla).                                                         *)
(*                                                                         *)
(* The broadcast channel gives the connection a copy of every message      *)
(* since it subscribed, up to a capacity.  A handler of the select loop    *)
(* only touches the connection's own state, except that it reads the book  *)
(* under the listener's lock: it is one action, at the time of that read.  *)
(***************************************************************************)
EXTENDS BookFeed, Sequences, SequencesExt

CONSTANTS
    Capacity,       \* of the broadcast channel
    Touched,        \* blocks with changes for the coin
    MaxGaps         \* bound: how often the source is fenced or replaced

ASSUME ConnectionAssumption ==
    /\ MaxHeight \in Nat \ {0} /\ Capacity \in Nat \ {0} /\ MaxGaps \in Nat
    /\ Touched \subseteq 1..MaxHeight

Streams == {"L2Book", "L4Book"}

VARIABLES
    book,           \* how many Gaps the source has published: which book this is
    announced,      \* height of the last Snapshot of this book (history)
    phase,          \* how far handle_socket has got
    internal_message_rx, lagged,    \* the receiver; lagged: it has lost messages
    known,          \* the coin is in `universe'
    subscriptions,
    sent_positions, \* of the L2Book subscription, 0 when absent
    client          \* what the client has been sent (history)

cvars == <<feedVars, book, announced, phase, internal_message_rx, lagged, known,
           subscriptions, sent_positions, client>>
socket == <<known, subscriptions, sent_positions, client>>
source == <<feedVars, book, announced>>

\* l4 is the height the client has every change up to, of book l4book; hole is
\* set by an update that does not follow on; l2 is the last L2Book height.
NoData == [l4 |-> 0, l4book |-> 0, hole |-> FALSE, l2 |-> 0]

Messages ==
    {[kind |-> k, height |-> 0, time |-> 0] : k \in {"none", "Gap"}}
    \union {[kind |-> "L4BookUpdates", height |-> h, time |-> h] : h \in 1..MaxHeight}
    \union [kind : {"Snapshot"}, height : 1..MaxHeight, time : 0..MaxHeight]

CInit ==
    /\ out \in Messages /\ FeedInit
    /\ book = 0 /\ announced = 0
    /\ phase = "closed"
    /\ internal_message_rx = <<>> /\ lagged = FALSE
    /\ known = FALSE
    /\ subscriptions = {}
    /\ sent_positions = 0
    /\ client = NoData

-----------------------------------------------------------------------------
(* The source and the channel                                                *)

\* tx.send: a full channel loses its oldest message for this receiver.
send(m) ==
    IF phase = "closed" THEN UNCHANGED <<internal_message_rx, lagged>>
    ELSE /\ internal_message_rx' =
               Append(IF Len(internal_message_rx) = Capacity THEN Tail(internal_message_rx)
                      ELSE internal_message_rx, m)
         /\ lagged' = (lagged \/ Len(internal_message_rx) = Capacity)

\* A step of the listener, as its feed specifies it.
Source ==
    /\ \E m \in Messages, h \in 0..MaxHeight : out' = m /\ height' = h /\ FeedNext
    /\ book' = IF out'.kind = "Gap" THEN book + 1 ELSE book
    /\ book' =< MaxGaps
    /\ announced' = CASE out'.kind = "Gap"      -> 0
                      [] out'.kind = "Snapshot" -> out'.height
                      [] OTHER                  -> announced
    /\ IF out'.kind = "none" THEN UNCHANGED <<internal_message_rx, lagged>> ELSE send(out')
    /\ UNCHANGED <<phase, socket>>

-----------------------------------------------------------------------------
(* handle_socket: start and end of a connection                              *)

\* internal_message_tx.subscribe(): from here on messages are kept.
Connect ==
    /\ phase = "closed"
    /\ phase' = "subscribed"
    /\ UNCHANGED <<source, internal_message_rx, lagged, socket>>

\* The first lock: is_ready.
CheckReady ==
    /\ phase = "subscribed"
    /\ phase' = IF Up THEN "ready" ELSE "refused"
    /\ UNCHANGED <<source, internal_message_rx, lagged, socket>>

\* The task returns; everything it owned is dropped.
Closed ==
    /\ phase' = "closed"
    /\ internal_message_rx' = <<>> /\ lagged' = FALSE
    /\ known' = FALSE /\ subscriptions' = {} /\ sent_positions' = 0
    /\ client' = NoData

\* The second lock: universe; an unready listener has none.
TakeUniverse ==
    /\ phase \in {"ready", "refused"}
    /\ \/ /\ phase = "ready"
          /\ phase' = "open"
          /\ known' = Up
          /\ UNCHANGED <<internal_message_rx, lagged, subscriptions, sent_positions, client>>
       \/ phase = "refused" /\ Closed
    /\ UNCHANGED source

\* The client leaves, or sends what ends the connection, or a write to it fails
\* or takes longer than its deadline.
Disconnect == phase = "open" /\ Closed /\ UNCHANGED source

-----------------------------------------------------------------------------
(* internal_message_rx.recv()                                                *)

\* What the client makes of a block it is sent.
Updated(h) ==
    [client EXCEPT !.l4 = IF h > @ THEN h ELSE @,
                   !.hole = @ \/ \E b \in Touched : client.l4 < b /\ b < h]

\* Mutant of OfferL2: whatever is published goes out.
OfferL2_Always(h) == sent_positions' = h /\ client' = [client EXCEPT !.l2 = h]

\* send_ws_data_from_snapshot, after require_recent_source.  Only a height
\* above the last one sent goes out.
OfferL2(h) ==
    IF h =< sent_positions
    THEN UNCHANGED <<sent_positions, client>>
    ELSE sent_positions' = h /\ client' = [client EXCEPT !.l2 = h]

OnSnapshot(m, fresh) ==
    /\ m.kind = "Snapshot"
    /\ IF "L2Book" \in subscriptions /\ ~fresh
       THEN Closed
       ELSE /\ known' = TRUE
            /\ internal_message_rx' = Tail(internal_message_rx)
            /\ IF "L2Book" \in subscriptions THEN OfferL2(m.height)
               ELSE UNCHANGED <<sent_positions, client>>
            /\ UNCHANGED <<phase, lagged, subscriptions>>

\* send_l4_batch: only blocks with changes for the coin are sent.
OnUpdates(m, fresh) ==
    /\ m.kind = "L4BookUpdates"
    /\ IF "L4Book" \in subscriptions /\ ~fresh
       THEN Closed
       ELSE /\ internal_message_rx' = Tail(internal_message_rx)
            /\ client' = IF "L4Book" \in subscriptions /\ m.height \in Touched
                         THEN Updated(m.height) ELSE client
            /\ UNCHANGED <<phase, lagged, known, subscriptions, sent_positions>>

\* Mutant of OnGap: the client is told, and the connection goes on.
OnGap_Continues(m) ==
    /\ m.kind = "Gap"
    /\ internal_message_rx' = Tail(internal_message_rx)
    /\ UNCHANGED <<phase, lagged, socket>>

\* The client is told to start again, and the connection ends.
OnGap(m) == m.kind = "Gap" /\ Closed

\* Mutant of Recv: a receiver that lost messages skips to what is left.
Recv_SkipsLag ==
    /\ phase = "open"
    /\ lagged \/ internal_message_rx # <<>>
    /\ IF lagged THEN lagged' = FALSE /\ UNCHANGED <<phase, internal_message_rx, socket>>
       ELSE LET m == Head(internal_message_rx) IN
            \E fresh \in BOOLEAN :
               /\ fresh => m.time # 0
               /\ OnSnapshot(m, fresh) \/ OnUpdates(m, fresh) \/ OnGap(m)
    /\ UNCHANGED source

\* `fresh': the source time is within three seconds of the wall clock.
Recv ==
    /\ phase = "open"
    /\ lagged \/ internal_message_rx # <<>>
    /\ IF lagged THEN Closed
       ELSE LET m == Head(internal_message_rx) IN
            \E fresh \in BOOLEAN :
               /\ fresh => m.time # 0
               /\ OnSnapshot(m, fresh) \/ OnUpdates(m, fresh) \/ OnGap(m)
    /\ UNCHANGED source

-----------------------------------------------------------------------------
(* receive_client_message                                                    *)

\* The book is there and recent; otherwise the subscription is withdrawn again.
SubscribeL2 ==
    /\ phase = "open" /\ known /\ "L2Book" \notin subscriptions
    /\ Up
    /\ subscriptions' = subscriptions \union {"L2Book"}
    /\ OfferL2(height)
    /\ UNCHANGED <<source, phase, internal_message_rx, lagged, known>>

SubscribeL4 ==
    /\ phase = "open" /\ known /\ "L4Book" \notin subscriptions
    /\ Up
    /\ subscriptions' = subscriptions \union {"L4Book"}
    /\ client' = [client EXCEPT !.l4 = height, !.l4book = book, !.hole = FALSE]
    /\ UNCHANGED <<source, phase, internal_message_rx, lagged, known, sent_positions>>

\* Mutant of Unsubscribe: sent_positions keeps the last height.
Unsubscribe_KeepsPosition(stream) ==
    /\ phase = "open" /\ known /\ stream \in subscriptions
    /\ subscriptions' = subscriptions \ {stream}
    /\ client' = IF stream = "L2Book" THEN [client EXCEPT !.l2 = 0]
                 ELSE [client EXCEPT !.l4 = 0, !.l4book = 0, !.hole = FALSE]
    /\ UNCHANGED <<source, phase, internal_message_rx, lagged, known, sent_positions>>

\* The client forgets the stream, and so does sent_positions.
Unsubscribe(stream) ==
    /\ phase = "open" /\ known /\ stream \in subscriptions
    /\ subscriptions' = subscriptions \ {stream}
    /\ IF stream = "L2Book"
       THEN sent_positions' = 0 /\ client' = [client EXCEPT !.l2 = 0]
       ELSE /\ client' = [client EXCEPT !.l4 = 0, !.l4book = 0, !.hole = FALSE]
            /\ UNCHANGED sent_positions
    /\ UNCHANGED <<source, phase, internal_message_rx, lagged, known>>

CNext ==
    \/ Source
    \/ Connect \/ CheckReady \/ TakeUniverse \/ Disconnect
    \/ Recv
    \/ SubscribeL2 \/ SubscribeL4
    \/ \E stream \in Streams : Unsubscribe(stream)

\* select! polls its branches in random order, locks are fair and every write
\* has a deadline: a received message is handled.
CSpec == CInit /\ [][CNext]_cvars /\ WF_cvars(CheckReady \/ TakeUniverse) /\ WF_cvars(Recv)

-----------------------------------------------------------------------------
GapPending == \E i \in DOMAIN internal_message_rx : internal_message_rx[i].kind = "Gap"

Waiting(kind, h) == \E i \in DOMAIN internal_message_rx :
                       /\ internal_message_rx[i].kind = kind
                       /\ internal_message_rx[i].height = h

\* The connection is about to be closed for a reason the client has to hear.
Ending == lagged \/ GapPending

\* An L4Book client misses nothing: every change between what it has and the
\* live book is on its way, and what it has is of this very book, unless its
\* connection is about to end.
NothingMissed ==
    phase = "open" /\ "L4Book" \in subscriptions /\ ~Ending =>
        /\ Up /\ client.l4book = book
        /\ ~client.hole
        /\ \A b \in Touched : client.l4 < b /\ b =< height => Waiting("L4BookUpdates", b)

\* An L2Book client has, or will be sent, a view at least as late as the last
\* one published of this book, unless its connection is about to end.
L2NotStale ==
    phase = "open" /\ "L2Book" \in subscriptions /\ ~Ending =>
        \/ client.l2 >= announced
        \/ Waiting("Snapshot", announced)

\* While it stays subscribed a client never sees an L2Book go back in height,
\* although snapshots older than the immediate one may still be queued.
L2Forward ==
    [][phase' = "open" /\ "L2Book" \in subscriptions \intersect subscriptions'
          => client'.l2 >= client.l2]_cvars

\* Whoever is connected when the source breaks is disconnected.
GapDisconnects == GapPending ~> phase = "closed"

=============================================================================
