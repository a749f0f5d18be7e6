------------------------------ MODULE Sockets ------------------------------
(***************************************************************************)
(* Admission of connections (ws_handler of servers/websocket_server.rs),   *)
(* and how a connection delivers one L2 snapshot to its subscriptions and  *)
(* keeps its delivery trace (servers/delivery_trace.rs).                   *)
(*                                                                         *)
(* A connection's task owns a permit of a shared semaphore from before the *)
(* upgrade until it returns; whatever it owns is dropped when it returns.  *)
(* Every write to the socket is a step of its own: the client may stop     *)
(* reading, and only the write's deadline ends it then.                    *)
(***************************************************************************)
EXTENDS Integers, Sequences, SequencesExt, FiniteSets

CONSTANTS
    Clients,
    Subs,           \* L2Book subscriptions a client may hold
    Views,          \* bound: the sets of subscriptions that a snapshot has a view for
    MaxPermits,     \* of the semaphore
    HISTORY,        \* batches that a trace keeps
    MaxHeight       \* bound: heights published

ASSUME SocketsAssumption ==
    MaxPermits \in Nat \ {0} /\ HISTORY \in Nat \ {0} /\ MaxHeight \in Nat

VARIABLES
    permits,            \* available permits of `connections'
    task,               \* per client: "none", "upgrading" or "open"
    height, views,      \* last height published, and the views of the book then
    queue,              \* [height, views] in the connection's broadcast receiver
    subscriptions,
    sent_positions,     \* last height sent, 0 when absent
    left,               \* subscriptions still to be served in this batch
    trace,              \* DeliveryTrace.batches
    begun               \* what happened, batch by batch (history)

conn == <<queue, subscriptions, sent_positions, left, trace, begun>>
book == <<height, views>>
svars == <<permits, task, book, conn>>

NoBatch == [under_way |-> FALSE, subs |-> {}]
Batch(S) == [under_way |-> TRUE, subs |-> S]

Nothing == [s \in Subs |-> 0]

SInit ==
    /\ permits = MaxPermits
    /\ task = [c \in Clients |-> "none"]
    /\ height = 0 /\ views = {}
    /\ queue = [c \in Clients |-> <<>>]
    /\ subscriptions = [c \in Clients |-> {}]
    /\ sent_positions = [c \in Clients |-> Nothing]
    /\ left = [c \in Clients |-> NoBatch]
    /\ trace = [c \in Clients |-> <<>>]
    /\ begun = [c \in Clients |-> <<>>]

-----------------------------------------------------------------------------
(* ws_handler                                                                *)

\* try_acquire_owned, or 429; the task is spawned with the permit.
Request(c) ==
    /\ task[c] = "none"
    /\ \/ /\ permits > 0
          /\ permits' = permits - 1
          /\ task' = [task EXCEPT ![c] = "upgrading"]
       \/ permits = 0 /\ UNCHANGED <<permits, task>>
    /\ UNCHANGED <<book, conn>>

\* Mutant of Release: the permit is not given back.
Release_Forgets == UNCHANGED permits

\* OwnedSemaphorePermit is dropped.
Release == permits' = permits + 1

\* The task returns, with or without an error: permit, receiver and socket are
\* dropped; dropping the trace logs it as it is then.
Return(c) ==
    /\ Release
    /\ task' = [task EXCEPT ![c] = "none"]
    /\ queue' = [queue EXCEPT ![c] = <<>>]
    /\ subscriptions' = [subscriptions EXCEPT ![c] = {}]
    /\ sent_positions' = [sent_positions EXCEPT ![c] = Nothing]
    /\ left' = [left EXCEPT ![c] = NoBatch]
    /\ trace' = [trace EXCEPT ![c] = <<>>]
    /\ begun' = [begun EXCEPT ![c] = <<>>]

Upgraded(c) ==
    /\ task[c] = "upgrading"
    /\ task' = [task EXCEPT ![c] = "open"]
    /\ UNCHANGED <<permits, book, conn>>

\* Mutant of UpgradeDeadline: the upgrade may take for ever.
UpgradeDeadline_Never(c) == FALSE /\ Return(c) /\ UNCHANGED book

UpgradeDeadline(c) == task[c] = "upgrading" /\ Return(c) /\ UNCHANGED book

UpgradeFails(c) == task[c] = "upgrading" /\ Return(c) /\ UNCHANGED book

-----------------------------------------------------------------------------
(* handle_socket, between batches                                            *)

AtSelect(c) == task[c] = "open" /\ ~left[c].under_way

\* The listener publishes the next height to every receiver.  A coin that the
\* node no longer lists is gone after a reload, without a Gap if it was empty.
Publish ==
    /\ height < MaxHeight
    /\ height' = height + 1
    /\ views' \in Views
    /\ queue' = [c \in Clients |->
                    IF task[c] = "open"
                    THEN Append(queue[c], [height |-> height', views |-> views'])
                    ELSE queue[c]]
    /\ UNCHANGED <<permits, task, subscriptions, sent_positions, left, trace, begun>>

\* With the immediate book of the live height, which is not part of a batch; a
\* subscription without a view is withdrawn again.
Subscribe(c, s) ==
    /\ AtSelect(c) /\ s \notin subscriptions[c] /\ s \in views
    /\ subscriptions' = [subscriptions EXCEPT ![c] = @ \union {s}]
    /\ sent_positions' = [sent_positions EXCEPT ![c][s] = height]
    /\ UNCHANGED <<permits, task, book, queue, left, trace, begun>>

Unsubscribe(c, s) ==
    /\ AtSelect(c) /\ s \in subscriptions[c]
    /\ subscriptions' = [subscriptions EXCEPT ![c] = @ \ {s}]
    /\ sent_positions' = [sent_positions EXCEPT ![c][s] = 0]
    /\ UNCHANGED <<permits, task, book, queue, left, trace, begun>>

\* The client leaves, finds no book at the start, lags behind, meets a Gap, or
\* does not take an answer before the write's deadline.
Leave(c) == AtSelect(c) /\ Return(c) /\ UNCHANGED book

-----------------------------------------------------------------------------
(* InternalMessage::Snapshot                                                 *)

\* A full history loses its oldest batch.
begin(batches, h) ==
    Append(IF Len(batches) = HISTORY THEN Tail(batches) ELSE batches,
           [height |-> h, completed |-> FALSE, flushed_frames |-> 0])

sent(batches) == [batches EXCEPT ![Len(batches)].flushed_frames = @ + 1]

complete(batches) == [batches EXCEPT ![Len(batches)].completed = TRUE]

\* The history of a batch: the snapshot and the subscriptions that got it.
Begun(m) == [height |-> m.height, views |-> m.views, frames |-> {}]

BeginBatch(c) ==
    /\ AtSelect(c) /\ queue[c] # <<>>
    /\ queue' = [queue EXCEPT ![c] = Tail(@)]
    /\ left' = [left EXCEPT ![c] = Batch(subscriptions[c])]
    /\ trace' = [trace EXCEPT ![c] = begin(@, Head(queue[c]).height)]
    /\ begun' = [begun EXCEPT ![c] = Append(@, Begun(Head(queue[c])))]
    /\ UNCHANGED <<permits, task, book, subscriptions, sent_positions>>

Current(c) == Last(begun[c])

\* Only a height above the last one sent goes out, if there is a view.
Due(c, s) ==
    s \in left[c].subs /\ Current(c).height > sent_positions[c][s] /\ s \in Current(c).views

Skip(c, s) ==
    /\ s \in left[c].subs /\ ~Due(c, s)
    /\ left' = [left EXCEPT ![c].subs = @ \ {s}]
    /\ UNCHANGED <<permits, task, book, queue, subscriptions, sent_positions, trace, begun>>

Flush(c, s) ==
    /\ Due(c, s)
    /\ sent_positions' = [sent_positions EXCEPT ![c][s] = Current(c).height]
    /\ trace' = [trace EXCEPT ![c] = sent(@)]
    /\ begun' = [begun EXCEPT ![c][Len(begun[c])].frames = @ \union {s}]
    /\ left' = [left EXCEPT ![c].subs = @ \ {s}]
    /\ UNCHANGED <<permits, task, book, queue, subscriptions>>

\* The write's deadline passes, or it fails.
WriteFails(c) ==
    /\ \E s \in Subs : Due(c, s)
    /\ Return(c)
    /\ UNCHANGED book

\* require_recent_source, before anything else of a subscription.
SourceStale(c) == left[c].subs # {} /\ Return(c) /\ UNCHANGED book

\* Mutant of CompleteBatch: the batch is complete before its frames are out.
CompleteBatch_Early(c) ==
    /\ left[c].under_way
    /\ left' = [left EXCEPT ![c] = NoBatch]
    /\ trace' = [trace EXCEPT ![c] = complete(@)]
    /\ UNCHANGED <<permits, task, book, queue, subscriptions, sent_positions, begun>>

CompleteBatch(c) ==
    /\ left[c] = Batch({})
    /\ left' = [left EXCEPT ![c] = NoBatch]
    /\ trace' = [trace EXCEPT ![c] = complete(@)]
    /\ UNCHANGED <<permits, task, book, queue, subscriptions, sent_positions, begun>>

SNext ==
    \/ Publish
    \/ \E c \in Clients :
          \/ Request(c) \/ Upgraded(c) \/ UpgradeDeadline(c) \/ UpgradeFails(c)
          \/ Leave(c)
          \/ BeginBatch(c) \/ WriteFails(c) \/ SourceStale(c) \/ CompleteBatch(c)
          \/ \E s \in Subs : Subscribe(c, s) \/ Unsubscribe(c, s) \/ Skip(c, s) \/ Flush(c, s)

\* Timers fire, and what needs no client goes on.  Nothing is asked of the
\* client: it may never finish its upgrade nor read what it is sent.
SSpec ==
    /\ SInit /\ [][SNext]_svars
    /\ \A c \in Clients :
          /\ WF_svars(UpgradeDeadline(c))
          /\ WF_svars(WriteFails(c))
          /\ WF_svars(CompleteBatch(c))
          /\ WF_svars(\E s \in Subs : Skip(c, s))

-----------------------------------------------------------------------------
Connected == {c \in Clients : task[c] # "none"}

\* No permit is lost, whichever way connections end: a request is refused only
\* if MaxPermits connections are alive.
PermitsExact == permits + Cardinality(Connected) = MaxPermits

\* A client that never finishes its upgrade, or stops reading in the middle of
\* a batch, does not hold its permit for ever.
NobodyBlocks ==
    \A c \in Clients :
        /\ task[c] = "upgrading" ~> task[c] # "upgrading"
        /\ left[c].under_way ~> ~left[c].under_way

\* What a trace says of the batches that really happened: it has the latest
\* ones, with their frames; all but the last are complete; and a batch is shown
\* complete only if every subscription with a view in it has that height or a
\* later one.
TraceHonest ==
    \A c \in Clients :
        LET b == trace[c]
            n == Len(begun[c])
            k == Len(b)
        IN  /\ k = IF n < HISTORY THEN n ELSE HISTORY
            /\ \A i \in 1..k : LET real == begun[c][n - k + i] IN
                  /\ b[i].height = real.height
                  /\ b[i].flushed_frames = Cardinality(real.frames)
                  /\ b[i].completed \/ (i = k /\ left[c].under_way)
                  /\ i = k /\ b[i].completed =>
                        \A s \in subscriptions[c] \intersect real.views :
                           sent_positions[c][s] >= b[i].height
            /\ left[c].under_way => ~b[k].completed

=============================================================================
