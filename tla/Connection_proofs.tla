------------------------- MODULE Connection_proofs -------------------------
(***************************************************************************)
(* Proofs about Connection for every height and gap bound, every capacity  *)
(* of the broadcast channel and every set of blocks that touch the coin;   *)
(* and about L2Views, whose views it is sent, for every set of coins, all  *)
(* books, snapshots, blocks and limits, whichever free address the         *)
(* allocator prefers.                                                      *)
(***************************************************************************)
EXTENDS Connection, L2Views, TLAPS

Phases == {"closed", "subscribed", "ready", "refused", "open"}

Clients == [l4 : 0..MaxHeight, l4book : 0..MaxGaps, hole : BOOLEAN, l2 : 0..MaxHeight]

\* The receiver keeps no more than the channel's capacity.
CTypeOK ==
    /\ height \in 0..MaxHeight /\ out \in Messages
    /\ book \in 0..MaxGaps /\ announced \in 0..MaxHeight
    /\ phase \in Phases
    /\ internal_message_rx \in Seq(Messages)
    /\ Len(internal_message_rx) =< Capacity
    /\ lagged \in BOOLEAN /\ known \in BOOLEAN
    /\ subscriptions \in SUBSET Streams
    /\ sent_positions \in 0..MaxHeight
    /\ client \in Clients

\* A connection that is closed holds nothing, and has no subscriptions before
\* its loop runs.
ClosedClean ==
    /\ phase = "closed" => internal_message_rx = <<>> /\ ~lagged
    /\ phase # "open" => subscriptions = {}

\* What was announced is never ahead of the book.
AnnouncedBehind == announced =< height

\* The updates that wait are in order and not ahead of the book; so none waits
\* when there is no book.
UpdatesInOrder ==
    ~Ending =>
        /\ \A i \in DOMAIN internal_message_rx :
              internal_message_rx[i].kind = "L4BookUpdates"
                 => internal_message_rx[i].height =< height
        /\ \A i, j \in DOMAIN internal_message_rx :
              /\ i < j
              /\ internal_message_rx[i].kind = "L4BookUpdates"
              /\ internal_message_rx[j].kind = "L4BookUpdates"
              => internal_message_rx[i].height < internal_message_rx[j].height

\* sent_positions is what the client has of the L2Book, and absent without one.
PositionExact ==
    sent_positions = IF "L2Book" \in subscriptions THEN client.l2 ELSE 0

\* Waiting, of any queue.
Queued(s, kind, h) == \E i \in DOMAIN s : s[i].kind = kind /\ s[i].height = h

CInv ==
    /\ CTypeOK
    /\ ClosedClean
    /\ AnnouncedBehind
    /\ UpdatesInOrder
    /\ PositionExact
    /\ NothingMissed
    /\ L2NotStale


-----------------------------------------------------------------------------
(* The receiver's queue *)

\* A message appended to the queue is its last, and the others stay in place.
LEMMA AppendFacts ==
    ASSUME NEW s \in Seq(Messages), NEW m \in Messages
    PROVE  /\ Append(s, m) \in Seq(Messages)
           /\ Len(Append(s, m)) = Len(s) + 1
           /\ DOMAIN s = 1..Len(s) /\ DOMAIN Append(s, m) = 1..(Len(s) + 1)
           /\ \A i \in 1..Len(s) : Append(s, m)[i] = s[i]
           /\ Append(s, m)[Len(s) + 1] = m
  OBVIOUS

\* Taking the front moves the others up by one place.
LEMMA TailFacts ==
    ASSUME NEW s \in Seq(Messages), s # <<>>
    PROVE  /\ Tail(s) \in Seq(Messages)
           /\ Len(s) \in Nat \ {0}
           /\ Len(Tail(s)) = Len(s) - 1
           /\ DOMAIN s = 1..Len(s) /\ DOMAIN Tail(s) = 1..(Len(s) - 1)
           /\ \A i \in 1..(Len(s) - 1) : Tail(s)[i] = s[i + 1]
           /\ Head(s) = s[1] /\ s[1] \in Messages
  OBVIOUS

\* What the kinds of message say about the rest of the message.
LEMMA MessageFacts ==
    ASSUME NEW m \in Messages
    PROVE  /\ m.kind \in {"none", "Gap", "L4BookUpdates", "Snapshot"}
           /\ m.height \in 0..MaxHeight /\ m.time \in 0..MaxHeight
           /\ m.kind \in {"L4BookUpdates", "Snapshot"} => m.height \in 1..MaxHeight
  BY ConnectionAssumption DEF Messages

\* tx.send keeps the receiver within the channel's capacity, and either keeps
\* every message and adds the new one or notes the loss.
LEMMA SendFacts ==
    ASSUME CTypeOK, ClosedClean, NEW m \in Messages, send(m)
    PROVE  /\ internal_message_rx' \in Seq(Messages)
           /\ Len(internal_message_rx') =< Capacity
           /\ lagged' \in BOOLEAN
           /\ lagged => lagged'
           /\ phase = "closed" => internal_message_rx' = <<>> /\ ~lagged'
           /\ phase # "closed" /\ ~lagged' => internal_message_rx' = Append(internal_message_rx, m)
  <1>. USE ConnectionAssumption
  <1>1. CASE phase = "closed"  BY <1>1 DEF CTypeOK, send, ClosedClean
  <1>2. CASE phase # "closed" /\ Len(internal_message_rx) = Capacity
    <2>1. internal_message_rx # <<>>  BY <1>2 DEF CTypeOK
    <2>2. internal_message_rx' = Append(Tail(internal_message_rx), m) /\ lagged' = TRUE
      BY <1>2 DEF send, CTypeOK
    <2>. QED  BY <1>2, <2>1, <2>2, TailFacts, AppendFacts DEF CTypeOK
  <1>3. CASE phase # "closed" /\ Len(internal_message_rx) # Capacity
    <2>1. internal_message_rx' = Append(internal_message_rx, m) /\ lagged' = lagged
      BY <1>3 DEF send, CTypeOK
    <2>. QED  BY <1>3, <2>1, AppendFacts DEF CTypeOK
  <1>. QED  BY <1>1, <1>2, <1>3

-----------------------------------------------------------------------------
(* The steps *)

\* A step of the listener, as this module sees it: the five ways the feed moves.
LEMMA SourceFacts ==
    ASSUME CTypeOK, Source
    PROVE  /\ out' \in Messages /\ height' \in 0..MaxHeight
           /\ book' \in 0..MaxGaps
           /\ \/ /\ out'.kind = "none" /\ (Up => height' = height)
                 /\ announced' = announced /\ book' = book
              \/ /\ out'.kind = "L4BookUpdates" /\ Up
                 /\ height' = height + 1 /\ out'.height = height'
                 /\ announced' = announced /\ book' = book
              \/ /\ out'.kind = "Snapshot" /\ Up
                 /\ height' = height /\ out'.height = height
                 /\ announced' = height /\ book' = book
              \/ /\ out'.kind = "Gap" /\ announced' = 0
           /\ IF out'.kind = "none" THEN UNCHANGED <<internal_message_rx, lagged>> ELSE send(out')
           /\ UNCHANGED <<phase, known, subscriptions, sent_positions, client>>
  <1>1. out' \in Messages /\ height' \in 0..MaxHeight /\ FeedNext  BY DEF Source
  <1>2. book' \in 0..MaxGaps  BY ConnectionAssumption DEF Source, CTypeOK
  <1>3. /\ book' = IF out'.kind = "Gap" THEN book + 1 ELSE book
        /\ announced' = CASE out'.kind = "Gap"      -> 0
                          [] out'.kind = "Snapshot" -> out'.height
                          [] OTHER                  -> announced
        /\ IF out'.kind = "none" THEN UNCHANGED <<internal_message_rx, lagged>> ELSE send(out')
        /\ UNCHANGED <<phase, known, subscriptions, sent_positions, client>>
    BY DEF Source, socket
  <1>4. CASE Quiet     BY <1>1, <1>2, <1>3, <1>4 DEF Quiet
  <1>5. CASE Open      BY <1>1, <1>2, <1>3, <1>5 DEF Open
  <1>6. CASE Update    BY <1>1, <1>2, <1>3, <1>6 DEF Update
  <1>7. CASE Announce  BY <1>1, <1>2, <1>3, <1>7 DEF Announce
  <1>8. CASE Replace   BY <1>1, <1>2, <1>3, <1>8 DEF Replace
  <1>9. CASE Close     BY <1>1, <1>2, <1>3, <1>9 DEF Close
  <1>. QED  BY <1>1, <1>4, <1>5, <1>6, <1>7, <1>8, <1>9 DEF FeedNext

\* A step of the listener reaches the receiver, or marks it as having lost a
\* message (tx.send).
LEMMA StepSource == CInv /\ Source => CInv'
  <1>. SUFFICES ASSUME CInv, Source PROVE CInv'
    OBVIOUS
  <1>. USE ConnectionAssumption
  <1>. DEFINE rx == internal_message_rx
  <1>1. CTypeOK /\ ClosedClean  BY DEF CInv
  <1>2. /\ out' \in Messages /\ height' \in 0..MaxHeight /\ height \in 0..MaxHeight
        /\ book' \in 0..MaxGaps /\ announced \in 0..MaxHeight
        /\ UNCHANGED <<phase, known, subscriptions, sent_positions, client>>
    BY <1>1, SourceFacts DEF CTypeOK
  <1>3. AnnouncedBehind' /\ announced' \in 0..MaxHeight
    BY <1>1, <1>2, SourceFacts DEF AnnouncedBehind, CInv, Up
  <1>4. PositionExact'  BY <1>2 DEF CInv, PositionExact
  <1>5. /\ rx' \in Seq(Messages) /\ Len(rx') =< Capacity /\ lagged' \in BOOLEAN
        /\ lagged => lagged'
        /\ phase = "closed" => rx' = <<>> /\ ~lagged'
        /\ phase # "closed" /\ ~lagged' =>
              IF out'.kind = "none" THEN rx' = rx ELSE rx' = Append(rx, out')
    <2>1. CASE out'.kind = "none"
      BY <1>1, <2>1, SourceFacts DEF CTypeOK, ClosedClean
    <2>2. CASE out'.kind # "none"
      <3>1. send(out')  BY <1>1, <2>2, SourceFacts
      <3>. QED  BY <1>1, <1>2, <2>2, <3>1, SendFacts
    <2>. QED  BY <2>1, <2>2
  <1>6. CTypeOK'  BY <1>1, <1>2, <1>3, <1>5 DEF CTypeOK
  <1>7. ClosedClean'  BY <1>1, <1>2, <1>5 DEF ClosedClean
  <1>8. ASSUME phase # "closed", ~Ending'
        PROVE  /\ ~Ending
               /\ out'.kind # "Gap"
               /\ rx' = IF out'.kind = "none" THEN rx ELSE Append(rx, out')
    <2>1. ~lagged' /\ ~lagged  BY <1>5, <1>8 DEF Ending
    <2>2. rx' = IF out'.kind = "none" THEN rx ELSE Append(rx, out')
      BY <1>5, <1>8, <2>1
    <2>3. \A i \in DOMAIN rx : i \in DOMAIN rx' /\ rx'[i] = rx[i]
      BY <1>1, <1>2, <2>2, AppendFacts DEF CTypeOK
    <2>4. out'.kind # "none" => Len(rx) + 1 \in DOMAIN rx' /\ rx'[Len(rx) + 1] = out'
      BY <1>1, <1>2, <2>2, AppendFacts DEF CTypeOK
    <2>. QED  BY <1>8, <2>1, <2>2, <2>3, <2>4 DEF Ending, GapPending
  <1>9. UpdatesInOrder'
    <2>1. CASE phase = "closed"
      BY <1>5, <2>1 DEF UpdatesInOrder
    <2>2. CASE phase # "closed"
      <3>. SUFFICES ASSUME ~Ending' PROVE UpdatesInOrder'
        BY DEF UpdatesInOrder
      <3>1. UpdatesInOrder /\ ~Ending  BY <1>8, <2>2 DEF CInv
      <3>2. rx \in Seq(Messages) /\ \A i \in DOMAIN rx : rx[i] \in Messages
        BY <1>1 DEF CTypeOK
      <3>3. \A i \in DOMAIN rx : rx[i].kind = "L4BookUpdates" => rx[i].height \in 1..MaxHeight
        BY <3>2, MessageFacts
      <3>4. \A i \in DOMAIN rx : rx[i].kind = "L4BookUpdates" => rx[i].height =< height
        BY <3>1 DEF UpdatesInOrder
      <3>5. height =< height' \/ \A i \in DOMAIN rx : rx[i].kind # "L4BookUpdates"
        BY <1>1, <1>2, <1>8, <2>2, <3>3, <3>4, SourceFacts DEF Up
      <3>6. CASE out'.kind = "none"
        BY <1>2, <1>8, <2>2, <3>1, <3>3, <3>4, <3>5, <3>6 DEF UpdatesInOrder
      <3>7. CASE out'.kind # "none"
        <4>1. rx' = Append(rx, out')  BY <1>8, <2>2, <3>7
        <4>2. /\ DOMAIN rx = 1..Len(rx) /\ DOMAIN rx' = 1..(Len(rx) + 1) /\ Len(rx) \in Nat
              /\ \A i \in 1..Len(rx) : rx'[i] = rx[i]
              /\ rx'[Len(rx) + 1] = out'
          BY <1>2, <3>2, <4>1, AppendFacts
        <4>3. out'.kind = "L4BookUpdates" => height' = height + 1 /\ out'.height = height'
          BY <1>1, SourceFacts
        <4>4. \A i \in DOMAIN rx' : rx'[i].kind = "L4BookUpdates" => rx'[i].height =< height'
          BY <1>2, <3>3, <3>4, <3>5, <4>2, <4>3
        <4>5. ASSUME NEW i \in DOMAIN rx', NEW j \in DOMAIN rx', i < j,
                     rx'[i].kind = "L4BookUpdates", rx'[j].kind = "L4BookUpdates"
              PROVE  rx'[i].height < rx'[j].height
          <5>1. i \in DOMAIN rx  BY <4>2, <4>5
          <5>2. CASE j \in DOMAIN rx  BY <3>1, <4>2, <4>5, <5>1, <5>2 DEF UpdatesInOrder
          <5>3. CASE j = Len(rx) + 1
            BY <1>2, <3>3, <3>4, <4>2, <4>3, <4>5, <5>1, <5>3
          <5>. QED  BY <4>2, <4>5, <5>2, <5>3
        <4>. QED  BY <4>4, <4>5 DEF UpdatesInOrder
      <3>. QED  BY <3>6, <3>7
    <2>. QED  BY <2>1, <2>2
  <1>10. ASSUME phase = "open", ~Ending'
         PROVE  /\ \A k, h : Queued(rx, k, h) => Queued(rx', k, h)
                /\ out'.kind # "none" => Queued(rx', out'.kind, out'.height)
    <2>1. rx' = IF out'.kind = "none" THEN rx ELSE Append(rx, out')  BY <1>8, <1>10
    <2>2. \A i \in DOMAIN rx : i \in DOMAIN rx' /\ rx'[i] = rx[i]
      BY <1>1, <1>2, <2>1, AppendFacts DEF CTypeOK
    <2>3. out'.kind # "none" => Len(rx) + 1 \in DOMAIN rx' /\ rx'[Len(rx) + 1] = out'
      BY <1>1, <1>2, <2>1, AppendFacts DEF CTypeOK
    <2>4. ASSUME NEW k, NEW h, Queued(rx, k, h) PROVE Queued(rx', k, h)
      BY <2>2, <2>4 DEF Queued
    <2>. QED  BY <2>3, <2>4 DEF Queued
  <1>11. NothingMissed'
    <2>. SUFFICES ASSUME phase = "open", "L4Book" \in subscriptions, ~Ending'
                  PROVE  NothingMissed'
      BY <1>2 DEF NothingMissed
    <2>1. ~Ending /\ out'.kind # "Gap"  BY <1>8
    <2>2. /\ Up /\ client.l4book = book /\ ~client.hole
          /\ \A b \in Touched : client.l4 < b /\ b =< height => Queued(rx, "L4BookUpdates", b)
      BY <2>1 DEF CInv, NothingMissed, Waiting, Queued
    <2>3. /\ Up' /\ book' = book
          /\ \/ height' = height
             \/ height' = height + 1 /\ out'.kind = "L4BookUpdates" /\ out'.height = height'
      BY <1>1, <1>2, <2>1, <2>2, SourceFacts DEF Up
    <2>4. ASSUME NEW b \in Touched, client.l4 < b, b =< height'
          PROVE  Queued(rx', "L4BookUpdates", b)
      <3>1. CASE b =< height  BY <1>10, <2>2, <2>4, <3>1
      <3>2. CASE ~(b =< height)
        <4>1. b = height' /\ out'.kind = "L4BookUpdates" /\ out'.height = b
          BY <1>2, <2>3, <2>4, <3>2
        <4>. QED  BY <1>10, <4>1
      <3>. QED  BY <3>1, <3>2
    <2>. QED  BY <1>2, <2>2, <2>3, <2>4 DEF NothingMissed, Waiting, Queued
  <1>12. L2NotStale'
    <2>. SUFFICES ASSUME phase = "open", "L2Book" \in subscriptions, ~Ending'
                  PROVE  L2NotStale'
      BY <1>2 DEF L2NotStale
    <2>1. ~Ending /\ out'.kind # "Gap"  BY <1>8
    <2>2. client.l2 >= announced \/ Queued(rx, "Snapshot", announced)
      BY <2>1 DEF CInv, L2NotStale, Waiting, Queued
    <2>3. client'.l2 >= announced' \/ Queued(rx', "Snapshot", announced')
      <3>1. CASE out'.kind = "Snapshot"
        <4>1. announced' = out'.height  BY <1>1, <3>1, SourceFacts
        <4>. QED  BY <1>10, <3>1, <4>1
      <3>2. CASE out'.kind # "Snapshot"
        <4>1. announced' = announced  BY <1>1, <2>1, <3>2, SourceFacts
        <4>. QED  BY <1>2, <1>10, <2>2, <4>1
      <3>. QED  BY <3>1, <3>2
    <2>. QED  BY <2>3 DEF L2NotStale, Waiting, Queued
  <1>. QED  BY <1>3, <1>4, <1>6, <1>7, <1>9, <1>11, <1>12 DEF CInv

\* A connection that ends leaves nothing behind, whatever it held.
LEMMA StepClosed == CInv /\ Closed /\ UNCHANGED source => CInv'
  <1>. SUFFICES ASSUME CInv, Closed, UNCHANGED source PROVE CInv'
    OBVIOUS
  <1>. USE ConnectionAssumption
  <1>1. /\ phase' = "closed" /\ internal_message_rx' = <<>> /\ lagged' = FALSE
        /\ known' = FALSE /\ subscriptions' = {} /\ sent_positions' = 0
        /\ client' = [l4 |-> 0, l4book |-> 0, hole |-> FALSE, l2 |-> 0]
        /\ height' = height /\ out' = out /\ book' = book /\ announced' = announced
    BY DEF Closed, NoData, source, feedVars
  <1>2. CTypeOK'
    <2>1. client' \in Clients  BY <1>1 DEF Clients
    <2>2. internal_message_rx' \in Seq(Messages) /\ Len(internal_message_rx') =< Capacity
      BY <1>1
    <2>3. lagged' \in BOOLEAN /\ known' \in BOOLEAN /\ phase' \in Phases
      BY <1>1 DEF Phases
    <2>4. subscriptions' \in SUBSET Streams /\ sent_positions' \in 0..MaxHeight
      BY <1>1
    <2>. QED  BY <1>1, <2>1, <2>2, <2>3, <2>4 DEF CInv, CTypeOK
  <1>3. ClosedClean' /\ AnnouncedBehind' /\ PositionExact'
    BY <1>1 DEF CInv, ClosedClean, AnnouncedBehind, PositionExact
  <1>4. UpdatesInOrder'  BY <1>1 DEF UpdatesInOrder
  <1>5. NothingMissed' /\ L2NotStale'  BY <1>1 DEF NothingMissed, L2NotStale
  <1>. QED  BY <1>2, <1>3, <1>4, <1>5 DEF CInv

\* The steps of handle_socket before its loop.
LEMMA StepStart == CInv /\ (Connect \/ CheckReady \/ TakeUniverse) => CInv'
  <1>. USE ConnectionAssumption
  <1>1. ASSUME CInv, UNCHANGED <<source, internal_message_rx, lagged, subscriptions,
                                 sent_positions, client>>,
               phase # "open", phase' \in Phases \ {"closed"}, known' \in BOOLEAN
        PROVE  CInv'
    <2>. USE <1>1
    <2>1. CTypeOK' /\ AnnouncedBehind' /\ PositionExact' /\ ClosedClean'
      BY DEF CInv, CTypeOK, AnnouncedBehind, PositionExact, ClosedClean, source, feedVars
    <2>2. UpdatesInOrder'
      BY DEF CInv, UpdatesInOrder, Ending, GapPending, source, feedVars
    <2>3. NothingMissed' /\ L2NotStale'
      BY DEF CInv, ClosedClean, NothingMissed, L2NotStale
    <2>. QED  BY <2>1, <2>2, <2>3 DEF CInv
  <1>. SUFFICES ASSUME CInv, Connect \/ CheckReady \/ TakeUniverse PROVE CInv'
    OBVIOUS
  <1>2. known \in BOOLEAN  BY DEF CInv, CTypeOK
  <1>3. CASE Connect     BY <1>1, <1>2, <1>3 DEF Connect, socket, Phases
  <1>4. CASE CheckReady  BY <1>1, <1>2, <1>4 DEF CheckReady, socket, Phases
  <1>5. CASE TakeUniverse /\ phase = "ready"
    BY <1>1, <1>5 DEF TakeUniverse, Phases, Up
  <1>6. CASE TakeUniverse /\ phase = "refused"
    BY <1>6, StepClosed DEF TakeUniverse
  <1>. QED  BY <1>3, <1>4, <1>5, <1>6 DEF TakeUniverse

\* What a received message leaves: the front is gone, and the connection is
\* ending after it only if it was before.
LEMMA TailQueue ==
    ASSUME CInv, internal_message_rx # <<>>, Head(internal_message_rx).kind # "Gap",
           internal_message_rx' = Tail(internal_message_rx),
           UNCHANGED <<source, lagged>>
    PROVE  /\ internal_message_rx' \in Seq(Messages)
           /\ Len(internal_message_rx') =< Capacity
           /\ UpdatesInOrder' /\ (~Ending' => ~Ending)
           /\ \A k, h : Queued(internal_message_rx, k, h) =>
                 \/ Queued(internal_message_rx', k, h)
                 \/ Head(internal_message_rx).kind = k /\ Head(internal_message_rx).height = h
  <1>. DEFINE rx == internal_message_rx
             n == Len(rx)
  <1>. USE ConnectionAssumption
  <1>1. /\ rx \in Seq(Messages) /\ n =< Capacity /\ UpdatesInOrder
        /\ height' = height
    BY DEF CInv, CTypeOK, source, feedVars
  <1>2. /\ n \in Nat \ {0} /\ Len(rx') = n - 1 /\ rx' \in Seq(Messages)
        /\ DOMAIN rx = 1..n /\ DOMAIN rx' = 1..(n - 1)
        /\ \A i \in 1..(n - 1) : rx'[i] = rx[i + 1] /\ i + 1 \in 1..n
        /\ Head(rx) = rx[1]
    BY <1>1, TailFacts
  <1>3. ~Ending' => ~Ending
    <2>. SUFFICES ASSUME ~lagged, NEW i \in DOMAIN rx, rx[i].kind = "Gap" PROVE GapPending'
      BY DEF Ending, GapPending
    <2>1. i - 1 \in DOMAIN rx' /\ rx'[i - 1] = rx[i]  BY <1>2
    <2>. QED  BY <2>1 DEF GapPending
  <1>4. UpdatesInOrder'
    <2>. SUFFICES ASSUME ~Ending, ~Ending' PROVE UpdatesInOrder'
      BY <1>3 DEF UpdatesInOrder
    <2>1. \A i \in DOMAIN rx' : rx'[i].kind = "L4BookUpdates" => rx'[i].height =< height'
      BY <1>1, <1>2 DEF UpdatesInOrder
    <2>2. ASSUME NEW i \in DOMAIN rx', NEW j \in DOMAIN rx', i < j,
                 rx'[i].kind = "L4BookUpdates", rx'[j].kind = "L4BookUpdates"
          PROVE  rx'[i].height < rx'[j].height
      <3>1. i + 1 \in DOMAIN rx /\ j + 1 \in DOMAIN rx /\ i + 1 < j + 1  BY <1>2, <2>2
      <3>. QED  BY <1>1, <1>2, <2>2, <3>1 DEF UpdatesInOrder
    <2>. QED  BY <2>1, <2>2 DEF UpdatesInOrder
  <1>5. ASSUME NEW k, NEW h, Queued(rx, k, h)
        PROVE  Queued(rx', k, h) \/ (Head(rx).kind = k /\ Head(rx).height = h)
    <2>1. PICK i \in DOMAIN rx : rx[i].kind = k /\ rx[i].height = h  BY <1>5 DEF Queued
    <2>2. CASE i = 1  BY <1>2, <2>1, <2>2
    <2>3. CASE i # 1
      <3>1. PICK j \in DOMAIN rx' : rx'[j] = rx[i]
        <4>1. i - 1 \in DOMAIN rx' /\ rx'[i - 1] = rx[i]  BY <1>2, <2>1, <2>3
        <4>. QED  BY <4>1
      <3>. QED  BY <2>1, <3>1 DEF Queued
    <2>. QED  BY <2>2, <2>3
  <1>. QED  BY <1>1, <1>2, <1>3, <1>4, <1>5

\* OfferL2 moves the client and sent_positions together, and never back.
LEMMA OfferFacts ==
    ASSUME CTypeOK, NEW h \in 0..MaxHeight, OfferL2(h), sent_positions = client.l2
    PROVE  /\ sent_positions' \in 0..MaxHeight /\ client' \in Clients
           /\ sent_positions' = client'.l2
           /\ client'.l2 >= h /\ client'.l2 >= client.l2
           /\ client'.l4 = client.l4 /\ client'.l4book = client.l4book
           /\ client'.hole = client.hole
  BY ConnectionAssumption DEF OfferL2, CTypeOK, Clients

\* A Snapshot that is received: sent_positions keeps an older one back
\* (handle_socket, send_ws_data_from_snapshot).
LEMMA StepSnapshot ==
    ASSUME CInv, phase = "open", internal_message_rx # <<>>,
           NEW fresh \in BOOLEAN, OnSnapshot(Head(internal_message_rx), fresh),
           UNCHANGED source
    PROVE  CInv'
  <1>. DEFINE rx == internal_message_rx
             m == Head(rx)
  <1>1. CASE "L2Book" \in subscriptions /\ ~fresh
    BY <1>1, StepClosed DEF OnSnapshot
  <1>2. CASE ~("L2Book" \in subscriptions /\ ~fresh)
    <2>1. /\ known' = TRUE /\ rx' = Tail(rx)
          /\ IF "L2Book" \in subscriptions THEN OfferL2(m.height)
             ELSE UNCHANGED <<sent_positions, client>>
          /\ UNCHANGED <<phase, lagged, subscriptions>>
          /\ m.kind = "Snapshot"
      BY <1>2 DEF OnSnapshot
    <2>2. /\ rx' \in Seq(Messages) /\ Len(rx') =< Capacity /\ UpdatesInOrder' /\ (~Ending' => ~Ending)
          /\ \A k, h : Queued(rx, k, h) => Queued(rx', k, h) \/ (m.kind = k /\ m.height = h)
      <3>1. UNCHANGED <<source, lagged>>  BY <2>1
      <3>. QED  BY <2>1, <3>1, TailQueue
    <2>3. m.height \in 0..MaxHeight
      BY TailFacts, MessageFacts DEF CInv, CTypeOK
    <2>4. /\ sent_positions' \in 0..MaxHeight /\ client' \in Clients
          /\ PositionExact'
          /\ "L2Book" \in subscriptions =>
                client'.l2 >= m.height /\ client'.l2 >= client.l2
          /\ client'.l4 = client.l4 /\ client'.l4book = client.l4book
          /\ client'.hole = client.hole
      <3>1. CASE "L2Book" \in subscriptions
        BY <2>1, <2>3, <3>1, OfferFacts DEF CInv, PositionExact
      <3>2. CASE "L2Book" \notin subscriptions
        BY <2>1, <3>2 DEF CInv, PositionExact, CTypeOK
      <3>. QED  BY <3>1, <3>2
    <2>5. /\ height' = height /\ out' = out /\ book' = book /\ announced' = announced
          /\ phase' = phase /\ lagged' = lagged /\ subscriptions' = subscriptions
      BY <2>1 DEF source, feedVars
    <2>6. CTypeOK' /\ ClosedClean' /\ AnnouncedBehind'
      BY <2>1, <2>2, <2>4, <2>5 DEF CInv, CTypeOK, ClosedClean, AnnouncedBehind
    <2>7. NothingMissed'
      <3>. SUFFICES ASSUME "L4Book" \in subscriptions, ~Ending, ~Ending' PROVE NothingMissed'
        BY <2>2, <2>5 DEF NothingMissed
      <3>1. /\ Up /\ client.l4book = book /\ ~client.hole
            /\ \A b \in Touched : client.l4 < b /\ b =< height => Queued(rx, "L4BookUpdates", b)
        BY DEF CInv, NothingMissed, Waiting, Queued
      <3>2. \A b \in Touched : client.l4 < b /\ b =< height => Queued(rx', "L4BookUpdates", b)
        BY <2>1, <2>2, <3>1
      <3>. QED  BY <2>4, <2>5, <3>1, <3>2 DEF NothingMissed, Waiting, Queued, Up
    <2>8. L2NotStale'
      <3>. SUFFICES ASSUME "L2Book" \in subscriptions, ~Ending
                    PROVE  client'.l2 >= announced \/ Queued(rx', "Snapshot", announced)
        BY <2>2, <2>5 DEF L2NotStale, Waiting, Queued
      <3>1. client.l2 >= announced \/ Queued(rx, "Snapshot", announced)
        BY DEF CInv, L2NotStale, Waiting, Queued
      <3>2. client.l2 \in 0..MaxHeight /\ client'.l2 \in 0..MaxHeight /\ announced \in 0..MaxHeight
        BY <2>4 DEF CInv, CTypeOK, Clients
      <3>3. CASE client.l2 >= announced
        BY <2>4, <3>2, <3>3, ConnectionAssumption
      <3>4. CASE Queued(rx, "Snapshot", announced)
        BY <2>2, <2>4, <3>4
      <3>. QED  BY <3>1, <3>3, <3>4
    <2>. QED  BY <2>2, <2>4, <2>6, <2>7, <2>8 DEF CInv
  <1>. QED  BY <1>1, <1>2

\* What the client makes of a block keeps its other fields.
LEMMA UpdatedFacts ==
    ASSUME client \in Clients, NEW h \in 1..MaxHeight
    PROVE  /\ Updated(h) \in Clients
           /\ Updated(h).l2 = client.l2 /\ Updated(h).l4book = client.l4book
           /\ Updated(h).l4 = IF h > client.l4 THEN h ELSE client.l4
           /\ Updated(h).hole = (client.hole \/ \E b \in Touched : client.l4 < b /\ b < h)
  <1>. DEFINE l == IF h > client.l4 THEN h ELSE client.l4
             f == client.hole \/ \E b \in Touched : client.l4 < b /\ b < h
  <1>1. client.l4 \in 0..MaxHeight  BY DEF Clients
  <1>2. l \in 0..MaxHeight  BY <1>1, ConnectionAssumption
  <1>3. f \in BOOLEAN  OBVIOUS
  <1>4. Updated(h) = [client EXCEPT !.l4 = l, !.hole = f]  BY DEF Updated, Clients
  <1>. HIDE DEF l, f
  <1>5. Updated(h) \in Clients /\ Updated(h).l2 = client.l2
        /\ Updated(h).l4book = client.l4book /\ Updated(h).l4 = l /\ Updated(h).hole = f
    BY <1>2, <1>3, <1>4 DEF Clients
  <1>. QED  BY <1>5 DEF l, f

\* A block that is received leaves no hole: what the client lacked before it is
\* still queued behind it, and what is queued behind it is later.
LEMMA StepUpdates ==
    ASSUME CInv, phase = "open", internal_message_rx # <<>>,
           NEW fresh \in BOOLEAN, OnUpdates(Head(internal_message_rx), fresh),
           UNCHANGED source
    PROVE  CInv'
  <1>. DEFINE rx == internal_message_rx
             m == Head(rx)
  <1>. USE ConnectionAssumption
  <1>1. CASE "L4Book" \in subscriptions /\ ~fresh
    BY <1>1, StepClosed DEF OnUpdates
  <1>2. CASE ~("L4Book" \in subscriptions /\ ~fresh)
    <2>1. /\ rx' = Tail(rx)
          /\ client' = IF "L4Book" \in subscriptions /\ m.height \in Touched
                       THEN Updated(m.height) ELSE client
          /\ UNCHANGED <<phase, lagged, known, subscriptions, sent_positions>>
          /\ m.kind = "L4BookUpdates"
      BY <1>2 DEF OnUpdates
    <2>2. /\ rx' \in Seq(Messages) /\ Len(rx') =< Capacity /\ UpdatesInOrder' /\ (~Ending' => ~Ending)
          /\ \A k, h : Queued(rx, k, h) => Queued(rx', k, h) \/ (m.kind = k /\ m.height = h)
      <3>1. UNCHANGED <<source, lagged>>  BY <2>1
      <3>. QED  BY <2>1, <3>1, TailQueue
    <2>3. /\ m.height \in 1..MaxHeight /\ m = rx[1] /\ 1 \in DOMAIN rx
          /\ DOMAIN rx = 1..Len(rx) /\ Len(rx) \in Nat
      BY <2>1, TailFacts, MessageFacts DEF CInv, CTypeOK
    <2>4. /\ height' = height /\ out' = out /\ book' = book /\ announced' = announced
          /\ phase' = phase /\ lagged' = lagged /\ subscriptions' = subscriptions
          /\ sent_positions' = sent_positions /\ known' = known
      BY <2>1 DEF source, feedVars
    <2>. client \in Clients /\ client.l4 \in 0..MaxHeight  BY DEF CInv, CTypeOK, Clients
    <2>5. /\ client' \in Clients /\ client'.l2 = client.l2
          /\ client'.l4book = client.l4book
          /\ client.l4 \in 0..MaxHeight
      BY <2>1, <2>3, UpdatedFacts
    <2>6. CTypeOK' /\ ClosedClean' /\ AnnouncedBehind' /\ PositionExact'
      BY <2>2, <2>4, <2>5 DEF CInv, CTypeOK, ClosedClean, AnnouncedBehind, PositionExact
    <2>7. L2NotStale'
      <3>. SUFFICES ASSUME "L2Book" \in subscriptions, ~Ending
                    PROVE  client.l2 >= announced \/ Queued(rx', "Snapshot", announced)
        BY <2>2, <2>4, <2>5 DEF L2NotStale, Waiting, Queued
      <3>1. client.l2 >= announced \/ Queued(rx, "Snapshot", announced)
        BY DEF CInv, L2NotStale, Waiting, Queued
      <3>. QED  BY <2>1, <2>2, <3>1
    <2>8. NothingMissed'
      <3>. SUFFICES ASSUME "L4Book" \in subscriptions, ~Ending, ~Ending' PROVE NothingMissed'
        BY <2>2, <2>4 DEF NothingMissed
      <3>1. /\ Up /\ client.l4book = book /\ ~client.hole
            /\ \A b \in Touched : client.l4 < b /\ b =< height => Queued(rx, "L4BookUpdates", b)
        BY DEF CInv, NothingMissed, Waiting, Queued
      <3>2. CASE m.height \notin Touched
        <4>1. client' = client  BY <2>1, <3>2
        <4>2. \A b \in Touched : client.l4 < b /\ b =< height => Queued(rx', "L4BookUpdates", b)
          BY <2>2, <3>1, <3>2
        <4>. QED  BY <2>4, <3>1, <4>1, <4>2 DEF NothingMissed, Waiting, Queued, Up
      <3>3. CASE m.height \in Touched
        <4>1. /\ client'.l4 = IF m.height > client.l4 THEN m.height ELSE client.l4
              /\ client'.hole = (client.hole
                                 \/ \E b \in Touched : client.l4 < b /\ b < m.height)
          BY <2>1, <2>3, <3>3, UpdatedFacts
        <4>2. ASSUME NEW b \in Touched, client.l4 < b, b < m.height PROVE FALSE
          <5>1. b \in 1..MaxHeight /\ m.height =< height /\ height \in 0..MaxHeight
            BY <2>1, <2>3 DEF CInv, CTypeOK, UpdatesInOrder
          <5>2. b =< height  BY <2>3, <4>2, <5>1
          <5>3. PICK i \in DOMAIN rx : rx[i].kind = "L4BookUpdates" /\ rx[i].height = b
            BY <3>1, <4>2, <5>2 DEF Queued
          <5>4. i # 1  BY <2>3, <4>2, <5>1, <5>3
          <5>5. m.height < b
            BY <2>1, <2>3, <5>3, <5>4 DEF CInv, UpdatesInOrder
          <5>. QED  BY <2>3, <4>2, <5>1, <5>5
        <4>3. \A b \in Touched : client'.l4 < b /\ b =< height => Queued(rx', "L4BookUpdates", b)
          BY <2>2, <2>3, <2>5, <3>1, <4>1
        <4>4. ~client'.hole  BY <3>1, <4>1, <4>2
        <4>. QED  BY <2>4, <2>5, <3>1, <4>3, <4>4 DEF NothingMissed, Waiting, Queued, Up
      <3>. QED  BY <3>2, <3>3
    <2>. QED  BY <2>2, <2>6, <2>7, <2>8 DEF CInv
  <1>. QED  BY <1>1, <1>2

\* The branch of the select loop that receives (handle_socket).
LEMMA StepRecv == CInv /\ Recv => CInv'
  <1>. SUFFICES ASSUME CInv, Recv PROVE CInv'
    OBVIOUS
  <1>. DEFINE rx == internal_message_rx
  <1>1. phase = "open" /\ UNCHANGED source  BY DEF Recv
  <1>2. CASE lagged  BY <1>1, <1>2, StepClosed DEF Recv
  <1>3. CASE ~lagged
    <2>1. PICK fresh \in BOOLEAN : \/ OnSnapshot(Head(rx), fresh)
                                   \/ OnUpdates(Head(rx), fresh)
                                   \/ OnGap(Head(rx))
      BY <1>3 DEF Recv
    <2>2. rx # <<>>  BY <1>3 DEF Recv
    <2>3. CASE OnGap(Head(rx))  BY <1>1, <2>3, StepClosed DEF OnGap
    <2>. QED  BY <1>1, <2>1, <2>2, <2>3, StepSnapshot, StepUpdates
  <1>. QED  BY <1>2, <1>3

\* Subscribing reads the book and the universe under the listener's lock.
LEMMA StepSubscribe == CInv /\ (SubscribeL2 \/ SubscribeL4) => CInv'
  <1>. SUFFICES ASSUME CInv, SubscribeL2 \/ SubscribeL4 PROVE CInv'
    OBVIOUS
  <1>. USE ConnectionAssumption
  <1>. DEFINE rx == internal_message_rx
  <1>1. /\ height' = height /\ out' = out /\ book' = book /\ announced' = announced
        /\ phase = "open" /\ phase' = phase /\ rx' = rx /\ lagged' = lagged /\ known' = known
        /\ height \in 1..MaxHeight /\ book \in 0..MaxGaps /\ Up
    BY DEF SubscribeL2, SubscribeL4, source, feedVars, CInv, CTypeOK, Up
  <1>2. ~Ending' => ~Ending  BY <1>1 DEF Ending, GapPending
  <1>3. UpdatesInOrder' /\ AnnouncedBehind'
    BY <1>1, <1>2 DEF UpdatesInOrder, AnnouncedBehind, CInv
  <1>4. CASE SubscribeL2
    <2>1. /\ subscriptions' = subscriptions \union {"L2Book"} /\ "L2Book" \notin subscriptions
          /\ sent_positions = 0
      BY <1>4 DEF SubscribeL2, CInv, PositionExact
    <2>2. sent_positions' = height /\ client' = [client EXCEPT !.l2 = height]
      BY <1>1, <1>4, <2>1 DEF SubscribeL2, OfferL2
    <2>3. /\ client' \in Clients /\ client'.l2 = height /\ client'.l4 = client.l4
          /\ client'.l4book = client.l4book /\ client'.hole = client.hole
      BY <1>1, <2>2 DEF CInv, CTypeOK, Clients
    <2>4. CTypeOK' /\ ClosedClean' /\ PositionExact'
      BY <1>1, <2>1, <2>2, <2>3 DEF CInv, CTypeOK, ClosedClean, PositionExact, Streams
    <2>5. NothingMissed'
      BY <1>1, <1>2, <2>1, <2>3 DEF CInv, NothingMissed, Waiting, Up
    <2>6. L2NotStale'
      BY <1>1, <2>3 DEF CInv, L2NotStale, AnnouncedBehind
    <2>. QED  BY <1>3, <2>4, <2>5, <2>6 DEF CInv
  <1>5. CASE SubscribeL4
    <2>1. /\ subscriptions' = subscriptions \union {"L4Book"}
          /\ sent_positions' = sent_positions
          /\ client' = [client EXCEPT !.l4 = height, !.l4book = book, !.hole = FALSE]
      BY <1>5 DEF SubscribeL4
    <2>2. /\ client' \in Clients /\ client'.l2 = client.l2 /\ client'.l4 = height
          /\ client'.l4book = book /\ client'.hole = FALSE
      BY <1>1, <2>1 DEF CInv, CTypeOK, Clients
    <2>3. CTypeOK' /\ ClosedClean' /\ PositionExact'
      BY <1>1, <2>1, <2>2 DEF CInv, CTypeOK, ClosedClean, PositionExact, Streams
    <2>4. NothingMissed'
      BY <1>1, <2>2 DEF NothingMissed, Up
    <2>5. L2NotStale'
      BY <1>1, <1>2, <2>1, <2>2 DEF CInv, L2NotStale, Waiting
    <2>. QED  BY <1>3, <2>3, <2>4, <2>5 DEF CInv
  <1>. QED  BY <1>4, <1>5

\* Unsubscribing forgets the stream's position (receive_client_message).
LEMMA StepUnsubscribe ==
    ASSUME CInv, NEW stream \in Streams, Unsubscribe(stream)
    PROVE  CInv'
  <1>. USE ConnectionAssumption
  <1>. DEFINE rx == internal_message_rx
  <1>1. /\ height' = height /\ out' = out /\ book' = book /\ announced' = announced
        /\ phase = "open" /\ phase' = phase /\ rx' = rx /\ lagged' = lagged /\ known' = known
        /\ subscriptions' = subscriptions \ {stream}
    BY DEF Unsubscribe, source, feedVars
  <1>2. ~Ending' => ~Ending  BY <1>1 DEF Ending, GapPending
  <1>3. UpdatesInOrder' /\ AnnouncedBehind'
    BY <1>1, <1>2 DEF UpdatesInOrder, AnnouncedBehind, CInv
  <1>4. \/ /\ stream = "L2Book"
           /\ sent_positions' = 0 /\ client' = [client EXCEPT !.l2 = 0]
        \/ /\ stream = "L4Book"
           /\ sent_positions' = sent_positions
           /\ client' = [client EXCEPT !.l4 = 0, !.l4book = 0, !.hole = FALSE]
    BY DEF Unsubscribe, Streams
  <1>5. CASE stream = "L2Book"
    <2>1. /\ client' \in Clients /\ client'.l4 = client.l4 /\ sent_positions' = 0
          /\ client'.l4book = client.l4book /\ client'.hole = client.hole
      BY <1>4, <1>5 DEF CInv, CTypeOK, Clients
    <2>2. CTypeOK' /\ ClosedClean' /\ PositionExact'
      BY <1>1, <1>5, <2>1 DEF CInv, CTypeOK, ClosedClean, PositionExact
    <2>3. NothingMissed'
      BY <1>1, <1>2, <1>5, <2>1 DEF CInv, NothingMissed, Waiting, Up
    <2>4. L2NotStale'  BY <1>1, <1>5 DEF L2NotStale
    <2>. QED  BY <1>3, <2>2, <2>3, <2>4 DEF CInv
  <1>6. CASE stream = "L4Book"
    <2>1. /\ client' \in Clients /\ client'.l2 = client.l2
          /\ sent_positions' = sent_positions
      <3>1. /\ sent_positions' = sent_positions
            /\ client' = [client EXCEPT !.l4 = 0, !.l4book = 0, !.hole = FALSE]
        BY <1>4, <1>6
      <3>2. 0 \in 0..MaxHeight /\ 0 \in 0..MaxGaps  OBVIOUS
      <3>3. client \in Clients  BY DEF CInv, CTypeOK
      <3>. QED  BY <3>1, <3>2, <3>3 DEF Clients
    <2>2. CTypeOK' /\ ClosedClean' /\ PositionExact'
      BY <1>1, <1>6, <2>1 DEF CInv, CTypeOK, ClosedClean, PositionExact
    <2>3. NothingMissed'  BY <1>1, <1>6 DEF NothingMissed
    <2>4. L2NotStale'
      BY <1>1, <1>2, <1>6, <2>1 DEF CInv, L2NotStale, Waiting
    <2>. QED  BY <1>3, <2>2, <2>3, <2>4 DEF CInv
  <1>. QED  BY <1>5, <1>6 DEF Streams

-----------------------------------------------------------------------------
(* The theorems *)

\* The invariant holds before anyone connects.
LEMMA CInvInit == CInit => CInv
  <1>. SUFFICES ASSUME CInit PROVE CInv
    OBVIOUS
  <1>. USE ConnectionAssumption
  <1>1. client \in Clients /\ client.l2 = 0  BY DEF CInit, NoData, Clients
  <1>2. internal_message_rx \in Seq(Messages) /\ Len(internal_message_rx) =< Capacity
    BY DEF CInit
  <1>3. CTypeOK
    <2>1. lagged \in BOOLEAN /\ known \in BOOLEAN /\ phase \in Phases
      BY DEF CInit, Phases
    <2>2. /\ height \in 0..MaxHeight /\ out \in Messages /\ book \in 0..MaxGaps
          /\ announced \in 0..MaxHeight /\ sent_positions \in 0..MaxHeight
          /\ subscriptions \in SUBSET Streams
      BY DEF CInit, FeedInit
    <2>. QED  BY <1>1, <1>2, <2>1, <2>2 DEF CTypeOK
  <1>4. ClosedClean /\ AnnouncedBehind /\ PositionExact
    BY DEF CInit, FeedInit, ClosedClean, AnnouncedBehind, PositionExact
  <1>5. UpdatesInOrder  BY DEF CInit, UpdatesInOrder
  <1>6. NothingMissed /\ L2NotStale  BY DEF CInit, NothingMissed, L2NotStale
  <1>. QED  BY <1>3, <1>4, <1>5, <1>6 DEF CInv

\* Every step of the listener, of the connection and of the client keeps it.
LEMMA CInvStep == CInv /\ [CNext]_cvars => CInv'
  <1>. SUFFICES ASSUME CInv, [CNext]_cvars PROVE CInv'
    OBVIOUS
  <1>1. CASE Source  BY <1>1, StepSource
  <1>2. CASE Connect \/ CheckReady \/ TakeUniverse  BY <1>2, StepStart
  <1>3. CASE Disconnect  BY <1>3, StepClosed DEF Disconnect
  <1>4. CASE Recv  BY <1>4, StepRecv
  <1>5. CASE SubscribeL2 \/ SubscribeL4  BY <1>5, StepSubscribe
  <1>6. CASE \E stream \in Streams : Unsubscribe(stream)  BY <1>6, StepUnsubscribe
  <1>7. CASE UNCHANGED cvars
    <2>. USE <1>7 DEF cvars, feedVars
    <2>1. CTypeOK' /\ ClosedClean' /\ AnnouncedBehind' /\ PositionExact'
      BY DEF CInv, CTypeOK, ClosedClean, AnnouncedBehind, PositionExact
    <2>2. UpdatesInOrder'  BY DEF CInv, UpdatesInOrder, Ending, GapPending
    <2>3. NothingMissed'  BY DEF CInv, NothingMissed, Ending, GapPending, Waiting, Up
    <2>4. L2NotStale'  BY DEF CInv, L2NotStale, Ending, GapPending, Waiting
    <2>. QED  BY <2>1, <2>2, <2>3, <2>4 DEF CInv
  <1>. QED  BY <1>1, <1>2, <1>3, <1>4, <1>5, <1>6, <1>7 DEF CNext

\* An L4Book client misses nothing, for every capacity of the channel: between
\* the snapshot it was given and the live book every block that touches the
\* coin is queued, or the connection is about to end (handle_socket,
\* receive_client_message, send_l4_batch).
THEOREM ClientMissesNothing == CSpec => []NothingMissed
  <1>1. CInv => NothingMissed  BY DEF CInv
  <1>. QED  BY <1>1, CInvInit, CInvStep, PTL DEF CSpec

\* An L2Book client is not left behind the last view published of this book
\* (send_ws_data_from_snapshot, sent_positions).
THEOREM ClientNotStale == CSpec => []L2NotStale
  <1>1. CInv => L2NotStale  BY DEF CInv
  <1>. QED  BY <1>1, CInvInit, CInvStep, PTL DEF CSpec

\* A subscribed client never sees an L2Book go back in height
\* (send_ws_data_from_snapshot, sent_positions).
THEOREM ClientL2Forward == CSpec => L2Forward
  <1>. DEFINE Forward == phase' = "open" /\ "L2Book" \in subscriptions \intersect subscriptions'
                           => client'.l2 >= client.l2
  <1>1. ASSUME CInv, [CNext]_cvars PROVE [Forward]_cvars
    <2>. SUFFICES ASSUME CNext, phase' = "open", "L2Book" \in subscriptions,
                         "L2Book" \in subscriptions'
                  PROVE  client'.l2 >= client.l2
      BY <1>1
    <2>1. /\ CTypeOK /\ sent_positions = client.l2 /\ client \in Clients
          /\ client.l2 \in 0..MaxHeight
      BY <1>1 DEF CInv, PositionExact, CTypeOK, Clients
    <2>2. client' = client => client'.l2 >= client.l2
      BY <2>1, ConnectionAssumption
    <2>3. CASE Source  BY <2>2, <2>3 DEF Source, socket
    <2>4. CASE Connect \/ CheckReady \/ TakeUniverse \/ Disconnect
      BY <2>2, <2>4 DEF Connect, CheckReady, TakeUniverse, Disconnect, Closed, socket
    <2>5. CASE Recv
      <3>1. CASE lagged  BY <2>5, <3>1 DEF Recv, Closed
      <3>2. CASE ~lagged
        <4>. DEFINE m == Head(internal_message_rx)
        <4>1. PICK fresh \in BOOLEAN : OnSnapshot(m, fresh) \/ OnUpdates(m, fresh) \/ OnGap(m)
          BY <2>5, <3>2 DEF Recv
        <4>2. CASE OnGap(m)  BY <4>2 DEF OnGap, Closed
        <4>3. CASE OnUpdates(m, fresh)
          <5>1. client' = client \/ client' = Updated(m.height)
            BY <4>3 DEF OnUpdates, Closed
          <5>2. internal_message_rx # <<>>  BY <2>5, <3>2 DEF Recv
          <5>3. m.height \in 1..MaxHeight
            BY <2>1, <4>3, <5>2, TailFacts, MessageFacts DEF CTypeOK, OnUpdates
          <5>. QED  BY <2>1, <2>2, <5>1, <5>3, UpdatedFacts, ConnectionAssumption
        <4>4. CASE OnSnapshot(m, fresh)
          <5>1. internal_message_rx # <<>>  BY <2>5, <3>2 DEF Recv
          <5>2. m.height \in 0..MaxHeight
            BY <2>1, <5>1, TailFacts, MessageFacts DEF CTypeOK
          <5>3. OfferL2(m.height)  BY <4>4 DEF OnSnapshot, Closed
          <5>. QED  BY <2>1, <5>2, <5>3, OfferFacts
        <4>. QED  BY <4>1, <4>2, <4>3, <4>4
      <3>. QED  BY <3>1, <3>2
    <2>6. CASE SubscribeL2  BY <2>6 DEF SubscribeL2
    <2>7. CASE SubscribeL4
      <3>1. client' = [client EXCEPT !.l4 = height, !.l4book = book, !.hole = FALSE]
        BY <2>7 DEF SubscribeL4
      <3>. QED  BY <2>1, <3>1, ConnectionAssumption DEF Clients
    <2>8. CASE \E stream \in Streams : Unsubscribe(stream)
      <3>1. PICK stream \in Streams : Unsubscribe(stream)  BY <2>8
      <3>2. stream # "L2Book"  BY <3>1 DEF Unsubscribe
      <3>3. client' = [client EXCEPT !.l4 = 0, !.l4book = 0, !.hole = FALSE]
        BY <3>1, <3>2 DEF Unsubscribe
      <3>. QED  BY <2>1, <3>3, ConnectionAssumption DEF Clients
    <2>. QED  BY <2>3, <2>4, <2>5, <2>6, <2>7, <2>8 DEF CNext
  <1>2. CSpec => []CInv  BY CInvInit, CInvStep, PTL DEF CSpec
  <1>3. CInv /\ [CNext]_cvars => [Forward]_cvars  BY <1>1
  <1>. QED  BY <1>2, <1>3, PTL DEF CSpec, L2Forward

-----------------------------------------------------------------------------
(* L2Views *)

Books  == UNION {[cs -> 0..MaxBook] : cs \in SUBSET Coins}
Frames == [book : 0..MaxBook, time : Nat, height : Nat]
States == [height : Nat \ {0}, time : Nat, snapped : BOOLEAN, books : Books,
           cache : Addrs, dirty : SUBSET Coins]
ViewRecords == [addr : Addrs, time : Nat, height : Nat, shown : Books]
Wires  == [position : {NoPosition} \cup (Addrs \X Nat \X Nat), source : Nat,
           entries : UNION {[cs -> Frames] : cs \in SUBSET Coins}, bytes : Nat]

-----------------------------------------------------------------------------
(* What must hold of each owner of an Arc, given the heap h.               *)

HeapOK(h) == DOMAIN h \subseteq Addrs /\ \A a \in DOMAIN h : h[a] \in Books

\* The map m has the books of every coin that is not dirty, and no others.
Clean(m, books, dirty) ==
    /\ dirty \subseteq DOMAIN books
    /\ DOMAIN m \subseteq DOMAIN books
    /\ \A c \in DOMAIN books : c \notin dirty => c \in DOMAIN m /\ m[c] = books[c]

LiveOK(h, l) ==
    l # NoState => /\ l \in States
                   /\ l.cache \in DOMAIN h
                   /\ Clean(h[l.cache], l.books, l.dirty)

PinOK(h, p) == p # NoAddr => p \in DOMAIN h

ViewOK(h, v) ==
    /\ v \in ViewRecords
    /\ v.addr \in DOMAIN h
    /\ h[v.addr] = v.shown

\* fr is the encoding of the view m of coin c.
Encodes(fr, m, c, t, ht) ==
    /\ fr.time = t /\ fr.height = ht
    /\ Length(fr.book) =< MaxFrame
    /\ c \in DOMAIN m => fr.book = m[c]
    /\ c \notin DOMAIN m => c \in Hip4Coins /\ fr.book = Empty

\* The source is retained, and every frame is an encoding of what is there.
WireOK(h, w) ==
    /\ w \in Wires
    /\ w.position = NoPosition => w.source = NoAddr /\ DOMAIN w.entries = {}
    /\ w.position # NoPosition =>
          /\ w.source = w.position[1] /\ w.source \in DOMAIN h
          /\ \A c \in DOMAIN w.entries :
                Encodes(w.entries[c], h[w.source], c, w.position[2], w.position[3])

Sound(h, l, p, vs, w) ==
    /\ HeapOK(h) /\ LiveOK(h, l) /\ PinOK(h, p)
    /\ \A v \in vs : ViewOK(h, v)
    /\ WireOK(h, w)

VInv == Sound(heap, live, pinned, views, wire)

-----------------------------------------------------------------------------
(* Maps of books *)

LEMMA BooksFacts ==
    ASSUME NEW b \in Books
    PROVE  /\ DOMAIN b \subseteq Coins
           /\ b = [c \in DOMAIN b |-> b[c]]
           /\ \A c \in DOMAIN b : b[c] \in 0..MaxBook
  BY DEF Books

LEMMA BooksIntro ==
    ASSUME NEW b, NEW cs \in SUBSET Coins, b \in [cs -> 0..MaxBook]
    PROVE  b \in Books
  BY DEF Books

\* A map that is clean although nothing is dirty is the books themselves.
LEMMA CleanIsEqual ==
    ASSUME NEW m \in Books, NEW b \in Books, Clean(m, b, {})
    PROVE  m = b
  <1>1. m = [c \in DOMAIN m |-> m[c]] /\ b = [c \in DOMAIN b |-> b[c]]  BY BooksFacts
  <1>2. DOMAIN m = DOMAIN b /\ \A c \in DOMAIN b : m[c] = b[c]  BY DEF Clean
  <1>. QED  BY <1>1, <1>2

\* Rebuilding the dirty coins of a clean map gives the books.
LEMMA RefreshedIsBooks ==
    ASSUME live \in States, heap[live.cache] \in Books,
           Clean(heap[live.cache], live.books, live.dirty)
    PROVE  Refreshed = live.books
  <1>1. PICK m : m = heap[live.cache]  OBVIOUS
  <1>2. PICK b : b = live.books  OBVIOUS
  <1>3. PICK d : d = live.dirty  OBVIOUS
  <1>4. b \in Books /\ Clean(m, b, d)  BY <1>1, <1>2, <1>3 DEF States
  <1>5. b = [c \in DOMAIN b |-> b[c]]  BY <1>4, BooksFacts
  <1>6. DOMAIN m \cup (d \cap DOMAIN b) = DOMAIN b  BY <1>4 DEF Clean
  <1>7. \A c \in DOMAIN b : c \notin d => m[c] = b[c]  BY <1>4 DEF Clean
  <1>8. [c \in DOMAIN m \cup (d \cap DOMAIN b) |-> IF c \in d \cap DOMAIN b THEN b[c] ELSE m[c]] = b
    BY <1>5, <1>6, <1>7
  <1>. QED  BY <1>1, <1>2, <1>3, <1>8 DEF Refreshed

\* A block's changes over the books: still books, and a map that was clean is
\* clean once the changed coins are dirty.
LEMMA OverKeepsClean ==
    ASSUME NEW m \in Books, NEW b \in Books, NEW g \in Books, NEW d \in SUBSET Coins, Clean(m, b, d)
    PROVE  /\ Over(g, b) \in Books
           /\ Clean(m, Over(g, b), d \cup DOMAIN g)
  <1>1. PICK o : o = Over(g, b)  OBVIOUS
  <1>2. /\ DOMAIN g \subseteq Coins /\ DOMAIN b \subseteq Coins
        /\ \A c \in DOMAIN g : g[c] \in 0..MaxBook
        /\ \A c \in DOMAIN b : b[c] \in 0..MaxBook
    BY BooksFacts
  <1>3. o = [c \in DOMAIN b \cup DOMAIN g |-> IF c \in DOMAIN g THEN g[c] ELSE b[c]]
    BY <1>1 DEF Over
  <1>4. o \in [DOMAIN b \cup DOMAIN g -> 0..MaxBook]  BY <1>2, <1>3
  <1>5. o \in Books  BY <1>2, <1>4, BooksIntro
  <1>6. Clean(m, o, d \cup DOMAIN g)
    BY <1>3 DEF Clean
  <1>. QED  BY <1>1, <1>5, <1>6

-----------------------------------------------------------------------------
(* Arcs *)

\* An address is free if it can be allocated.
LEMMA FreeIsFree ==
    ASSUME CanAllocate
    PROVE  Free \in Addrs /\ Free \notin DOMAIN heap
  BY DEF Free, CanAllocate

\* Freeing what nobody refers to disturbs no owner.
LEMMA ArcsSound ==
    ASSUME NEW h, NEW l, NEW p, NEW vs, NEW w, Sound(h, l, p, vs, w), Arcs(h, l, p, vs, w)
    PROVE  VInv'
  <1>1. PICK r : r = Restrict(h, Held(l, p, vs, w))  OBVIOUS
  <1>2. /\ DOMAIN r = Held(l, p, vs, w)
        /\ \A a \in DOMAIN r : r[a] = h[a]
    BY <1>1 DEF Restrict
  <1>3. /\ \A a \in DOMAIN r : a \in DOMAIN h
        /\ l # NoState => l.cache \in DOMAIN r
        /\ p # NoAddr => p \in DOMAIN r
        /\ \A v \in vs : v.addr \in DOMAIN r
        /\ w.position # NoPosition => w.source \in DOMAIN r
    <2>1. l # NoState => l.cache \in DOMAIN h /\ l.cache # NoAddr
      BY DEF Sound, LiveOK, HeapOK, Addrs, NoAddr
    <2>2. p # NoAddr => p \in DOMAIN h  BY DEF Sound, PinOK
    <2>3. \A v \in vs : v.addr \in DOMAIN h /\ v.addr # NoAddr
      BY DEF Sound, ViewOK, HeapOK, Addrs, NoAddr
    <2>4. /\ w.position # NoPosition => w.source \in DOMAIN h /\ w.source # NoAddr
          /\ w.position = NoPosition => w.source = NoAddr
      BY DEF Sound, WireOK, HeapOK, Addrs, NoAddr
    <2>. QED  BY <1>2, <2>1, <2>2, <2>3, <2>4 DEF Held
  <1>4. HeapOK(r)  BY <1>2, <1>3 DEF Sound, HeapOK
  <1>5. LiveOK(r, l)  BY <1>2, <1>3 DEF Sound, LiveOK
  <1>6. PinOK(r, p)  BY <1>3 DEF PinOK
  <1>7. \A v \in vs : ViewOK(r, v)  BY <1>2, <1>3 DEF Sound, ViewOK
  <1>8. WireOK(r, w)  BY <1>2, <1>3 DEF Sound, WireOK
  <1>9. Sound(r, l, p, vs, w)  BY <1>4, <1>5, <1>6, <1>7, <1>8 DEF Sound
  <1>. QED  BY <1>1, <1>9 DEF VInv, Arcs

\* A heap that keeps what the views, the clone and the wire cache refer to
\* keeps them sound.
Keeps(h, k, p, vs, w) ==
    /\ p # NoAddr => p \in DOMAIN k
    /\ \A v \in vs : v.addr \in DOMAIN k /\ k[v.addr] = h[v.addr]
    /\ w.position # NoPosition => w.source \in DOMAIN k /\ k[w.source] = h[w.source]

LEMMA KeptSound ==
    ASSUME NEW h, NEW l, NEW p, NEW vs, NEW w, NEW k, NEW j,
           Sound(h, l, p, vs, w), Keeps(h, k, p, vs, w), HeapOK(k), LiveOK(k, j)
    PROVE  Sound(k, j, p, vs, w)
  <1>1. PinOK(k, p)  BY DEF PinOK, Keeps
  <1>2. \A v \in vs : ViewOK(k, v)  BY DEF ViewOK, Sound, Keeps
  <1>3. WireOK(k, w)  BY DEF WireOK, Sound, Keeps
  <1>. QED  BY <1>1, <1>2, <1>3 DEF Sound

\* Writing at an address that none of them refers to keeps them.
LEMMA WithKeeps ==
    ASSUME NEW h, NEW l, NEW p, NEW vs, NEW w, Sound(h, l, p, vs, w),
           NEW a \in Addrs, NEW m \in Books,
           a \notin {p, w.source} \cup {v.addr : v \in vs}
    PROVE  /\ Keeps(h, With(h, a, m), p, vs, w)
           /\ HeapOK(With(h, a, m))
           /\ a \in DOMAIN With(h, a, m) /\ With(h, a, m)[a] = m
  <1>1. PICK k : k = With(h, a, m)  OBVIOUS
  <1>2. /\ DOMAIN k = DOMAIN h \cup {a} /\ k[a] = m
        /\ \A x \in DOMAIN h : x # a => k[x] = h[x]
    BY <1>1 DEF With
  <1>3. HeapOK(k)  BY <1>2 DEF Sound, HeapOK
  <1>4. Keeps(h, k, p, vs, w)
    <2>1. p # NoAddr => p \in DOMAIN k  BY <1>2 DEF Sound, PinOK
    <2>2. \A v \in vs : v.addr \in DOMAIN k /\ k[v.addr] = h[v.addr]
      BY <1>2 DEF Sound, ViewOK
    <2>3. w.position # NoPosition => w.source \in DOMAIN k /\ k[w.source] = h[w.source]
      BY <1>2 DEF Sound, WireOK
    <2>. QED  BY <2>1, <2>2, <2>3 DEF Keeps
  <1>. QED  BY <1>1, <1>2, <1>3, <1>4

\* Nobody refers to an address that is not allocated.
LEMMA UnallocatedUnused ==
    ASSUME NEW h, NEW l, NEW p, NEW vs, NEW w, Sound(h, l, p, vs, w),
           NEW a \in Addrs, a \notin DOMAIN h
    PROVE  a \notin {p, w.source} \cup {v.addr : v \in vs}
  <1>1. a # NoAddr  BY DEF Addrs, NoAddr
  <1>2. a # p  BY <1>1 DEF Sound, PinOK
  <1>3. \A v \in vs : a # v.addr  BY DEF Sound, ViewOK
  <1>4. a # w.source  BY <1>1 DEF Sound, WireOK
  <1>. QED  BY <1>2, <1>3, <1>4

-----------------------------------------------------------------------------
(* The book *)

LEMMA InitSound == ViewsInit => VInv
  <1>. SUFFICES ASSUME ViewsInit PROVE VInv  OBVIOUS
  <1>1. HeapOK(heap)  BY DEF ViewsInit, HeapOK, NoMap
  <1>2. LiveOK(heap, live)  BY DEF ViewsInit, LiveOK
  <1>3. PinOK(heap, pinned)  BY DEF ViewsInit, PinOK
  <1>4. WireOK(heap, wire)
    <2>1. FreshWire \in Wires
      <3>1. NoMap \in [{} -> Frames]  BY DEF NoMap
      <3>2. NoMap \in UNION {[cs -> Frames] : cs \in SUBSET Coins}  BY <3>1
      <3>. QED  BY <3>2 DEF FreshWire, Wires, NoAddr
    <2>2. FreshWire.position = NoPosition /\ FreshWire.source = NoAddr /\ DOMAIN FreshWire.entries = {}
      BY DEF FreshWire, NoMap
    <2>. QED  BY <2>1, <2>2 DEF WireOK, ViewsInit
  <1>. QED  BY <1>1, <1>2, <1>3, <1>4 DEF VInv, Sound, ViewsInit

LEMMA LoadSound ==
    ASSUME VInv, NEW b \in Snapshots, NEW ht \in SnapHeights, NEW t \in {0, ht}, Load(b, ht, t)
    PROVE  VInv'
  <1>1. PICK a : a = Free  OBVIOUS
  <1>2. a \in Addrs /\ a \notin DOMAIN heap  BY <1>1, FreeIsFree DEF Load
  <1>3. NoMap \in Books
    <2>1. NoMap \in [{} -> 0..MaxBook]  BY DEF NoMap
    <2>. QED  BY <2>1, BooksIntro
  <1>4. PICK k : k = With(heap, a, NoMap)  OBVIOUS
  <1>5. Keeps(heap, k, pinned, views, wire) /\ HeapOK(k) /\ a \in DOMAIN k /\ k[a] = NoMap
    BY <1>2, <1>3, <1>4, UnallocatedUnused, WithKeeps DEF VInv
  <1>6. PICK l : l = from_snapshot(b, ht, t)  OBVIOUS
  <1>7. b \in Books /\ ht \in Nat \ {0} /\ t \in Nat
    BY ViewsAssumption DEF Books
  <1>8. LiveOK(k, l)
    <2>1. DOMAIN b \subseteq Coins  BY <1>7, BooksFacts
    <2>2. l = [height |-> ht, time |-> t, snapped |-> FALSE, books |-> b, cache |-> a, dirty |-> DOMAIN b]
      BY <1>1, <1>6 DEF from_snapshot
    <2>3. l \in States /\ l.cache = a /\ l.books = b /\ l.dirty = DOMAIN b
      BY <1>2, <1>7, <2>1, <2>2 DEF States
    <2>4. Clean(NoMap, b, DOMAIN b)  BY DEF Clean, NoMap
    <2>. QED  BY <1>5, <2>3, <2>4 DEF LiveOK
  <1>9. Sound(k, l, pinned, views, wire)  BY <1>5, <1>8, KeptSound DEF VInv
  <1>. QED  BY <1>1, <1>4, <1>6, <1>9, ArcsSound DEF Load

LEMMA ApplyBlockSound ==
    ASSUME VInv, NEW g \in Blocks, ApplyBlock(g)
    PROVE  VInv'
  <1>1. PICK l : l = apply_updates(live, g)  OBVIOUS
  <1>2. /\ live \in States /\ live.cache \in DOMAIN heap
        /\ Clean(heap[live.cache], live.books, live.dirty)
        /\ heap[live.cache] \in Books
    BY DEF VInv, Sound, LiveOK, HeapOK, ApplyBlock
  <1>3. g \in Books  BY ViewsAssumption DEF Books
  <1>4. /\ Over(g, live.books) \in Books
        /\ Clean(heap[live.cache], Over(g, live.books), live.dirty \cup DOMAIN g)
    <2>1. live.books \in Books /\ live.dirty \in SUBSET Coins  BY <1>2 DEF States
    <2>. QED  BY <1>2, <1>3, <2>1, OverKeepsClean
  <1>5. PICK o : o = Over(g, live.books)  OBVIOUS
  <1>6. PICK d : d = live.dirty \cup DOMAIN g  OBVIOUS
  <1>7. d \in SUBSET Coins  BY <1>2, <1>3, <1>6, BooksFacts DEF States
  <1>8. l = [live EXCEPT !.height = live.height + 1, !.time = live.height + 1, !.snapped = FALSE,
                         !.books = o, !.dirty = d]
    BY <1>1, <1>5, <1>6 DEF apply_updates
  <1>9. l \in States /\ l.cache = live.cache /\ l.books = o /\ l.dirty = d
    <2>1. PICK n : n = live.height + 1  OBVIOUS
    <2>2. n \in Nat \ {0}  BY <1>2, <2>1 DEF States
    <2>3. l = [live EXCEPT !.height = n, !.time = n, !.snapped = FALSE, !.books = o, !.dirty = d]
      BY <1>8, <2>1
    <2>4. l.cache = live.cache /\ l.books = o /\ l.dirty = d  BY <1>2, <2>3 DEF States
    <2>. QED  BY <1>2, <1>4, <1>5, <1>7, <2>2, <2>3, <2>4 DEF States
  <1>10. LiveOK(heap, l)  BY <1>2, <1>4, <1>5, <1>6, <1>9 DEF LiveOK
  <1>11. Sound(heap, l, pinned, views, wire)  BY <1>10 DEF VInv, Sound
  <1>. QED  BY <1>1, <1>11, ArcsSound DEF ApplyBlock

LEMMA FenceSound ==
    ASSUME VInv, Fence
    PROVE  VInv'
  <1>1. Sound(heap, NoState, pinned, views, wire)  BY DEF VInv, Sound, LiveOK
  <1>. QED  BY <1>1, ArcsSound DEF Fence

LEMMA CloneStateSound ==
    ASSUME VInv, CloneState
    PROVE  VInv'
  <1>1. PICK a : a = live.cache  OBVIOUS
  <1>2. PinOK(heap, a)  BY <1>1 DEF VInv, Sound, LiveOK, PinOK, CloneState
  <1>3. Sound(heap, live, a, views, wire)  BY <1>2 DEF VInv, Sound
  <1>. QED  BY <1>1, <1>3, ArcsSound DEF CloneState

LEMMA DropCloneSound ==
    ASSUME VInv, DropClone
    PROVE  VInv'
  <1>1. Sound(heap, live, NoAddr, views, wire)  BY DEF VInv, Sound, PinOK
  <1>. QED  BY <1>1, ArcsSound DEF DropClone

-----------------------------------------------------------------------------
(* Views *)

\* A view computed of a sound book is the book; the map that is changed for it
\* is the book's own or a new one.
LEMMA ComputeSound ==
    ASSUME VInv, live # NoState, CanHold, NEW snap \in BOOLEAN, compute_l2_snapshot(snap)
    PROVE  VInv'
  <1>1. /\ live \in States /\ live.cache \in DOMAIN heap
        /\ Clean(heap[live.cache], live.books, live.dirty)
        /\ heap[live.cache] \in Books /\ live.books \in Books
        /\ live.cache \in Addrs
    BY DEF VInv, Sound, LiveOK, HeapOK, States
  <1>2. PICK a : a = IF live.dirty = {} THEN live.cache ELSE make_mut  OBVIOUS
  <1>3. PICK k : k = IF live.dirty = {} THEN heap ELSE With(heap, a, Refreshed)  OBVIOUS
  <1>4. PICK l : l = [live EXCEPT !.cache = a, !.dirty = {}, !.snapped = live.snapped \/ snap]  OBVIOUS
  <1>5. PICK v : v = [addr |-> a, time |-> live.time, height |-> live.height, shown |-> live.books]  OBVIOUS
  <1>6. Arcs(k, l, pinned, views \cup {v}, wire)
    BY <1>2, <1>3, <1>4, <1>5 DEF compute_l2_snapshot
  <1>7. /\ a \in Addrs
        /\ Keeps(heap, k, pinned, views, wire)
        /\ HeapOK(k)
        /\ a \in DOMAIN k /\ k[a] = live.books
    <2>1. CASE live.dirty = {}
      <3>1. a = live.cache /\ k = heap  BY <1>2, <1>3, <2>1
      <3>2. heap[live.cache] = live.books  BY <1>1, <2>1, CleanIsEqual
      <3>3. Keeps(heap, heap, pinned, views, wire)
        BY DEF Keeps, VInv, Sound, PinOK, ViewOK, WireOK
      <3>4. HeapOK(heap)  BY DEF VInv, Sound
      <3>. QED  BY <1>1, <3>1, <3>2, <3>3, <3>4
    <2>2. CASE live.dirty # {}
      <3>1. a = make_mut /\ k = With(heap, a, live.books)
        BY <1>1, <1>2, <1>3, <2>2, RefreshedIsBooks
      <3>2. a \in Addrs /\ a \notin {pinned, wire.source} \cup {u.addr : u \in views}
        <4>1. CASE SoleOwner
          BY <1>1, <3>1, <4>1 DEF make_mut, SoleOwner
        <4>2. CASE ~SoleOwner
          <5>1. a \in Addrs /\ a \notin DOMAIN heap
            BY <2>2, <3>1, <4>2, FreeIsFree DEF make_mut, CanHold
          <5>. QED  BY <5>1, UnallocatedUnused DEF VInv
        <4>. QED  BY <4>1, <4>2
      <3>. QED  BY <1>1, <3>1, <3>2, WithKeeps DEF VInv
    <2>. QED  BY <2>1, <2>2
  <1>8. LiveOK(k, l)
    <2>1. l \in States /\ l.cache = a /\ l.books = live.books /\ l.dirty = {}
      <3>1. PICK b : b = (live.snapped \/ snap)  OBVIOUS
      <3>2. b \in BOOLEAN  BY <3>1
      <3>3. l = [live EXCEPT !.cache = a, !.dirty = {}, !.snapped = b]  BY <1>4, <3>1
      <3>. QED  BY <1>1, <1>7, <3>2, <3>3 DEF States
    <2>2. Clean(live.books, live.books, {})  BY DEF Clean
    <2>. QED  BY <1>7, <2>1, <2>2 DEF LiveOK
  <1>9. ViewOK(k, v)
    <2>1. v \in ViewRecords  BY <1>1, <1>5, <1>7 DEF ViewRecords, States
    <2>2. v.addr = a /\ v.shown = live.books  BY <1>5
    <2>. QED  BY <1>7, <2>1, <2>2 DEF ViewOK
  <1>10. Sound(k, l, pinned, views, wire)  BY <1>7, <1>8, KeptSound DEF VInv
  <1>11. Sound(k, l, pinned, views \cup {v}, wire)  BY <1>9, <1>10 DEF Sound
  <1>. QED  BY <1>6, <1>11, ArcsSound

LEMMA ReleaseSound ==
    ASSUME VInv, NEW v, Release(v)
    PROVE  VInv'
  <1>1. PICK vs : vs = views \ {v}  OBVIOUS
  <1>2. Sound(heap, live, pinned, vs, wire)  BY <1>1 DEF VInv, Sound
  <1>. QED  BY <1>1, <1>2, ArcsSound DEF Release

-----------------------------------------------------------------------------
(* The wire cache *)

\* The cache is at the view's position, or the view is not cacheable.
LEMMA MovedSound ==
    ASSUME VInv, NEW v \in views
    PROVE  /\ WireOK(heap, Moved(v))
           /\ Cacheable(v) => Moved(v).position = Position(v)
           /\ Position(v) # NoPosition
           /\ Position(v)[1] = v.addr /\ Position(v)[2] = v.time /\ Position(v)[3] = v.height
  <1>1. ViewOK(heap, v) /\ WireOK(heap, wire)  BY DEF VInv, Sound
  <1>2. PICK q : q = Position(v)  OBVIOUS
  <1>3. /\ q \in Addrs \X Nat \X Nat /\ q # NoPosition
        /\ q[1] = v.addr /\ q[2] = v.time /\ q[3] = v.height
        /\ v.addr \in DOMAIN heap /\ v.addr \in Nat
    BY <1>1, <1>2 DEF Position, NoPosition, ViewOK, ViewRecords, Addrs
  <1>4. CASE Cacheable(v) /\ wire.position # q
    <2>1. PICK w : w = [FreshWire EXCEPT !.position = q, !.source = v.addr]  OBVIOUS
    <2>2. Moved(v) = w  BY <1>2, <1>4, <2>1 DEF Moved
    <2>3. w = [position |-> q, source |-> v.addr, entries |-> NoMap, bytes |-> 0]
      BY <2>1 DEF FreshWire
    <2>4. NoMap \in [{} -> Frames] /\ DOMAIN NoMap = {}  BY DEF NoMap
    <2>5. NoMap \in UNION {[cs -> Frames] : cs \in SUBSET Coins}  BY <2>4
    <2>6. w \in Wires /\ w.position = q /\ w.source = v.addr /\ DOMAIN w.entries = {}
      BY <1>3, <2>3, <2>4, <2>5 DEF Wires
    <2>7. WireOK(heap, w)  BY <1>3, <2>6 DEF WireOK
    <2>. QED  BY <1>2, <1>3, <2>2, <2>6, <2>7
  <1>5. CASE ~(Cacheable(v) /\ wire.position # q)
    <2>1. Moved(v) = wire  BY <1>2, <1>5 DEF Moved
    <2>. QED  BY <1>1, <1>2, <1>3, <1>5, <2>1
  <1>. QED  BY <1>4, <1>5

\* What is looked up in a sound view, and what becomes of it.
LEMMA LookedFacts ==
    ASSUME VInv, NEW v \in views, NEW c \in Coins
    PROVE  /\ Looked(v, c) \in 0..MaxBook \/ Looked(v, c) = -1
           /\ c \in DOMAIN v.shown => Looked(v, c) = v.shown[c]
           /\ c \notin DOMAIN v.shown /\ c \in Hip4Coins => Looked(v, c) = 0
           /\ c \notin DOMAIN v.shown /\ c \notin Hip4Coins => Looked(v, c) = -1
           /\ c \in DOMAIN v.shown => v.shown[c] \in 0..MaxBook
           /\ v.time \in Nat /\ v.height \in Nat
           /\ v.addr \in DOMAIN heap /\ heap[v.addr] = v.shown
  <1>1. ViewOK(heap, v)  BY DEF VInv, Sound
  <1>2. /\ v.shown \in Books /\ v.time \in Nat /\ v.height \in Nat
        /\ v.addr \in DOMAIN heap /\ heap[v.addr] = v.shown
    BY <1>1 DEF ViewOK, ViewRecords
  <1>3. \A x \in DOMAIN v.shown : v.shown[x] \in 0..MaxBook  BY <1>2, BooksFacts
  <1>4. 0 \in 0..MaxBook  BY ViewsAssumption
  <1>. QED  BY <1>2, <1>3, <1>4 DEF Looked, Empty

LEMMA GetSound ==
    ASSUME VInv, NEW v \in views, NEW c \in Coins, Get(v, c)
    PROVE  VInv'
  <1>1. PICK w : w = Moved(v)  OBVIOUS
  <1>2. PICK q : q = Position(v)  OBVIOUS
  <1>3. /\ WireOK(heap, w)
        /\ Cacheable(v) => w.position = q
        /\ q # NoPosition
        /\ q[1] = v.addr /\ q[2] = v.time /\ q[3] = v.height
    BY <1>1, <1>2, MovedSound
  <1>4. WireOK(heap, get(v, c))
    <2>1. CASE Hit(v, c) \/ Answer(v, c) = NoFrame \/ ~Fits(v, Looked(v, c))
      BY <1>1, <1>3, <2>1 DEF get
    <2>2. CASE ~(Hit(v, c) \/ Answer(v, c) = NoFrame \/ ~Fits(v, Looked(v, c)))
      <3>1. PICK b : b = Looked(v, c)  OBVIOUS
      <3>2. PICK fr : fr = Frame(b, v)  OBVIOUS
      <3>3. /\ b # -1 /\ b + 1 =< MaxFrame
            /\ Answer(v, c) = fr
        <4>1. ~(b = -1 \/ Length(b) > MaxFrame)  BY <2>2, <3>1 DEF Answer
        <4>2. Answer(v, c) = fr  BY <2>2, <3>1, <3>2, <4>1 DEF Answer
        <4>3. b \in Int /\ MaxFrame \in Int  BY <3>1, LookedFacts, ViewsAssumption
        <4>. QED  BY <4>1, <4>2, <4>3 DEF Length
      <3>4. /\ b \in 0..MaxBook
            /\ c \in DOMAIN heap[v.addr] => b = heap[v.addr][c]
            /\ c \notin DOMAIN heap[v.addr] => c \in Hip4Coins /\ b = 0
        BY <3>1, <3>3, LookedFacts
      <3>5. fr \in Frames /\ fr.book = b /\ fr.time = v.time /\ fr.height = v.height
        BY <3>2, <3>4, LookedFacts DEF Frames, Frame
      <3>6. Encodes(fr, heap[v.addr], c, v.time, v.height)
        BY <3>3, <3>4, <3>5 DEF Encodes, Length, Empty
      <3>7. w.position = q /\ w.source = v.addr
        BY <1>3, <2>2 DEF Fits, WireOK
      <3>8. PICK e : e = w.entries  OBVIOUS
      <3>9. PICK f : f = With(e, c, fr)  OBVIOUS
      <3>10. PICK n : n = w.bytes + (b + 1)  OBVIOUS
      <3>11. PICK x : x = [w EXCEPT !.entries = f, !.bytes = n]  OBVIOUS
      <3>12. get(v, c) = x
        BY <1>1, <2>2, <3>1, <3>3, <3>8, <3>9, <3>10, <3>11 DEF get, Length
      <3>13. PICK cs \in SUBSET Coins : e \in [cs -> Frames]
        BY <1>3, <3>8 DEF WireOK, Wires
      <3>14. /\ f \in [cs \cup {c} -> Frames]
             /\ DOMAIN f = DOMAIN e \cup {c} /\ f[c] = fr
             /\ \A z \in DOMAIN e : z # c => f[z] = e[z]
        BY <3>5, <3>9, <3>13 DEF With
      <3>15. f \in UNION {[s -> Frames] : s \in SUBSET Coins}  BY <3>14
      <3>16. n \in Nat  BY <1>3, <3>4, <3>10 DEF WireOK, Wires
      <3>17. x \in Wires /\ x.position = q /\ x.source = v.addr /\ x.entries = f
        BY <1>3, <3>7, <3>11, <3>15, <3>16 DEF WireOK, Wires
      <3>18. v.addr \in DOMAIN heap  BY LookedFacts
      <3>19. \A z \in DOMAIN f : Encodes(f[z], heap[v.addr], z, v.time, v.height)
        <4>1. \A z \in DOMAIN e : Encodes(e[z], heap[v.addr], z, v.time, v.height)
          BY <1>3, <3>7, <3>8 DEF WireOK
        <4>. QED  BY <3>6, <3>14, <4>1
      <3>. QED  BY <1>3, <3>12, <3>17, <3>18, <3>19 DEF WireOK
    <2>. QED  BY <2>1, <2>2
  <1>5. Sound(heap, live, pinned, views, get(v, c))  BY <1>4 DEF VInv, Sound
  <1>. QED  BY <1>5, ArcsSound DEF Get

-----------------------------------------------------------------------------
\* Every step keeps the heap, the book, the views and the wire cache sound.
LEMMA NextSound == VInv /\ [ViewsNext]_l2vvars => VInv'
  <1>. SUFFICES ASSUME VInv, [ViewsNext]_l2vvars PROVE VInv'  OBVIOUS
  <1>1. ASSUME NEW b \in Snapshots, NEW h \in SnapHeights, NEW t \in {0, h}, Load(b, h, t)
        PROVE  VInv'
    BY <1>1, LoadSound
  <1>2. ASSUME NEW g \in Blocks, ApplyBlock(g) PROVE VInv'  BY <1>2, ApplyBlockSound
  <1>3. CASE Fence  BY <1>3, FenceSound
  <1>4. CASE CloneState  BY <1>4, CloneStateSound
  <1>5. CASE DropClone  BY <1>5, DropCloneSound
  <1>6. CASE Publish  BY <1>6, ComputeSound DEF Publish
  <1>7. CASE SnapshotForSubscriber  BY <1>7, ComputeSound DEF SnapshotForSubscriber
  <1>8. ASSUME NEW v \in views, Release(v) PROVE VInv'  BY <1>8, ReleaseSound
  <1>9. ASSUME NEW v \in views, NEW c \in Coins, Get(v, c) PROVE VInv'  BY <1>9, GetSound
  <1>10. CASE UNCHANGED l2vvars  BY <1>10 DEF l2vvars, VInv
  <1>. QED
    BY <1>1, <1>2, <1>3, <1>4, <1>5, <1>6, <1>7, <1>8, <1>9, <1>10 DEF ViewsNext

\* The answer for a view of a sound cache is an encoding of that view: a frame
\* that is found is of the same allocation, which the cache has kept alive and
\* nobody has changed.
LEMMA AnswerExact ==
    ASSUME VInv, NEW v \in views, NEW c \in Coins
    PROVE  Answer(v, c) = IF c \in DOMAIN v.shown /\ Length(v.shown[c]) =< MaxFrame
                          THEN Frame(v.shown[c], v)
                          ELSE IF c \notin DOMAIN v.shown /\ c \in Hip4Coins /\ Length(Empty) =< MaxFrame
                          THEN Frame(Empty, v) ELSE NoFrame
  <1>1. PICK w : w = Moved(v)  OBVIOUS
  <1>2. PICK q : q = Position(v)  OBVIOUS
  <1>3. /\ WireOK(heap, w)
        /\ q # NoPosition
        /\ q[1] = v.addr /\ q[2] = v.time /\ q[3] = v.height
    BY <1>1, <1>2, MovedSound
  <1>4. /\ MaxFrame \in Nat
        /\ c \in DOMAIN v.shown => v.shown[c] \in 0..MaxBook
        /\ heap[v.addr] = v.shown
    BY LookedFacts, ViewsAssumption
  <1>5. CASE Hit(v, c)
    <2>1. PICK fr : fr = w.entries[c]  OBVIOUS
    <2>2. Answer(v, c) = fr  BY <1>1, <1>5, <2>1 DEF Answer
    <2>3. w.position = q /\ c \in DOMAIN w.entries  BY <1>1, <1>2, <1>5 DEF Hit
    <2>4. fr \in Frames  BY <1>3, <2>1, <2>3 DEF WireOK, Wires
    <2>5. Encodes(fr, v.shown, c, v.time, v.height)
      BY <1>3, <1>4, <2>1, <2>3 DEF WireOK
    <2>6. fr = [book |-> fr.book, time |-> v.time, height |-> v.height]
      BY <2>4, <2>5 DEF Frames, Encodes
    <2>7. fr = Frame(fr.book, v)  BY <2>6 DEF Frame
    <2>8. CASE c \in DOMAIN v.shown
      BY <2>2, <2>5, <2>7, <2>8 DEF Encodes
    <2>9. CASE c \notin DOMAIN v.shown
      BY <2>2, <2>5, <2>7, <2>9 DEF Encodes
    <2>. QED  BY <2>8, <2>9
  <1>6. CASE ~Hit(v, c)
    <2>1. Answer(v, c) = IF Looked(v, c) = -1 \/ Length(Looked(v, c)) > MaxFrame
                         THEN NoFrame ELSE Frame(Looked(v, c), v)
      BY <1>6 DEF Answer
    <2>2. CASE c \in DOMAIN v.shown
      <3>1. Looked(v, c) = v.shown[c] /\ v.shown[c] # -1  BY <1>4, <2>2, LookedFacts
      <3>2. Length(v.shown[c]) > MaxFrame <=> ~(Length(v.shown[c]) =< MaxFrame)
        BY <1>4, <2>2 DEF Length
      <3>. QED  BY <2>1, <2>2, <3>1, <3>2
    <2>3. CASE c \notin DOMAIN v.shown /\ c \in Hip4Coins
      <3>1. Looked(v, c) = Empty /\ Empty # -1  BY <2>3, LookedFacts DEF Empty
      <3>2. Length(Empty) > MaxFrame <=> ~(Length(Empty) =< MaxFrame)
        BY <1>4 DEF Length, Empty
      <3>. QED  BY <2>1, <2>3, <3>1, <3>2
    <2>4. CASE c \notin DOMAIN v.shown /\ c \notin Hip4Coins
      <3>1. Looked(v, c) = -1  BY <2>4, LookedFacts
      <3>. QED  BY <2>1, <2>4, <3>1
    <2>. QED  BY <2>2, <2>3, <2>4
  <1>. QED  BY <1>5, <1>6

-----------------------------------------------------------------------------
\* refresh_l2_snapshots and Arc::make_mut: a view that a message or a socket
\* holds is the book it was computed from, in every coin, as long as it is held.
THEOREM ViewsStayFaithful == ViewsSpec => []ViewsFaithful
  <1>1. VInv => ViewsFaithful  BY DEF VInv, Sound, ViewOK, ViewsFaithful
  <1>. QED  BY <1>1, InitSound, NextSound, PTL DEF ViewsSpec

\* BookWireCache::get: whatever was cached, and however addresses are reused,
\* the answer for a view is a fresh encoding of that view.
THEOREM WireStaysExact == ViewsSpec => []WireExact
  <1>1. VInv => WireExact  BY AnswerExact DEF WireExact
  <1>. QED  BY <1>1, InitSound, NextSound, PTL DEF ViewsSpec

=============================================================================
