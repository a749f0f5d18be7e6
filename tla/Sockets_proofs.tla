--------------------------- MODULE Sockets_proofs ---------------------------
(***************************************************************************)
(* Proofs about Sockets for every set of clients and of subscriptions,     *)
(* every number of permits, every length of the trace's history and every  *)
(* choice of what a snapshot has views for.                                *)
(***************************************************************************)
EXTENDS Sockets, SequenceTheorems, FiniteSetTheorems, TLAPS

Tasks     == {"none", "upgrading", "open"}
Published == [height : Nat, views : Views]
Lefts     == [under_way : BOOLEAN, subs : SUBSET Subs]
Batches   == [height : Nat, completed : BOOLEAN, flushed_frames : Nat]
Begins    == [height : Nat, views : Views, frames : SUBSET Subs]

-----------------------------------------------------------------------------
(* One connection.  Its state is passed by value: the task tk, the height h  *)
(* of the book, the queue q, the subscriptions S with their sent positions   *)
(* pos, what is left lf of the batch, the trace b and the history g.         *)

Typed(tk, h, q, S, pos, lf, b, g) ==
    /\ tk \in Tasks /\ h \in Nat
    /\ q \in Seq(Published)
    /\ S \in SUBSET Subs /\ pos \in [Subs -> Nat]
    /\ lf \in Lefts
    /\ b \in Seq(Batches) /\ g \in Seq(Begins)

\* Only an open connection has a batch under way, and what is left of it are
\* subscriptions.
Underway(tk, S, lf, g) ==
    /\ lf.under_way => tk = "open" /\ g # <<>>
    /\ ~lf.under_way => lf.subs = {}
    /\ lf.subs \subseteq S

\* No height is ahead of the book's.
NotAhead(h, q, g) ==
    /\ \A i \in DOMAIN q : q[i].height =< h
    /\ \A i \in DOMAIN g : g[i].height =< h

FiniteFrames(g) == \A i \in DOMAIN g : IsFiniteSet(g[i].frames)

\* Of the subscriptions with a view in the batch, all but those in T have its
\* height or a later one.
Served(S, pos, r, T) == \A s \in Subs : s \in S /\ s \in r.views /\ s \notin T => pos[s] >= r.height

\* A subscription that is left has no frame of this batch, one that is not
\* left has been served.
Halfway(S, pos, lf, g) ==
    lf.under_way => /\ \A s \in lf.subs : s \notin g[Len(g)].frames
                    /\ Served(S, pos, g[Len(g)], lf.subs)

\* The trace has the latest HISTORY batches.
LatestKept(b, g) ==
    /\ Len(g) < HISTORY => Len(b) = Len(g)
    /\ Len(g) >= HISTORY => Len(b) = HISTORY

\* A row of the trace says what happened.
RowTrue(row, r) == row.height = r.height /\ row.flushed_frames = Cardinality(r.frames)

RowsTrue(b, g) == \A i \in 1..Len(b) : RowTrue(b[i], g[Len(g) - Len(b) + i])

\* All but the batch that is under way are complete.
RowsComplete(lf, b) ==
    \A i \in 1..Len(b) : b[i].completed <=> ~(lf.under_way /\ i = Len(b))

\* The last batch, once complete, has been served to all.
LastServed(S, pos, lf, g) ==
    ~lf.under_way /\ g # <<>> => Served(S, pos, g[Len(g)], {})

Sound(tk, h, q, S, pos, lf, b, g) ==
    /\ Typed(tk, h, q, S, pos, lf, b, g)
    /\ Underway(tk, S, lf, g)
    /\ NotAhead(h, q, g)
    /\ FiniteFrames(g)
    /\ Halfway(S, pos, lf, g)
    /\ LatestKept(b, g)
    /\ RowsTrue(b, g)
    /\ RowsComplete(lf, b)
    /\ LastServed(S, pos, lf, g)

-----------------------------------------------------------------------------
\* All connections, and the semaphore.
SocketsTypeOK ==
    /\ permits \in Nat
    /\ task \in [Clients -> Tasks]
    /\ height \in Nat
    /\ queue \in [Clients -> Seq(Published)]
    /\ subscriptions \in [Clients -> SUBSET Subs]
    /\ sent_positions \in [Clients -> [Subs -> Nat]]
    /\ left \in [Clients -> Lefts]
    /\ trace \in [Clients -> Seq(Batches)]
    /\ begun \in [Clients -> Seq(Begins)]

SoundClient(c) ==
    Sound(task[c], height, queue[c], subscriptions[c], sent_positions[c], left[c], trace[c], begun[c])

SInv ==
    /\ SocketsTypeOK
    /\ IsFiniteSet(Connected)
    /\ PermitsExact
    /\ \A c \in Clients : SoundClient(c)

-----------------------------------------------------------------------------
(* Sequences *)

\* An element appended is the last, and the others stay in place.
LEMMA AppendFacts ==
    ASSUME NEW A, NEW s \in Seq(A), NEW m \in A
    PROVE  /\ Append(s, m) \in Seq(A)
           /\ Append(s, m) # <<>>
           /\ Len(s) \in Nat /\ Len(Append(s, m)) = Len(s) + 1
           /\ DOMAIN s = 1..Len(s) /\ DOMAIN Append(s, m) = 1..(Len(s) + 1)
           /\ \A i \in 1..Len(s) : Append(s, m)[i] = s[i] /\ s[i] \in A
           /\ Append(s, m)[Len(s) + 1] = m
  OBVIOUS

\* Taking the front moves the others up by one place.
LEMMA TailFacts ==
    ASSUME NEW A, NEW s \in Seq(A), s # <<>>
    PROVE  /\ Tail(s) \in Seq(A)
           /\ Len(s) \in Nat \ {0}
           /\ Len(Tail(s)) = Len(s) - 1
           /\ DOMAIN s = 1..Len(s) /\ DOMAIN Tail(s) = 1..(Len(s) - 1)
           /\ \A i \in 1..(Len(s) - 1) : Tail(s)[i] = s[i + 1]
           /\ Head(s) = s[1] /\ s[1] \in A
  OBVIOUS

\* A sequence that is not empty has a last element.
LEMMA LastFacts ==
    ASSUME NEW A, NEW s \in Seq(A), s # <<>>
    PROVE  /\ Len(s) \in Nat \ {0} /\ DOMAIN s = 1..Len(s)
           /\ Len(s) \in DOMAIN s /\ s[Len(s)] \in A
  OBVIOUS

\* Replacing the last element keeps the length and the others.
LEMMA ReplaceLast ==
    ASSUME NEW A, NEW s \in Seq(A), s # <<>>, NEW m \in A
    PROVE  /\ [s EXCEPT ![Len(s)] = m] \in Seq(A)
           /\ Len([s EXCEPT ![Len(s)] = m]) = Len(s)
           /\ DOMAIN [s EXCEPT ![Len(s)] = m] = 1..Len(s)
           /\ [s EXCEPT ![Len(s)] = m] # <<>>
           /\ [s EXCEPT ![Len(s)] = m][Len(s)] = m
           /\ \A i \in 1..Len(s) : i # Len(s) => [s EXCEPT ![Len(s)] = m][i] = s[i]
  <1>1. PICK n : n = Len(s)  OBVIOUS
  <1>2. n \in Nat \ {0} /\ n \in 1..Len(s)  BY <1>1
  <1>3. PICK t : t = [s EXCEPT ![n] = m]  OBVIOUS
  <1>4. t \in Seq(A) /\ Len(t) = n /\ t[n] = m /\ \A j \in 1..n : j # n => t[j] = s[j]
    BY <1>1, <1>2, <1>3, ExceptSeq
  <1>5. DOMAIN t = 1..n  BY <1>4
  <1>6. t # <<>>  BY <1>2, <1>4
  <1>. QED  BY <1>1, <1>3, <1>4, <1>5, <1>6

-----------------------------------------------------------------------------
(* What a step does to one connection *)

\* A connection that holds nothing.
LEMMA SoundNothing ==
    ASSUME NEW tk \in Tasks, NEW h \in Nat
    PROVE  Sound(tk, h, <<>>, {}, Nothing, NoBatch, <<>>, <<>>)
  <1>1. <<>> \in Seq(Published) /\ <<>> \in Seq(Batches) /\ <<>> \in Seq(Begins) /\ Len(<<>>) = 0
    OBVIOUS
  <1>2. Nothing \in [Subs -> Nat]  BY DEF Nothing
  <1>3. NoBatch \in Lefts /\ ~NoBatch.under_way /\ NoBatch.subs = {}  BY DEF NoBatch, Lefts
  <1>4. Typed(tk, h, <<>>, {}, Nothing, NoBatch, <<>>, <<>>)
    BY <1>1, <1>2, <1>3 DEF Typed
  <1>5. HISTORY \in Nat \ {0}  BY SocketsAssumption
  <1>6. LatestKept(<<>>, <<>>)  BY <1>1, <1>5 DEF LatestKept
  <1>7. RowsTrue(<<>>, <<>>) /\ RowsComplete(NoBatch, <<>>)  BY <1>1 DEF RowsTrue, RowsComplete
  <1>8. Underway(tk, {}, NoBatch, <<>>) /\ Halfway({}, Nothing, NoBatch, <<>>)
    BY <1>3 DEF Underway, Halfway
  <1>9. NotAhead(h, <<>>, <<>>) /\ FiniteFrames(<<>>) /\ LastServed({}, Nothing, NoBatch, <<>>)
    BY DEF NotAhead, FiniteFrames, LastServed
  <1>. QED  BY <1>4, <1>6, <1>7, <1>8, <1>9 DEF Sound

\* The book moves on and its snapshot is queued, or the connection is not
\* there to receive it.
LEMMA SoundPublish ==
    ASSUME NEW tk, NEW h, NEW q, NEW S, NEW pos, NEW lf, NEW b, NEW g,
           Sound(tk, h, q, S, pos, lf, b, g), NEW m \in Published, m.height = h + 1
    PROVE  /\ Sound(tk, h + 1, q, S, pos, lf, b, g)
           /\ Sound(tk, h + 1, Append(q, m), S, pos, lf, b, g)
  <1>1. Typed(tk, h, q, S, pos, lf, b, g) /\ NotAhead(h, q, g)  BY DEF Sound
  <1>2. h \in Nat /\ q \in Seq(Published) /\ g \in Seq(Begins)  BY <1>1 DEF Typed
  <1>3. PICK r : r = Append(q, m)  OBVIOUS
  <1>4. /\ r \in Seq(Published) /\ Len(q) \in Nat
        /\ DOMAIN q = 1..Len(q) /\ DOMAIN r = 1..(Len(q) + 1)
        /\ \A i \in 1..Len(q) : r[i] = q[i] /\ q[i] \in Published
        /\ r[Len(q) + 1] = m
    BY <1>2, <1>3, AppendFacts
  <1>5. \A i \in DOMAIN q : q[i].height \in Nat /\ q[i].height =< h
    BY <1>1, <1>4 DEF NotAhead, Published
  <1>6. \A i \in DOMAIN g : g[i].height \in Nat /\ g[i].height =< h
    <2>1. \A i \in DOMAIN g : g[i] \in Begins  BY <1>2
    <2>. QED  BY <1>1, <2>1 DEF NotAhead, Begins
  <1>7. NotAhead(h + 1, q, g)  BY <1>2, <1>5, <1>6 DEF NotAhead
  <1>8. NotAhead(h + 1, r, g)
    <2>1. ASSUME NEW i \in DOMAIN r PROVE r[i].height =< h + 1
      <3>1. CASE i \in 1..Len(q)  BY <1>2, <1>4, <1>5, <3>1
      <3>2. CASE i = Len(q) + 1  BY <1>2, <1>4, <3>2
      <3>. QED  BY <1>4, <2>1, <3>1, <3>2
    <2>. QED  BY <1>2, <1>6, <2>1 DEF NotAhead
  <1>9. Typed(tk, h + 1, q, S, pos, lf, b, g)  BY <1>1, <1>2 DEF Typed
  <1>10. Typed(tk, h + 1, r, S, pos, lf, b, g)  BY <1>1, <1>2, <1>4 DEF Typed
  <1>11. Sound(tk, h + 1, q, S, pos, lf, b, g)  BY <1>7, <1>9 DEF Sound
  <1>12. Sound(tk, h + 1, r, S, pos, lf, b, g)  BY <1>8, <1>10 DEF Sound
  <1>. QED  BY <1>3, <1>11, <1>12

\* A connection without a batch may change its task.
LEMMA SoundTask ==
    ASSUME NEW tk, NEW h, NEW q, NEW S, NEW pos, NEW lf, NEW b, NEW g,
           Sound(tk, h, q, S, pos, lf, b, g), ~lf.under_way, NEW t \in Tasks
    PROVE  Sound(t, h, q, S, pos, lf, b, g)
  BY DEF Sound, Typed, Underway

\* A subscription added with the book's height is not behind any batch.
LEMMA SoundSubscribe ==
    ASSUME NEW tk, NEW h, NEW q, NEW S, NEW pos, NEW lf, NEW b, NEW g,
           Sound(tk, h, q, S, pos, lf, b, g), ~lf.under_way, NEW s \in Subs
    PROVE  Sound(tk, h, q, S \union {s}, [pos EXCEPT ![s] = h], lf, b, g)
  <1>1. PICK T, p : T = S \union {s} /\ p = [pos EXCEPT ![s] = h]  OBVIOUS
  <1>2. Typed(tk, h, q, S, pos, lf, b, g)  BY DEF Sound
  <1>3. p \in [Subs -> Nat] /\ p[s] = h /\ \A x \in Subs : x # s => p[x] = pos[x]
    BY <1>1, <1>2 DEF Typed
  <1>4. Typed(tk, h, q, T, p, lf, b, g)  BY <1>1, <1>2, <1>3 DEF Typed
  <1>5. Underway(tk, T, lf, g)  BY <1>1 DEF Sound, Underway
  <1>6. Halfway(T, p, lf, g)  BY DEF Halfway
  <1>7. LastServed(T, p, lf, g)
    <2>1. SUFFICES ASSUME g # <<>>, NEW x \in Subs, x \in T, x \in g[Len(g)].views
                   PROVE  p[x] >= g[Len(g)].height
      BY DEF LastServed, Served
    <2>2. g[Len(g)].height \in Nat /\ g[Len(g)].height =< h
      <3>1. g \in Seq(Begins)  BY <1>2 DEF Typed
      <3>2. Len(g) \in DOMAIN g /\ g[Len(g)] \in Begins  BY <2>1, <3>1, LastFacts
      <3>. QED  BY <3>2 DEF Sound, NotAhead, Begins
    <2>3. h \in Nat  BY <1>2 DEF Typed
    <2>4. CASE x = s  BY <1>3, <2>2, <2>3, <2>4
    <2>5. CASE x # s
      <3>1. x \in S  BY <1>1, <2>1, <2>5
      <3>2. pos[x] >= g[Len(g)].height  BY <2>1, <3>1 DEF Sound, LastServed, Served
      <3>. QED  BY <1>3, <2>5, <3>2
    <2>. QED  BY <2>4, <2>5
  <1>8. Sound(tk, h, q, T, p, lf, b, g)  BY <1>4, <1>5, <1>6, <1>7 DEF Sound
  <1>. QED  BY <1>1, <1>8

\* A subscription taken back is not asked for any more.
LEMMA SoundUnsubscribe ==
    ASSUME NEW tk, NEW h, NEW q, NEW S, NEW pos, NEW lf, NEW b, NEW g,
           Sound(tk, h, q, S, pos, lf, b, g), ~lf.under_way, NEW s \in Subs
    PROVE  Sound(tk, h, q, S \ {s}, [pos EXCEPT ![s] = 0], lf, b, g)
  <1>1. PICK T, p : T = S \ {s} /\ p = [pos EXCEPT ![s] = 0]  OBVIOUS
  <1>2. Typed(tk, h, q, S, pos, lf, b, g)  BY DEF Sound
  <1>3. p \in [Subs -> Nat] /\ \A x \in Subs : x # s => p[x] = pos[x]
    BY <1>1, <1>2 DEF Typed
  <1>4. Typed(tk, h, q, T, p, lf, b, g)  BY <1>1, <1>2, <1>3 DEF Typed
  <1>5. Underway(tk, T, lf, g)  BY <1>1 DEF Sound, Underway
  <1>6. Halfway(T, p, lf, g)  BY DEF Halfway
  <1>7. LastServed(T, p, lf, g)
    <2>1. SUFFICES ASSUME g # <<>>, NEW x \in Subs, x \in T, x \in g[Len(g)].views
                   PROVE  p[x] >= g[Len(g)].height
      BY DEF LastServed, Served
    <2>2. x \in S /\ x # s  BY <1>1, <2>1
    <2>3. pos[x] >= g[Len(g)].height  BY <2>1, <2>2 DEF Sound, LastServed, Served
    <2>. QED  BY <1>3, <2>2, <2>3
  <1>8. Sound(tk, h, q, T, p, lf, b, g)  BY <1>4, <1>5, <1>6, <1>7 DEF Sound
  <1>. QED  BY <1>1, <1>8

\* The trace is never longer than the history.
LEMMA TraceFits ==
    ASSUME NEW b \in Seq(Batches), NEW g \in Seq(Begins), LatestKept(b, g)
    PROVE  /\ Len(b) \in Nat /\ Len(g) \in Nat /\ Len(b) =< Len(g)
           /\ Len(b) = HISTORY \/ (Len(b) = Len(g) /\ Len(g) < HISTORY)
           /\ g # <<>> => b # <<>> /\ Len(b) >= 1
  <1>1. HISTORY \in Nat \ {0}  BY SocketsAssumption
  <1>2. Len(b) \in Nat /\ Len(g) \in Nat  OBVIOUS
  <1>3. g # <<>> => Len(g) # 0  BY LastFacts
  <1>4. b = <<>> => Len(b) = 0  OBVIOUS
  <1>. QED  BY <1>1, <1>2, <1>3, <1>4 DEF LatestKept

\* begin: the new batch is the last row; a full trace loses its oldest.
LEMMA BeginRows ==
    ASSUME NEW b \in Seq(Batches), NEW g \in Seq(Begins), LatestKept(b, g), RowsTrue(b, g),
           \A i \in 1..Len(b) : b[i].completed,
           NEW m \in Published
    PROVE  /\ begin(b, m.height) \in Seq(Batches)
           /\ LatestKept(begin(b, m.height), Append(g, Begun(m)))
           /\ RowsTrue(begin(b, m.height), Append(g, Begun(m)))
           /\ RowsComplete(Batch({}), begin(b, m.height))
  <1>1. HISTORY \in Nat \ {0}  BY SocketsAssumption
  <1>2. PICK row : row = [height |-> m.height, completed |-> FALSE, flushed_frames |-> 0]  OBVIOUS
  <1>3. row \in Batches /\ ~row.completed /\ row.height = m.height /\ row.flushed_frames = 0
    BY <1>2 DEF Batches, Published
  <1>4. PICK r : r = Begun(m)  OBVIOUS
  <1>5. r \in Begins /\ r.height = m.height /\ r.frames = {}
    BY <1>4 DEF Begun, Begins, Published
  <1>6. RowTrue(row, r)  BY <1>3, <1>5, FS_EmptySet DEF RowTrue
  <1>7. PICK g2 : g2 = Append(g, r)  OBVIOUS
  <1>8. PICK n : n = Len(g)  OBVIOUS
  <1>9. /\ g2 \in Seq(Begins) /\ n \in Nat /\ Len(g2) = n + 1
        /\ \A i \in 1..n : g2[i] = g[i]
        /\ g2[n + 1] = r
    BY <1>5, <1>7, <1>8, AppendFacts
  <1>10. PICK k : k = Len(b)  OBVIOUS
  <1>11. /\ k \in Nat /\ k =< n /\ (k = HISTORY \/ (k = n /\ n < HISTORY))
    BY <1>8, <1>10, TraceFits
  <1>12. \A i \in 1..k : RowTrue(b[i], g[n - k + i]) /\ b[i].completed
    BY <1>8, <1>10 DEF RowsTrue
  <1>13. PICK b2 : b2 = begin(b, m.height)  OBVIOUS
  <1>14. Batch({}).under_way  BY DEF Batch
  <1>15. CASE k = HISTORY
    <2>1. b # <<>>  BY <1>1, <1>10, <1>15
    <2>2. PICK t : t = Tail(b)  OBVIOUS
    <2>3. t \in Seq(Batches) /\ Len(t) = k - 1 /\ \A i \in 1..(k - 1) : t[i] = b[i + 1]
      BY <1>10, <2>1, <2>2, TailFacts
    <2>4. b2 = Append(t, row)  BY <1>2, <1>10, <1>13, <1>15, <2>2 DEF begin
    <2>5. /\ b2 \in Seq(Batches) /\ Len(b2) = k
          /\ \A i \in 1..(k - 1) : b2[i] = b[i + 1]
          /\ b2[k] = row
      BY <1>3, <1>11, <2>3, <2>4, AppendFacts
    <2>6. LatestKept(b2, g2)  BY <1>1, <1>9, <1>11, <1>15, <2>5 DEF LatestKept
    <2>7. ASSUME NEW i \in 1..k
          PROVE  RowTrue(b2[i], g2[n + 1 - k + i]) /\ (b2[i].completed <=> i # k)
      <3>1. CASE i = k
        <4>1. n + 1 - k + i = n + 1  BY <1>9, <1>11, <3>1
        <4>. QED  BY <1>3, <1>6, <1>9, <2>5, <3>1, <4>1
      <3>2. CASE i # k
        <4>1. i \in 1..(k - 1) /\ i + 1 \in 1..k  BY <1>11, <2>7, <3>2
        <4>2. n + 1 - k + i = n - k + (i + 1) /\ n - k + (i + 1) \in 1..n
          BY <1>9, <1>11, <4>1
        <4>3. g2[n + 1 - k + i] = g[n - k + (i + 1)]  BY <1>9, <4>2
        <4>4. b2[i] = b[i + 1]  BY <2>5, <4>1
        <4>. QED  BY <1>12, <3>2, <4>1, <4>3, <4>4
      <3>. QED  BY <3>1, <3>2
    <2>8. RowsTrue(b2, g2)  BY <1>9, <2>5, <2>7 DEF RowsTrue
    <2>9. RowsComplete(Batch({}), b2)  BY <1>14, <2>5, <2>7 DEF RowsComplete
    <2>. QED  BY <1>4, <1>7, <1>13, <2>5, <2>6, <2>8, <2>9
  <1>16. CASE k # HISTORY
    <2>1. k = n /\ n < HISTORY  BY <1>11, <1>16
    <2>2. b2 = Append(b, row)  BY <1>2, <1>10, <1>13, <1>16 DEF begin
    <2>3. /\ b2 \in Seq(Batches) /\ Len(b2) = n + 1
          /\ \A i \in 1..n : b2[i] = b[i]
          /\ b2[n + 1] = row
      <3>1. /\ b2 \in Seq(Batches) /\ Len(b2) = Len(b) + 1
            /\ \A i \in 1..Len(b) : b2[i] = b[i]
            /\ b2[Len(b) + 1] = row
        BY <1>3, <2>2, AppendFacts
      <3>. QED  BY <1>10, <2>1, <3>1
    <2>4. LatestKept(b2, g2)  BY <1>1, <1>9, <2>1, <2>3 DEF LatestKept
    <2>5. ASSUME NEW i \in 1..(n + 1)
          PROVE  RowTrue(b2[i], g2[i]) /\ (b2[i].completed <=> i # n + 1)
      <3>1. CASE i = n + 1  BY <1>3, <1>6, <1>9, <2>3, <3>1
      <3>2. CASE i # n + 1
        <4>1. i \in 1..n /\ n - k + i = i  BY <1>9, <2>1, <2>5, <3>2
        <4>. QED  BY <1>9, <1>12, <2>1, <2>3, <3>2, <4>1
      <3>. QED  BY <3>1, <3>2
    <2>6. \A i \in 1..(n + 1) : (n + 1) - (n + 1) + i = i  BY <1>9
    <2>7. RowsTrue(b2, g2)  BY <1>9, <2>3, <2>5, <2>6 DEF RowsTrue
    <2>8. RowsComplete(Batch({}), b2)  BY <1>14, <2>3, <2>5 DEF RowsComplete
    <2>. QED  BY <1>4, <1>7, <1>13, <2>3, <2>4, <2>7, <2>8
  <1>. QED  BY <1>15, <1>16

\* A batch begins with everything still to be served.
LEMMA SoundBegin ==
    ASSUME NEW h, NEW q, NEW S, NEW pos, NEW lf, NEW b, NEW g,
           Sound("open", h, q, S, pos, lf, b, g), ~lf.under_way, q # <<>>
    PROVE  Sound("open", h, Tail(q), S, pos, Batch(S),
                 begin(b, Head(q).height), Append(g, Begun(Head(q))))
  <1>1. Typed("open", h, q, S, pos, lf, b, g)  BY DEF Sound
  <1>2. /\ h \in Nat /\ q \in Seq(Published) /\ S \in SUBSET Subs
        /\ b \in Seq(Batches) /\ g \in Seq(Begins)
    BY <1>1 DEF Typed
  <1>3. PICK m, t : m = Head(q) /\ t = Tail(q)  OBVIOUS
  <1>4. /\ m \in Published /\ m = q[1] /\ t \in Seq(Published) /\ Len(q) \in Nat \ {0}
        /\ DOMAIN q = 1..Len(q) /\ DOMAIN t = 1..(Len(q) - 1)
        /\ \A i \in 1..(Len(q) - 1) : t[i] = q[i + 1]
    BY <1>2, <1>3, TailFacts
  <1>5. \A i \in 1..Len(b) : b[i].completed  BY DEF Sound, RowsComplete
  <1>6. PICK r : r = Begun(m)  OBVIOUS
  <1>7. r \in Begins /\ r.height = m.height /\ r.frames = {}
    BY <1>4, <1>6 DEF Begun, Begins, Published
  <1>8. PICK g2, b2 : g2 = Append(g, r) /\ b2 = begin(b, m.height)  OBVIOUS
  <1>9. LatestKept(b, g) /\ RowsTrue(b, g)  BY DEF Sound
  <1>10. b2 \in Seq(Batches) /\ LatestKept(b2, g2) /\ RowsTrue(b2, g2) /\ RowsComplete(Batch({}), b2)
    BY <1>2, <1>4, <1>5, <1>6, <1>8, <1>9, BeginRows
  <1>11. PICK l2 : l2 = Batch(S)  OBVIOUS
  <1>12. l2 \in Lefts /\ l2.under_way /\ l2.subs = S /\ Batch({}).under_way
    BY <1>2, <1>11 DEF Batch, Lefts
  <1>13. RowsComplete(l2, b2)  BY <1>10, <1>12 DEF RowsComplete
  <1>14. /\ g2 \in Seq(Begins) /\ g2 # <<>> /\ Len(g) \in Nat /\ Len(g2) = Len(g) + 1
         /\ DOMAIN g = 1..Len(g) /\ DOMAIN g2 = 1..(Len(g) + 1)
         /\ \A i \in 1..Len(g) : g2[i] = g[i]
         /\ g2[Len(g) + 1] = r
    BY <1>2, <1>7, <1>8, AppendFacts
  <1>15. Typed("open", h, t, S, pos, l2, b2, g2)  BY <1>1, <1>4, <1>10, <1>12, <1>14 DEF Typed
  <1>16. Underway("open", S, l2, g2)  BY <1>12, <1>14 DEF Underway
  <1>17. NotAhead(h, t, g2)
    <2>1. \A i \in DOMAIN q : q[i].height =< h  BY DEF Sound, NotAhead
    <2>2. \A i \in DOMAIN g : g[i].height =< h  BY DEF Sound, NotAhead
    <2>3. ASSUME NEW i \in DOMAIN t PROVE t[i].height =< h
      <3>1. i \in 1..(Len(q) - 1) /\ i + 1 \in DOMAIN q  BY <1>4, <2>3
      <3>. QED  BY <1>4, <2>1, <3>1
    <2>4. ASSUME NEW i \in DOMAIN g2 PROVE g2[i].height =< h
      <3>1. CASE i \in 1..Len(g)  BY <1>14, <2>2, <3>1
      <3>2. CASE i = Len(g) + 1
        <4>1. 1 \in DOMAIN q  BY <1>4
        <4>. QED  BY <1>4, <1>7, <1>14, <2>1, <3>2, <4>1
      <3>. QED  BY <1>14, <2>4, <3>1, <3>2
    <2>. QED  BY <2>3, <2>4 DEF NotAhead
  <1>18. FiniteFrames(g2)
    <2>1. SUFFICES ASSUME NEW i \in DOMAIN g2 PROVE IsFiniteSet(g2[i].frames)
      BY DEF FiniteFrames
    <2>2. CASE i \in 1..Len(g)  BY <1>14, <2>2 DEF Sound, FiniteFrames
    <2>3. CASE i = Len(g) + 1  BY <1>7, <1>14, <2>3, FS_EmptySet
    <2>. QED  BY <1>14, <2>1, <2>2, <2>3
  <1>19. Halfway(S, pos, l2, g2)
    BY <1>7, <1>12, <1>14 DEF Halfway, Served
  <1>20. LastServed(S, pos, l2, g2)  BY <1>12 DEF LastServed
  <1>21. Sound("open", h, t, S, pos, l2, b2, g2)
    BY <1>10, <1>13, <1>15, <1>16, <1>17, <1>18, <1>19, <1>20 DEF Sound
  <1>. QED  BY <1>3, <1>6, <1>8, <1>11, <1>21

\* What is left of a batch without one subscription.
LEMMA LeftWithout ==
    ASSUME NEW lf \in Lefts, NEW s
    PROVE  /\ [lf EXCEPT !.subs = lf.subs \ {s}] \in Lefts
           /\ [lf EXCEPT !.subs = lf.subs \ {s}].under_way = lf.under_way
           /\ [lf EXCEPT !.subs = lf.subs \ {s}].subs = lf.subs \ {s}
  BY DEF Lefts

\* A subscription that is passed over has the height already, or no view.
LEMMA SoundSkip ==
    ASSUME NEW tk, NEW h, NEW q, NEW S, NEW pos, NEW lf, NEW b, NEW g,
           Sound(tk, h, q, S, pos, lf, b, g), NEW s \in lf.subs,
           ~(g[Len(g)].height > pos[s] /\ s \in g[Len(g)].views)
    PROVE  Sound(tk, h, q, S, pos, [lf EXCEPT !.subs = lf.subs \ {s}], b, g)
  <1>1. Typed(tk, h, q, S, pos, lf, b, g)  BY DEF Sound
  <1>2. lf \in Lefts /\ pos \in [Subs -> Nat] /\ S \in SUBSET Subs /\ g \in Seq(Begins)
    BY <1>1 DEF Typed
  <1>3. PICK l2 : l2 = [lf EXCEPT !.subs = lf.subs \ {s}]  OBVIOUS
  <1>4. l2 \in Lefts /\ l2.under_way = lf.under_way /\ l2.subs = lf.subs \ {s}
    BY <1>2, <1>3, LeftWithout
  <1>5. lf.under_way /\ g # <<>> /\ s \in S  BY DEF Sound, Underway
  <1>6. Typed(tk, h, q, S, pos, l2, b, g)  BY <1>1, <1>4 DEF Typed
  <1>7. Underway(tk, S, l2, g)  BY <1>4, <1>5 DEF Sound, Underway
  <1>8. Halfway(S, pos, l2, g)
    <2>1. /\ \A x \in lf.subs : x \notin g[Len(g)].frames
          /\ Served(S, pos, g[Len(g)], lf.subs)
      BY <1>5 DEF Sound, Halfway
    <2>2. g[Len(g)].height \in Nat /\ pos[s] \in Nat
      <3>1. g[Len(g)] \in Begins  BY <1>2, <1>5, LastFacts
      <3>. QED  BY <1>2, <1>5, <3>1 DEF Begins
    <2>3. Served(S, pos, g[Len(g)], l2.subs)
      <3>1. SUFFICES ASSUME NEW x \in Subs, x \in S, x \in g[Len(g)].views, x \notin l2.subs
                     PROVE  pos[x] >= g[Len(g)].height
        BY DEF Served
      <3>2. CASE x = s  BY <2>2, <3>1, <3>2
      <3>3. CASE x # s  BY <1>4, <2>1, <3>1, <3>3 DEF Served
      <3>. QED  BY <3>2, <3>3
    <2>. QED  BY <1>4, <2>1, <2>3 DEF Halfway
  <1>9. RowsComplete(l2, b)  BY <1>4 DEF Sound, RowsComplete
  <1>10. LastServed(S, pos, l2, g)  BY <1>4, <1>5 DEF LastServed
  <1>11. Sound(tk, h, q, S, pos, l2, b, g)
    BY <1>6, <1>7, <1>8, <1>9, <1>10 DEF Sound
  <1>. QED  BY <1>3, <1>11

\* A frame that is flushed is counted, and its subscription has the height.
LEMMA SoundFlush ==
    ASSUME NEW tk, NEW h, NEW q, NEW S, NEW pos, NEW lf, NEW b, NEW g,
           Sound(tk, h, q, S, pos, lf, b, g), NEW s \in lf.subs,
           g[Len(g)].height > pos[s], s \in g[Len(g)].views
    PROVE  Sound(tk, h, q, S, [pos EXCEPT ![s] = g[Len(g)].height],
                 [lf EXCEPT !.subs = lf.subs \ {s}],
                 sent(b), [g EXCEPT ![Len(g)].frames = @ \union {s}])
  <1>1. Typed(tk, h, q, S, pos, lf, b, g)  BY DEF Sound
  <1>2. /\ lf \in Lefts /\ pos \in [Subs -> Nat] /\ S \in SUBSET Subs
        /\ g \in Seq(Begins) /\ b \in Seq(Batches)
    BY <1>1 DEF Typed
  <1>3. PICK l2 : l2 = [lf EXCEPT !.subs = lf.subs \ {s}]  OBVIOUS
  <1>4. l2 \in Lefts /\ l2.under_way = lf.under_way /\ l2.subs = lf.subs \ {s}
    BY <1>2, <1>3, LeftWithout
  <1>5. lf.under_way /\ g # <<>> /\ s \in S /\ s \in Subs  BY <1>2 DEF Sound, Underway
  <1>6. PICK n : n = Len(g)  OBVIOUS
  <1>7. n \in Nat \ {0} /\ DOMAIN g = 1..n /\ n \in DOMAIN g /\ g[n] \in Begins
    BY <1>2, <1>5, <1>6, LastFacts
  <1>8. PICK p : p = [pos EXCEPT ![s] = g[n].height]  OBVIOUS
  <1>9. p \in [Subs -> Nat] /\ p[s] = g[n].height /\ \A x \in Subs : x # s => p[x] = pos[x]
    BY <1>2, <1>5, <1>7, <1>8 DEF Begins
  <1>10. PICK r : r = [g[n] EXCEPT !.frames = g[n].frames \union {s}]  OBVIOUS
  <1>11. /\ r \in Begins /\ r.height = g[n].height /\ r.views = g[n].views
         /\ r.frames = g[n].frames \union {s}
    BY <1>5, <1>7, <1>10 DEF Begins
  <1>12. PICK g2 : g2 = [g EXCEPT ![n] = r]  OBVIOUS
  <1>13. /\ g2 \in Seq(Begins) /\ Len(g2) = n /\ DOMAIN g2 = 1..n /\ g2 # <<>>
         /\ g2[n] = r /\ \A i \in 1..n : i # n => g2[i] = g[i]
    BY <1>2, <1>5, <1>6, <1>11, <1>12, ReplaceLast
  <1>14. LatestKept(b, g) /\ RowsTrue(b, g) /\ RowsComplete(lf, b)  BY DEF Sound
  <1>15. PICK k : k = Len(b)  OBVIOUS
  <1>16. k \in Nat \ {0} /\ k =< n /\ b # <<>>
    BY <1>2, <1>5, <1>6, <1>14, <1>15, TraceFits
  <1>17. DOMAIN b = 1..k /\ k \in DOMAIN b /\ b[k] \in Batches
    BY <1>2, <1>15, <1>16, LastFacts
  <1>18. PICK row : row = [b[k] EXCEPT !.flushed_frames = b[k].flushed_frames + 1]  OBVIOUS
  <1>19. /\ row \in Batches /\ row.height = b[k].height /\ row.completed = b[k].completed
         /\ row.flushed_frames = b[k].flushed_frames + 1
    BY <1>17, <1>18 DEF Batches
  <1>20. PICK b2 : b2 = [b EXCEPT ![k] = row]  OBVIOUS
  <1>21. /\ b2 \in Seq(Batches) /\ Len(b2) = k
         /\ b2[k] = row /\ \A i \in 1..k : i # k => b2[i] = b[i]
    BY <1>2, <1>15, <1>16, <1>19, <1>20, ReplaceLast
  <1>22. Typed(tk, h, q, S, p, l2, b2, g2)  BY <1>1, <1>4, <1>9, <1>13, <1>21 DEF Typed
  <1>23. Underway(tk, S, l2, g2)  BY <1>4, <1>5, <1>13 DEF Sound, Underway
  <1>24. NotAhead(h, q, g2)
    <2>1. \A i \in DOMAIN g : g[i].height =< h  BY DEF Sound, NotAhead
    <2>2. \A i \in DOMAIN g2 : g2[i].height = g[i].height  BY <1>11, <1>13
    <2>. QED  BY <1>7, <1>13, <2>1, <2>2 DEF Sound, NotAhead
  <1>25. IsFiniteSet(g[n].frames)  BY <1>7 DEF Sound, FiniteFrames
  <1>26. /\ \A x \in lf.subs : x \notin g[n].frames
         /\ Served(S, pos, g[n], lf.subs)
    BY <1>5, <1>6 DEF Sound, Halfway
  <1>27. IsFiniteSet(r.frames) /\ Cardinality(r.frames) = Cardinality(g[n].frames) + 1
    <2>1. s \notin g[n].frames  BY <1>26
    <2>. QED  BY <1>11, <1>25, <2>1, FS_AddElement, ZenonT(60)
  <1>28. FiniteFrames(g2)
    <2>1. ASSUME NEW i \in DOMAIN g2 PROVE IsFiniteSet(g2[i].frames)
      <3>1. CASE i = n  BY <1>13, <1>27, <3>1
      <3>2. CASE i # n  BY <1>7, <1>13, <2>1, <3>2 DEF Sound, FiniteFrames
      <3>. QED  BY <3>1, <3>2
    <2>. QED  BY <2>1 DEF FiniteFrames
  <1>29. Halfway(S, p, l2, g2)
    <2>1. \A x \in l2.subs : x \notin g2[n].frames  BY <1>4, <1>11, <1>13, <1>26
    <2>2. Served(S, p, g2[n], l2.subs)
      <3>1. SUFFICES ASSUME NEW x \in Subs, x \in S, x \in g[n].views, x \notin l2.subs
                     PROVE  p[x] >= g[n].height
        BY <1>11, <1>13 DEF Served
      <3>2. g[n].height \in Nat  BY <1>7 DEF Begins
      <3>3. CASE x = s  BY <1>9, <3>2, <3>3
      <3>4. CASE x # s  BY <1>4, <1>9, <1>26, <3>1, <3>4 DEF Served
      <3>. QED  BY <3>3, <3>4
    <2>. QED  BY <1>13, <2>1, <2>2 DEF Halfway
  <1>30. LatestKept(b2, g2)  BY <1>6, <1>13, <1>14, <1>15, <1>21 DEF LatestKept
  <1>31. \A i \in 1..k : RowTrue(b[i], g[n - k + i])  BY <1>6, <1>14, <1>15 DEF RowsTrue
  <1>32. ASSUME NEW i \in 1..k PROVE RowTrue(b2[i], g2[n - k + i])
    <2>1. CASE i = k
      <3>1. n - k + i = n /\ i \in 1..k  BY <1>7, <1>16, <2>1
      <3>2. RowTrue(b[k], g[n])  BY <1>31, <2>1, <3>1
      <3>. QED  BY <1>11, <1>13, <1>19, <1>21, <1>27, <2>1, <3>1, <3>2 DEF RowTrue
    <2>2. CASE i # k
      <3>1. n - k + i \in 1..n /\ n - k + i # n  BY <1>7, <1>16, <1>32, <2>2
      <3>. QED  BY <1>13, <1>21, <1>31, <2>2, <3>1
    <2>. QED  BY <2>1, <2>2
  <1>33. RowsTrue(b2, g2)  BY <1>13, <1>21, <1>32 DEF RowsTrue
  <1>34. RowsComplete(l2, b2)
    <2>1. \A i \in 1..k : b[i].completed <=> ~(lf.under_way /\ i = k)
      BY <1>14, <1>15 DEF RowsComplete
    <2>2. \A i \in 1..k : b2[i].completed = b[i].completed  BY <1>19, <1>21
    <2>3. \A i \in 1..k : b2[i].completed <=> ~(l2.under_way /\ i = k)
      BY <1>4, <2>1, <2>2
    <2>. QED  BY <1>21, <2>3 DEF RowsComplete
  <1>35. LastServed(S, p, l2, g2)  BY <1>4, <1>5 DEF LastServed
  <1>36. Sound(tk, h, q, S, p, l2, b2, g2)
    BY <1>22, <1>23, <1>24, <1>28, <1>29, <1>30, <1>33, <1>34, <1>35 DEF Sound
  <1>37. b2 = sent(b)  BY <1>15, <1>18, <1>20 DEF sent
  <1>38. g2 = [g EXCEPT ![Len(g)].frames = @ \union {s}]  BY <1>6, <1>10, <1>12
  <1>. QED  BY <1>3, <1>6, <1>8, <1>36, <1>37, <1>38

\* A batch is complete when nothing is left of it.
LEMMA SoundComplete ==
    ASSUME NEW tk, NEW h, NEW q, NEW S, NEW pos, NEW b, NEW g,
           Sound(tk, h, q, S, pos, Batch({}), b, g)
    PROVE  Sound(tk, h, q, S, pos, NoBatch, complete(b), g)
  <1>1. Typed(tk, h, q, S, pos, Batch({}), b, g)  BY DEF Sound
  <1>2. b \in Seq(Batches) /\ g \in Seq(Begins)  BY <1>1 DEF Typed
  <1>3. Batch({}).under_way /\ Batch({}).subs = {}  BY DEF Batch
  <1>4. NoBatch \in Lefts /\ ~NoBatch.under_way /\ NoBatch.subs = {}  BY DEF NoBatch, Lefts
  <1>5. g # <<>>  BY <1>3 DEF Sound, Underway
  <1>6. LatestKept(b, g) /\ RowsTrue(b, g) /\ RowsComplete(Batch({}), b)  BY DEF Sound
  <1>7. PICK k : k = Len(b)  OBVIOUS
  <1>8. k \in Nat \ {0} /\ b # <<>>  BY <1>2, <1>5, <1>6, <1>7, TraceFits
  <1>9. DOMAIN b = 1..k /\ k \in DOMAIN b /\ b[k] \in Batches
    BY <1>2, <1>7, <1>8, LastFacts
  <1>10. PICK row : row = [b[k] EXCEPT !.completed = TRUE]  OBVIOUS
  <1>11. /\ row \in Batches /\ row.height = b[k].height /\ row.completed
         /\ row.flushed_frames = b[k].flushed_frames
    BY <1>9, <1>10 DEF Batches
  <1>12. PICK b2 : b2 = [b EXCEPT ![k] = row]  OBVIOUS
  <1>13. /\ b2 \in Seq(Batches) /\ Len(b2) = k
         /\ b2[k] = row /\ \A i \in 1..k : i # k => b2[i] = b[i]
    BY <1>2, <1>7, <1>8, <1>11, <1>12, ReplaceLast
  <1>14. Typed(tk, h, q, S, pos, NoBatch, b2, g)  BY <1>1, <1>4, <1>13 DEF Typed
  <1>15. Underway(tk, S, NoBatch, g)  BY <1>4 DEF Underway
  <1>16. Halfway(S, pos, NoBatch, g)  BY <1>4 DEF Halfway
  <1>17. LatestKept(b2, g)  BY <1>6, <1>7, <1>13 DEF LatestKept
  <1>18. RowsTrue(b2, g)
    <2>1. \A i \in 1..k : RowTrue(b[i], g[Len(g) - k + i])  BY <1>6, <1>7 DEF RowsTrue
    <2>2. \A i \in 1..k : /\ b2[i].height = b[i].height
                          /\ b2[i].flushed_frames = b[i].flushed_frames
      BY <1>11, <1>13
    <2>. QED  BY <1>13, <2>1, <2>2 DEF RowsTrue, RowTrue
  <1>19. RowsComplete(NoBatch, b2)
    <2>1. \A i \in 1..k : i # k => b[i].completed
      BY <1>6, <1>7 DEF RowsComplete
    <2>2. \A i \in 1..k : b2[i].completed  BY <1>11, <1>13, <2>1
    <2>. QED  BY <1>4, <1>13, <2>2 DEF RowsComplete
  <1>20. LastServed(S, pos, NoBatch, g)
    BY <1>3 DEF Sound, Halfway, LastServed
  <1>21. Sound(tk, h, q, S, pos, NoBatch, b2, g)
    BY <1>14, <1>15, <1>16, <1>17, <1>18, <1>19, <1>20 DEF Sound
  <1>22. b2 = complete(b)  BY <1>7, <1>10, <1>12 DEF complete
  <1>. QED  BY <1>21, <1>22

-----------------------------------------------------------------------------
(* All connections *)

\* Writing back what is there changes nothing.
LEMMA SameValue ==
    ASSUME NEW A, NEW D, NEW f \in [D -> A], NEW c \in D
    PROVE  f = [f EXCEPT ![c] = f[c]]
  OBVIOUS

\* A step of one connection leaves the others sound.
LEMMA StepOne ==
    ASSUME SocketsTypeOK, \A d \in Clients : SoundClient(d), NEW c \in Clients,
           NEW tk, NEW q, NEW S, NEW pos, NEW lf, NEW b, NEW g,
           Sound(tk, height, q, S, pos, lf, b, g),
           permits' \in Nat, height' = height,
           task' = [task EXCEPT ![c] = tk],
           queue' = [queue EXCEPT ![c] = q],
           subscriptions' = [subscriptions EXCEPT ![c] = S],
           sent_positions' = [sent_positions EXCEPT ![c] = pos],
           left' = [left EXCEPT ![c] = lf],
           trace' = [trace EXCEPT ![c] = b],
           begun' = [begun EXCEPT ![c] = g]
    PROVE  SocketsTypeOK' /\ \A d \in Clients : SoundClient(d)'
  <1>1. /\ tk \in Tasks /\ q \in Seq(Published)
        /\ S \in SUBSET Subs /\ pos \in [Subs -> Nat] /\ lf \in Lefts
        /\ b \in Seq(Batches) /\ g \in Seq(Begins)
    BY DEF Sound, Typed
  <1>2. task' \in [Clients -> Tasks] /\ queue' \in [Clients -> Seq(Published)]
    BY <1>1 DEF SocketsTypeOK
  <1>3. /\ subscriptions' \in [Clients -> SUBSET Subs]
        /\ sent_positions' \in [Clients -> [Subs -> Nat]]
        /\ left' \in [Clients -> Lefts]
    BY <1>1 DEF SocketsTypeOK
  <1>4. trace' \in [Clients -> Seq(Batches)] /\ begun' \in [Clients -> Seq(Begins)]
    BY <1>1 DEF SocketsTypeOK
  <1>5. SocketsTypeOK'  BY <1>2, <1>3, <1>4 DEF SocketsTypeOK
  <1>6. ASSUME NEW d \in Clients PROVE SoundClient(d)'
    <2>1. CASE d = c
      <3>1. /\ task'[d] = tk /\ queue'[d] = q /\ subscriptions'[d] = S
            /\ sent_positions'[d] = pos /\ left'[d] = lf /\ trace'[d] = b /\ begun'[d] = g
        BY <2>1 DEF SocketsTypeOK
      <3>. QED  BY <3>1 DEF SoundClient
    <2>2. CASE d # c
      <3>1. /\ task'[d] = task[d] /\ queue'[d] = queue[d] /\ subscriptions'[d] = subscriptions[d]
            /\ sent_positions'[d] = sent_positions[d] /\ left'[d] = left[d]
            /\ trace'[d] = trace[d] /\ begun'[d] = begun[d]
        BY <2>2 DEF SocketsTypeOK
      <3>2. SoundClient(d)  OBVIOUS
      <3>. QED  BY <3>1, <3>2 DEF SoundClient
    <2>. QED  BY <2>1, <2>2
  <1>. QED  BY <1>5, <1>6

\* Nothing was written where a step leaves a variable alone.
LEMMA Unwritten ==
    ASSUME SocketsTypeOK, NEW c \in Clients
    PROVE  /\ task = [task EXCEPT ![c] = task[c]]
           /\ queue = [queue EXCEPT ![c] = queue[c]]
           /\ subscriptions = [subscriptions EXCEPT ![c] = subscriptions[c]]
           /\ sent_positions = [sent_positions EXCEPT ![c] = sent_positions[c]]
           /\ left = [left EXCEPT ![c] = left[c]]
           /\ trace = [trace EXCEPT ![c] = trace[c]]
           /\ begun = [begun EXCEPT ![c] = begun[c]]
  BY SameValue DEF SocketsTypeOK

\* The semaphore when no connection starts or ends.
LEMMA PermitsKept ==
    ASSUME SInv, permits' = permits,
           task' \in [Clients -> Tasks],
           \A d \in Clients : task'[d] = "none" <=> task[d] = "none"
    PROVE  IsFiniteSet(Connected') /\ PermitsExact'
  <1>1. Connected' = Connected  BY DEF Connected
  <1>. QED  BY <1>1 DEF SInv, PermitsExact

\* try_acquire_owned: a permit for a connection that was not there.
LEMMA PermitTaken ==
    ASSUME SInv, NEW c \in Clients, task[c] = "none", permits' = permits - 1, permits > 0,
           task' = [task EXCEPT ![c] = "upgrading"]
    PROVE  permits' \in Nat /\ IsFiniteSet(Connected') /\ PermitsExact'
  <1>1. /\ permits \in Nat /\ task \in [Clients -> Tasks] /\ IsFiniteSet(Connected)
        /\ permits + Cardinality(Connected) = MaxPermits
    BY DEF SInv, SocketsTypeOK, PermitsExact
  <1>2. PICK C : C = Connected  OBVIOUS
  <1>3. Connected' = C \union {c} /\ c \notin C  BY <1>1, <1>2 DEF Connected
  <1>4. /\ IsFiniteSet(C \union {c}) /\ Cardinality(C) \in Nat
        /\ Cardinality(C \union {c}) = Cardinality(C) + 1
    BY <1>1, <1>2, <1>3, FS_AddElement, FS_CardinalityType
  <1>5. permits' + Cardinality(C \union {c}) = MaxPermits  BY <1>1, <1>2, <1>4
  <1>. QED  BY <1>1, <1>3, <1>4, <1>5 DEF PermitsExact

\* The permit of a connection that was there comes back.
LEMMA PermitBack ==
    ASSUME SInv, NEW c \in Clients, task[c] # "none", Release,
           task' = [task EXCEPT ![c] = "none"]
    PROVE  permits' \in Nat /\ IsFiniteSet(Connected') /\ PermitsExact'
  <1>1. /\ permits \in Nat /\ task \in [Clients -> Tasks] /\ IsFiniteSet(Connected)
        /\ permits + Cardinality(Connected) = MaxPermits /\ permits' = permits + 1
    BY DEF SInv, SocketsTypeOK, PermitsExact, Release
  <1>2. PICK C : C = Connected  OBVIOUS
  <1>3. Connected' = C \ {c} /\ c \in C  BY <1>1, <1>2 DEF Connected
  <1>4. /\ IsFiniteSet(C \ {c}) /\ Cardinality(C) \in Nat
        /\ Cardinality(C \ {c}) = Cardinality(C) - 1
    BY <1>1, <1>2, <1>3, FS_RemoveElement, FS_CardinalityType
  <1>5. permits' + Cardinality(C \ {c}) = MaxPermits  BY <1>1, <1>2, <1>4
  <1>. QED  BY <1>1, <1>3, <1>4, <1>5 DEF PermitsExact

\* The facts of one connection in a sound state.
LEMMA ClientFacts ==
    ASSUME SInv, NEW c \in Clients
    PROVE  /\ SocketsTypeOK /\ permits \in Nat /\ height \in Nat
           /\ task[c] \in Tasks
           /\ Sound(task[c], height, queue[c], subscriptions[c], sent_positions[c],
                    left[c], trace[c], begun[c])
           /\ left[c].under_way => task[c] = "open"
           /\ left[c].subs # {} => left[c].under_way
           /\ left[c] \in Lefts /\ subscriptions[c] \in SUBSET Subs
  <1>1. SoundClient(c) /\ SocketsTypeOK  BY DEF SInv
  <1>2. Sound(task[c], height, queue[c], subscriptions[c], sent_positions[c],
              left[c], trace[c], begun[c])
    BY <1>1 DEF SoundClient
  <1>3. Underway(task[c], subscriptions[c], left[c], begun[c])  BY <1>2 DEF Sound
  <1>. QED  BY <1>1, <1>2, <1>3 DEF SocketsTypeOK, Underway

-----------------------------------------------------------------------------
(* The steps *)

\* A connection that returns gives its permit back and leaves nothing behind.
LEMMA StepReturn ==
    ASSUME SInv, NEW c \in Clients, task[c] # "none", Return(c), UNCHANGED book
    PROVE  SInv'
  <1>1. /\ Release /\ height' = height
        /\ task' = [task EXCEPT ![c] = "none"]
        /\ queue' = [queue EXCEPT ![c] = <<>>]
        /\ subscriptions' = [subscriptions EXCEPT ![c] = {}]
        /\ sent_positions' = [sent_positions EXCEPT ![c] = Nothing]
        /\ left' = [left EXCEPT ![c] = NoBatch]
        /\ trace' = [trace EXCEPT ![c] = <<>>]
        /\ begun' = [begun EXCEPT ![c] = <<>>]
    BY DEF Return, book
  <1>2. permits' \in Nat /\ IsFiniteSet(Connected') /\ PermitsExact'
    BY <1>1, PermitBack
  <1>3. SocketsTypeOK /\ (\A d \in Clients : SoundClient(d)) /\ height \in Nat
    BY DEF SInv, SocketsTypeOK
  <1>4. Sound("none", height, <<>>, {}, Nothing, NoBatch, <<>>, <<>>)
    BY <1>3, SoundNothing DEF Tasks
  <1>5. SocketsTypeOK' /\ \A d \in Clients : SoundClient(d)'
    BY <1>1, <1>2, <1>3, <1>4, StepOne
  <1>. QED  BY <1>2, <1>5 DEF SInv

\* A step within a connection that is neither its first nor its last.
LEMMA StepWithin ==
    ASSUME SInv, NEW c \in Clients,
           NEW tk, NEW q, NEW S, NEW pos, NEW lf, NEW b, NEW g,
           Sound(tk, height, q, S, pos, lf, b, g), tk = "none" <=> task[c] = "none",
           permits' = permits, height' = height,
           task' = [task EXCEPT ![c] = tk],
           queue' = [queue EXCEPT ![c] = q],
           subscriptions' = [subscriptions EXCEPT ![c] = S],
           sent_positions' = [sent_positions EXCEPT ![c] = pos],
           left' = [left EXCEPT ![c] = lf],
           trace' = [trace EXCEPT ![c] = b],
           begun' = [begun EXCEPT ![c] = g]
    PROVE  SInv'
  <1>1. SocketsTypeOK /\ (\A d \in Clients : SoundClient(d)) /\ permits' \in Nat
    BY DEF SInv, SocketsTypeOK
  <1>2. SocketsTypeOK' /\ \A d \in Clients : SoundClient(d)'
    BY <1>1, StepOne
  <1>3. \A d \in Clients : task'[d] = "none" <=> task[d] = "none"
    BY <1>1 DEF SocketsTypeOK
  <1>4. task' \in [Clients -> Tasks]  BY <1>2 DEF SocketsTypeOK
  <1>5. IsFiniteSet(Connected') /\ PermitsExact'  BY <1>3, <1>4, PermitsKept
  <1>. QED  BY <1>2, <1>5 DEF SInv

\* ws_handler: a request takes a permit or is refused, and an upgrade ends.
LEMMA StepAdmission ==
    ASSUME SInv, NEW c \in Clients,
           Request(c) \/ Upgraded(c) \/ UpgradeDeadline(c) \/ UpgradeFails(c)
    PROVE  SInv'
  <1>1. /\ SocketsTypeOK /\ permits \in Nat
        /\ Sound(task[c], height, queue[c], subscriptions[c], sent_positions[c],
                 left[c], trace[c], begun[c])
        /\ left[c].under_way => task[c] = "open"
        /\ \A d \in Clients : SoundClient(d)
    BY ClientFacts DEF SInv
  <1>2. CASE Request(c)
    <2>1. /\ task[c] = "none" /\ height' = height
          /\ UNCHANGED <<queue, subscriptions, sent_positions, left, trace, begun>>
      BY <1>2 DEF Request, book, conn
    <2>1a. /\ queue' = [queue EXCEPT ![c] = queue[c]]
           /\ subscriptions' = [subscriptions EXCEPT ![c] = subscriptions[c]]
           /\ sent_positions' = [sent_positions EXCEPT ![c] = sent_positions[c]]
           /\ left' = [left EXCEPT ![c] = left[c]]
           /\ trace' = [trace EXCEPT ![c] = trace[c]]
           /\ begun' = [begun EXCEPT ![c] = begun[c]]
      BY <1>1, <2>1, Unwritten
    <2>2. CASE permits > 0
      <3>1. permits' = permits - 1 /\ task' = [task EXCEPT ![c] = "upgrading"]
        BY <1>2, <2>2 DEF Request
      <3>2. permits' \in Nat /\ IsFiniteSet(Connected') /\ PermitsExact'
        BY <2>1, <2>2, <3>1, PermitTaken
      <3>3. Sound("upgrading", height, queue[c], subscriptions[c], sent_positions[c],
                  left[c], trace[c], begun[c])
        BY <1>1, <2>1, SoundTask DEF Tasks
      <3>4. SocketsTypeOK' /\ \A d \in Clients : SoundClient(d)'
        <4>1. PICK tk : tk = "upgrading"  OBVIOUS
        <4>2. task' = [task EXCEPT ![c] = tk]  BY <3>1, <4>1
        <4>3. Sound(tk, height, queue[c], subscriptions[c], sent_positions[c],
                    left[c], trace[c], begun[c])
          BY <3>3, <4>1
        <4>4. height' = height /\ permits' \in Nat  BY <2>1, <3>2
        <4>. QED  BY <1>1, <2>1a, <4>2, <4>3, <4>4, StepOne
      <3>. QED  BY <3>2, <3>4 DEF SInv
    <2>3. CASE ~(permits > 0)
      <3>1. permits' = permits /\ task' = task  BY <1>2, <2>3 DEF Request
      <3>. QED  BY <1>1, <2>1, <3>1, Unwritten, StepWithin
    <2>. QED  BY <2>2, <2>3
  <1>3. CASE Upgraded(c)
    <2>1. /\ task[c] = "upgrading" /\ height' = height /\ permits' = permits
          /\ task' = [task EXCEPT ![c] = "open"]
          /\ UNCHANGED <<queue, subscriptions, sent_positions, left, trace, begun>>
      BY <1>3 DEF Upgraded, book, conn
    <2>2. Sound("open", height, queue[c], subscriptions[c], sent_positions[c],
                left[c], trace[c], begun[c])
      BY <1>1, <2>1, SoundTask DEF Tasks
    <2>3. /\ queue' = [queue EXCEPT ![c] = queue[c]]
          /\ subscriptions' = [subscriptions EXCEPT ![c] = subscriptions[c]]
          /\ sent_positions' = [sent_positions EXCEPT ![c] = sent_positions[c]]
          /\ left' = [left EXCEPT ![c] = left[c]]
          /\ trace' = [trace EXCEPT ![c] = trace[c]]
          /\ begun' = [begun EXCEPT ![c] = begun[c]]
      BY <1>1, <2>1, Unwritten
    <2>4. PICK tk : tk = "open"  OBVIOUS
    <2>5. /\ tk = "none" <=> task[c] = "none"
          /\ task' = [task EXCEPT ![c] = tk] /\ permits' = permits /\ height' = height
      BY <2>1, <2>4
    <2>6. Sound(tk, height, queue[c], subscriptions[c], sent_positions[c],
                left[c], trace[c], begun[c])
      BY <2>2, <2>4
    <2>. QED  BY <2>3, <2>5, <2>6, StepWithin
  <1>4. CASE UpgradeDeadline(c) \/ UpgradeFails(c)
    BY <1>4, StepReturn DEF UpgradeDeadline, UpgradeFails
  <1>. QED  BY <1>2, <1>3, <1>4

\* The listener publishes the next height to every open connection.
LEMMA StepPublish ==
    ASSUME SInv, Publish
    PROVE  SInv'
  <1>1. /\ SocketsTypeOK /\ permits \in Nat /\ height \in Nat
        /\ \A d \in Clients : SoundClient(d)
    BY DEF SInv, SocketsTypeOK
  <1>2. PICK m : m = [height |-> height', views |-> views']  OBVIOUS
  <1>3. height' = height + 1 /\ height' \in Nat /\ views' \in Views  BY <1>1 DEF Publish
  <1>4. m \in Published /\ m.height = height + 1  BY <1>2, <1>3 DEF Published
  <1>5. /\ queue' = [c \in Clients |-> IF task[c] = "open" THEN Append(queue[c], m) ELSE queue[c]]
        /\ UNCHANGED <<permits, task, subscriptions, sent_positions, left, trace, begun>>
    BY <1>2 DEF Publish
  <1>6. ASSUME NEW d \in Clients
        PROVE  queue'[d] \in Seq(Published) /\ SoundClient(d)'
    <2>1. Sound(task[d], height, queue[d], subscriptions[d], sent_positions[d],
                left[d], trace[d], begun[d])
      BY <1>1 DEF SoundClient
    <2>2. PICK q : q = Append(queue[d], m)  OBVIOUS
    <2>3. /\ Sound(task[d], height + 1, queue[d], subscriptions[d], sent_positions[d],
                   left[d], trace[d], begun[d])
          /\ Sound(task[d], height + 1, q, subscriptions[d], sent_positions[d],
                   left[d], trace[d], begun[d])
      BY <1>4, <2>1, <2>2, SoundPublish
    <2>4. queue'[d] = q \/ queue'[d] = queue[d]  BY <1>5, <2>2
    <2>5. Sound(task[d], height + 1, queue'[d], subscriptions[d], sent_positions[d],
                left[d], trace[d], begun[d])
      BY <2>3, <2>4
    <2>6. queue'[d] \in Seq(Published)  BY <2>5 DEF Sound, Typed
    <2>7. SoundClient(d)'  BY <1>3, <1>5, <2>5 DEF SoundClient
    <2>. QED  BY <2>6, <2>7
  <1>7. queue' \in [Clients -> Seq(Published)]  BY <1>5, <1>6
  <1>8. SocketsTypeOK'  BY <1>1, <1>3, <1>5, <1>7 DEF SocketsTypeOK
  <1>9. IsFiniteSet(Connected') /\ PermitsExact'
    BY <1>1, <1>5, PermitsKept DEF SocketsTypeOK
  <1>. QED  BY <1>6, <1>8, <1>9 DEF SInv

\* Requests between batches.
LEMMA StepRequest ==
    ASSUME SInv, NEW c \in Clients, NEW s \in Subs, Subscribe(c, s) \/ Unsubscribe(c, s)
    PROVE  SInv'
  <1>1. /\ SocketsTypeOK /\ permits \in Nat
        /\ Sound(task[c], height, queue[c], subscriptions[c], sent_positions[c],
                 left[c], trace[c], begun[c])
    BY ClientFacts
  <1>2. /\ ~left[c].under_way /\ permits' = permits /\ height' = height
        /\ UNCHANGED <<task, queue, left, trace, begun>>
    BY DEF Subscribe, Unsubscribe, AtSelect, book
  <1>3. /\ task' = [task EXCEPT ![c] = task[c]]
        /\ queue' = [queue EXCEPT ![c] = queue[c]]
        /\ left' = [left EXCEPT ![c] = left[c]]
        /\ trace' = [trace EXCEPT ![c] = trace[c]]
        /\ begun' = [begun EXCEPT ![c] = begun[c]]
    BY <1>1, <1>2, Unwritten
  <1>3a. permits' = permits /\ height' = height  BY <1>2
  <1>4. CASE Subscribe(c, s)
    <2>1. PICK S, pos : /\ S = subscriptions[c] \union {s}
                        /\ pos = [sent_positions[c] EXCEPT ![s] = height]
      OBVIOUS
    <2>2. /\ subscriptions' = [subscriptions EXCEPT ![c] = S]
          /\ sent_positions' = [sent_positions EXCEPT ![c] = pos]
      BY <1>4, <2>1 DEF Subscribe
    <2>3. Sound(task[c], height, queue[c], S, pos, left[c], trace[c], begun[c])
      BY <1>1, <1>2, <2>1, SoundSubscribe
    <2>. QED  BY <1>3, <1>3a, <2>2, <2>3, StepWithin
  <1>5. CASE Unsubscribe(c, s)
    <2>1. PICK S, pos : /\ S = subscriptions[c] \ {s}
                        /\ pos = [sent_positions[c] EXCEPT ![s] = 0]
      OBVIOUS
    <2>2. /\ subscriptions' = [subscriptions EXCEPT ![c] = S]
          /\ sent_positions' = [sent_positions EXCEPT ![c] = pos]
      BY <1>5, <2>1 DEF Unsubscribe
    <2>3. Sound(task[c], height, queue[c], S, pos, left[c], trace[c], begun[c])
      BY <1>1, <1>2, <2>1, SoundUnsubscribe
    <2>. QED  BY <1>3, <1>3a, <2>2, <2>3, StepWithin
  <1>. QED  BY <1>4, <1>5

\* Last, of a history that is not empty.
LEMMA CurrentFacts == ASSUME NEW c PROVE Current(c) = begun[c][Len(begun[c])]
  BY DEF Current, Last

\* The start and the end of a batch.
LEMMA StepBatch ==
    ASSUME SInv, NEW c \in Clients, BeginBatch(c) \/ CompleteBatch(c)
    PROVE  SInv'
  <1>1. /\ SocketsTypeOK /\ permits \in Nat
        /\ Sound(task[c], height, queue[c], subscriptions[c], sent_positions[c],
                 left[c], trace[c], begun[c])
    BY ClientFacts
  <1>2. /\ permits' = permits /\ height' = height
        /\ UNCHANGED <<task, subscriptions, sent_positions>>
    BY DEF BeginBatch, CompleteBatch, book
  <1>3. /\ task' = [task EXCEPT ![c] = task[c]]
        /\ subscriptions' = [subscriptions EXCEPT ![c] = subscriptions[c]]
        /\ sent_positions' = [sent_positions EXCEPT ![c] = sent_positions[c]]
    BY <1>1, <1>2, Unwritten
  <1>3a. permits' = permits /\ height' = height  BY <1>2
  <1>4. CASE BeginBatch(c)
    <2>1. task[c] = "open" /\ ~left[c].under_way /\ queue[c] # <<>>
      BY <1>4 DEF BeginBatch, AtSelect
    <2>2. PICK q, lf, b, g : /\ q = Tail(queue[c]) /\ lf = Batch(subscriptions[c])
                             /\ b = begin(trace[c], Head(queue[c]).height)
                             /\ g = Append(begun[c], Begun(Head(queue[c])))
      OBVIOUS
    <2>3. /\ queue' = [queue EXCEPT ![c] = q] /\ left' = [left EXCEPT ![c] = lf]
          /\ trace' = [trace EXCEPT ![c] = b] /\ begun' = [begun EXCEPT ![c] = g]
      BY <1>4, <2>2 DEF BeginBatch
    <2>4. Sound(task[c], height, q, subscriptions[c], sent_positions[c], lf, b, g)
      BY <1>1, <2>1, <2>2, SoundBegin
    <2>. QED  BY <1>2, <1>3, <2>3, <2>4, StepWithin
  <1>5. CASE CompleteBatch(c)
    <2>1. left[c] = Batch({}) /\ queue' = queue /\ begun' = begun
      BY <1>5 DEF CompleteBatch
    <2>2. queue' = [queue EXCEPT ![c] = queue[c]] /\ begun' = [begun EXCEPT ![c] = begun[c]]
      BY <1>1, <2>1, Unwritten
    <2>3. PICK lf, b : lf = NoBatch /\ b = complete(trace[c])  OBVIOUS
    <2>4. left' = [left EXCEPT ![c] = lf] /\ trace' = [trace EXCEPT ![c] = b]
      BY <1>5, <2>3 DEF CompleteBatch
    <2>5. Sound(task[c], height, queue[c], subscriptions[c], sent_positions[c], lf, b, begun[c])
      BY <1>1, <2>1, <2>3, SoundComplete
    <2>. QED  BY <1>3, <1>3a, <2>2, <2>4, <2>5, StepWithin
  <1>. QED  BY <1>4, <1>5

\* One subscription of a batch.
LEMMA StepServe ==
    ASSUME SInv, NEW c \in Clients, NEW s \in Subs, Skip(c, s) \/ Flush(c, s)
    PROVE  SInv'
  <1>1. /\ SocketsTypeOK /\ permits \in Nat
        /\ Sound(task[c], height, queue[c], subscriptions[c], sent_positions[c],
                 left[c], trace[c], begun[c])
    BY ClientFacts
  <1>2. /\ permits' = permits /\ height' = height
        /\ UNCHANGED <<task, queue, subscriptions>>
    BY DEF Skip, Flush, book
  <1>3. /\ task' = [task EXCEPT ![c] = task[c]]
        /\ queue' = [queue EXCEPT ![c] = queue[c]]
        /\ subscriptions' = [subscriptions EXCEPT ![c] = subscriptions[c]]
    BY <1>1, <1>2, Unwritten
  <1>3a. permits' = permits /\ height' = height  BY <1>2
  <1>4. PICK lf : lf = [left[c] EXCEPT !.subs = left[c].subs \ {s}]  OBVIOUS
  <1>5. left' = [left EXCEPT ![c] = lf]  BY <1>4 DEF Skip, Flush
  <1>6. s \in left[c].subs  BY DEF Skip, Flush, Due
  <1>7. CASE Skip(c, s)
    <2>1. UNCHANGED <<sent_positions, trace, begun>>  BY <1>7 DEF Skip
    <2>2. /\ sent_positions' = [sent_positions EXCEPT ![c] = sent_positions[c]]
          /\ trace' = [trace EXCEPT ![c] = trace[c]]
          /\ begun' = [begun EXCEPT ![c] = begun[c]]
      BY <1>1, <2>1, Unwritten
    <2>3. ~(/\ begun[c][Len(begun[c])].height > sent_positions[c][s]
            /\ s \in begun[c][Len(begun[c])].views)
      BY <1>6, <1>7, CurrentFacts DEF Skip, Due
    <2>4. Sound(task[c], height, queue[c], subscriptions[c], sent_positions[c],
                lf, trace[c], begun[c])
      BY <1>1, <1>4, <1>6, <2>3, SoundSkip
    <2>. QED  BY <1>3, <1>3a, <1>5, <2>2, <2>4, StepWithin
  <1>8. CASE Flush(c, s)
    <2>1. /\ begun[c][Len(begun[c])].height > sent_positions[c][s]
          /\ s \in begun[c][Len(begun[c])].views
      BY <1>8, CurrentFacts DEF Flush, Due
    <2>2. PICK pos, b, g :
            /\ pos = [sent_positions[c] EXCEPT ![s] = begun[c][Len(begun[c])].height]
            /\ b = sent(trace[c])
            /\ g = [begun[c] EXCEPT ![Len(begun[c])].frames = @ \union {s}]
      OBVIOUS
    <2>3. sent_positions' = [sent_positions EXCEPT ![c] = pos]
      BY <1>8, <2>2, CurrentFacts DEF Flush
    <2>4. trace' = [trace EXCEPT ![c] = b]  BY <1>8, <2>2 DEF Flush
    <2>5. begun' = [begun EXCEPT ![c] = g]  BY <1>8, <2>2 DEF Flush
    <2>6. Sound(task[c], height, queue[c], subscriptions[c], pos, lf, b, g)
      BY <1>1, <1>4, <1>6, <2>1, <2>2, SoundFlush
    <2>. QED  BY <1>2, <1>3, <1>5, <2>3, <2>4, <2>5, <2>6, StepWithin
  <1>. QED  BY <1>7, <1>8

\* The ways a connection ends once it is open.
LEMMA StepEnds ==
    ASSUME SInv, NEW c \in Clients, Leave(c) \/ WriteFails(c) \/ SourceStale(c)
    PROVE  SInv'
  <1>1. task[c] # "none"
    <2>1. left[c].subs # {} => task[c] = "open"  BY ClientFacts
    <2>2. CASE Leave(c)  BY <2>2 DEF Leave, AtSelect
    <2>3. CASE WriteFails(c)  BY <2>1, <2>3 DEF WriteFails, Due
    <2>4. CASE SourceStale(c)  BY <2>1, <2>4 DEF SourceStale
    <2>. QED  BY <2>2, <2>3, <2>4
  <1>2. Return(c) /\ UNCHANGED book  BY DEF Leave, WriteFails, SourceStale
  <1>. QED  BY <1>1, <1>2, StepReturn

-----------------------------------------------------------------------------
\* The initial state has the invariant.
LEMMA SInvInit == SInit => SInv
  <1>. SUFFICES ASSUME SInit PROVE SInv  OBVIOUS
  <1>1. /\ permits = MaxPermits /\ height = 0
        /\ task = [c \in Clients |-> "none"]
        /\ queue = [c \in Clients |-> <<>>]
        /\ subscriptions = [c \in Clients |-> {}]
        /\ sent_positions = [c \in Clients |-> Nothing]
        /\ left = [c \in Clients |-> NoBatch]
        /\ trace = [c \in Clients |-> <<>>]
        /\ begun = [c \in Clients |-> <<>>]
    BY DEF SInit
  <1>2. MaxPermits \in Nat /\ "none" \in Tasks  BY SocketsAssumption DEF Tasks
  <1>3. Sound("none", 0, <<>>, {}, Nothing, NoBatch, <<>>, <<>>)  BY <1>2, SoundNothing
  <1>4. /\ <<>> \in Seq(Published) /\ {} \in SUBSET Subs /\ Nothing \in [Subs -> Nat]
        /\ NoBatch \in Lefts /\ <<>> \in Seq(Batches) /\ <<>> \in Seq(Begins)
    BY <1>3 DEF Sound, Typed
  <1>5. SocketsTypeOK  BY <1>1, <1>2, <1>4 DEF SocketsTypeOK
  <1>6. \A c \in Clients : SoundClient(c)  BY <1>1, <1>3 DEF SoundClient
  <1>7. Connected = {}  BY <1>1 DEF Connected
  <1>8. IsFiniteSet(Connected) /\ PermitsExact  BY <1>1, <1>2, <1>7, FS_EmptySet DEF PermitsExact
  <1>. QED  BY <1>5, <1>6, <1>8 DEF SInv

\* Every step of the listener or of a connection keeps it.
LEMMA SInvStep == SInv /\ [SNext]_svars => SInv'
  <1>. SUFFICES ASSUME SInv, [SNext]_svars PROVE SInv'
    OBVIOUS
  <1>1. CASE Publish  BY <1>1, StepPublish
  <1>2. ASSUME NEW c \in Clients,
               Request(c) \/ Upgraded(c) \/ UpgradeDeadline(c) \/ UpgradeFails(c)
        PROVE  SInv'
    BY <1>2, StepAdmission
  <1>3. ASSUME NEW c \in Clients, Leave(c) \/ WriteFails(c) \/ SourceStale(c) PROVE SInv'
    BY <1>3, StepEnds
  <1>4. ASSUME NEW c \in Clients, BeginBatch(c) \/ CompleteBatch(c) PROVE SInv'
    BY <1>4, StepBatch
  <1>5. ASSUME NEW c \in Clients, NEW s \in Subs, Subscribe(c, s) \/ Unsubscribe(c, s) PROVE SInv'
    BY <1>5, StepRequest
  <1>6. ASSUME NEW c \in Clients, NEW s \in Subs, Skip(c, s) \/ Flush(c, s) PROVE SInv'
    BY <1>6, StepServe
  <1>7. CASE UNCHANGED svars
    <2>1. UNCHANGED <<permits, task, height, queue, subscriptions, sent_positions, left, trace, begun>>
      BY <1>7 DEF svars, book, conn
    <2>2. SocketsTypeOK'  BY <2>1 DEF SInv, SocketsTypeOK
    <2>3. Connected' = Connected  BY <2>1 DEF Connected
    <2>4. \A d \in Clients : SoundClient(d)'  BY <2>1 DEF SInv, SoundClient
    <2>. QED  BY <2>1, <2>2, <2>3, <2>4 DEF SInv, PermitsExact
  <1>. QED  BY <1>1, <1>2, <1>3, <1>4, <1>5, <1>6, <1>7 DEF SNext

\* What the trace of a sound connection says is so.
LEMMA SoundHonest == SInv => TraceHonest
  <1>. SUFFICES ASSUME SInv PROVE TraceHonest  OBVIOUS
  <1>1. HISTORY \in Nat \ {0}  BY SocketsAssumption
  <1>. SUFFICES ASSUME NEW c \in Clients
                PROVE  LET b == trace[c]
                           n == Len(begun[c])
                           k == Len(b)
                       IN  /\ k = IF n < HISTORY THEN n ELSE HISTORY
                           /\ \A i \in 1..k : LET real == begun[c][n - k + i] IN
                                 /\ b[i].height = real.height
                                 /\ b[i].flushed_frames = Cardinality(real.frames)
                                 /\ b[i].completed \/ (i = k /\ left[c].under_way)
                                 /\ i = k /\ b[i].completed =>
                                       \A s \in subscriptions[c] \intersect real.views :
                                          sent_positions[c][s] >= b[i].height
                           /\ left[c].under_way => ~b[k].completed
    BY DEF TraceHonest
  <1>2. PICK b, g, lf, S, pos : /\ b = trace[c] /\ g = begun[c] /\ lf = left[c]
                                /\ S = subscriptions[c] /\ pos = sent_positions[c]
    OBVIOUS
  <1>3. Sound(task[c], height, queue[c], S, pos, lf, b, g)  BY <1>2, ClientFacts
  <1>4. PICK k, n : k = Len(b) /\ n = Len(g)  OBVIOUS
  <1>5. b \in Seq(Batches) /\ g \in Seq(Begins) /\ S \in SUBSET Subs  BY <1>3 DEF Sound, Typed
  <1>6. LatestKept(b, g)  BY <1>3 DEF Sound
  <1>7. k \in Nat /\ n \in Nat /\ k =< n /\ (g # <<>> => k >= 1)
    BY <1>4, <1>5, <1>6, TraceFits
  <1>8. k = IF n < HISTORY THEN n ELSE HISTORY  BY <1>1, <1>4, <1>6, <1>7 DEF LatestKept
  <1>9. \A i \in 1..k : b[i].completed <=> ~(lf.under_way /\ i = k)
    BY <1>3, <1>4 DEF Sound, RowsComplete
  <1>10. lf.under_way => ~b[k].completed
    <2>1. lf.under_way => k \in 1..k  BY <1>3, <1>7 DEF Sound, Underway
    <2>. QED  BY <1>9, <2>1
  <1>11. ASSUME NEW i \in 1..k
         PROVE  /\ b[i].height = g[n - k + i].height
                /\ b[i].flushed_frames = Cardinality(g[n - k + i].frames)
                /\ b[i].completed \/ (i = k /\ lf.under_way)
                /\ i = k /\ b[i].completed =>
                      \A s \in S \intersect g[n - k + i].views : pos[s] >= b[i].height
    <2>1. RowTrue(b[i], g[n - k + i])  BY <1>3, <1>4 DEF Sound, RowsTrue
    <2>2. ASSUME i = k, b[i].completed, NEW s \in S \intersect g[n - k + i].views
          PROVE  pos[s] >= b[i].height
      <3>1. n - k + i = n /\ n # 0  BY <1>7, <2>2
      <3>2. ~lf.under_way /\ g # <<>>  BY <1>4, <1>9, <2>2, <3>1
      <3>3. Served(S, pos, g[n], {})  BY <1>3, <1>4, <3>2 DEF Sound, LastServed
      <3>4. s \in Subs  BY <1>5
      <3>. QED  BY <2>1, <2>2, <3>1, <3>3, <3>4 DEF Served, RowTrue
    <2>. QED  BY <1>9, <2>1, <2>2 DEF RowTrue
  <1>. QED  BY <1>2, <1>4, <1>8, <1>10, <1>11

\* No permit is lost or invented, whichever way connections end (ws_handler,
\* OwnedSemaphorePermit).
THEOREM SocketsPermitsExact == SSpec => []PermitsExact
  <1>1. SInv => PermitsExact  BY DEF SInv
  <1>. QED  BY <1>1, SInvInit, SInvStep, PTL DEF SSpec

\* The delivery trace says what happened: it has the latest batches with their
\* frames, and calls one complete only if everybody was served (DeliveryTrace).
THEOREM SocketsTraceHonest == SSpec => []TraceHonest
  BY SoundHonest, SInvInit, SInvStep, PTL DEF SSpec

\* The state of the semaphore and of every connection is well formed.
THEOREM SocketsTypes == SSpec => []SocketsTypeOK
  <1>1. SInv => SocketsTypeOK  BY DEF SInv
  <1>. QED  BY <1>1, SInvInit, SInvStep, PTL DEF SSpec

=============================================================================
