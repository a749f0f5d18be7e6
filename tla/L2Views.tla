------------------------------ MODULE L2Views -------------------------------
(***************************************************************************)
(* The L2 views of the live book and their encoded frames.                 *)
(*                                                                         *)
(* The book keeps one map of views behind an Arc and rebuilds the entries  *)
(* of dirty coins only (state.rs, refresh_l2_snapshots in utils.rs); the   *)
(* channel and the sockets hold clones of that Arc; one BookWireCache,     *)
(* shared by all sockets, keeps the frames of one position, named by the   *)
(* allocation's address, time and height (websocket_server.rs).            *)
(*                                                                         *)
(* heap is the set of live allocations.  A coin's book is a number: 0 is   *)
(* the empty book, and book n is encoded in n + 1 units.  Aggregation is   *)
(* the subject of L2Levels, so a coin has one view and one subscription.   *)
(***************************************************************************)
EXTENDS Integers, FiniteSets, Functions

CONSTANTS
    Coins,
    Hip4Coins,      \* coins whose absent book is shown as empty
    MaxBook,        \* the books of a coin are 0..MaxBook
    Snapshots,      \* the snapshots that may be loaded: maps from coins to books
    SnapHeights,    \* the heights of those snapshots
    Blocks,         \* what a block may change: maps from coins to new books
    LastHeight,     \* bound on the heights of the run
    MaxAddr,        \* bound on the allocations that are live at a time
    MaxHeld,        \* bound on the views held at a time by channel and sockets
    MaxFrame,       \* MAX_WIRE_BYTES
    MaxBytes,       \* the cache's byte limit
    MaxEntries      \* the cache's entry limit

ASSUME ViewsAssumption ==
    /\ Hip4Coins \subseteq Coins
    /\ Snapshots \cup Blocks \subseteq UNION {[cs -> 0..MaxBook] : cs \in SUBSET Coins}
    /\ SnapHeights \subseteq 1..LastHeight
    /\ {MaxBook, LastHeight, MaxAddr, MaxHeld, MaxFrame, MaxBytes, MaxEntries} \subseteq Nat

VARIABLES
    heap,           \* address -> the map of views allocated there
    live,           \* order_book_state, or NoState
    pinned,         \* the l2_cache of the snapshot task's clone, or NoAddr
    views,          \* the views held by messages and sockets
    wire            \* the BookWireCache

l2vvars == <<heap, live, pinned, views, wire>>

Addrs == 1..MaxAddr
NoAddr == 0
NoState == [height |-> 0]
NoPosition == <<>>
Empty == 0
NoMap == [x \in {} |-> 0]

\* The map f with x mapped to y, and with the entries of g over its own.
With(f, x, y) == [z \in DOMAIN f \cup {x} |-> IF z = x THEN y ELSE f[z]]
Over(g, f) == [z \in DOMAIN f \cup DOMAIN g |-> IF z \in DOMAIN g THEN g[z] ELSE f[z]]

FreshWire == [position |-> NoPosition, source |-> NoAddr, entries |-> NoMap, bytes |-> 0]

ViewsInit ==
    /\ heap = NoMap
    /\ live = NoState
    /\ pinned = NoAddr
    /\ views = {}
    /\ wire = FreshWire

-----------------------------------------------------------------------------
(* Arcs.  Held(l, p, vs, w): the addresses that somebody refers to.        *)

Held(l, p, vs, w) ==
    ({p, w.source} \cup {v.addr : v \in vs} \cup (IF l = NoState THEN {} ELSE {l.cache})) \ {NoAddr}

\* The allocator reuses a freed address at once.
Free == CHOOSE a \in Addrs : a \notin DOMAIN heap
CanAllocate == Addrs \ DOMAIN heap # {}

\* The next state of the Arcs, with every allocation nobody refers to freed.
Arcs(h, l, p, vs, w) ==
    /\ heap' = Restrict(h, Held(l, p, vs, w))
    /\ live' = l
    /\ pinned' = p
    /\ views' = vs
    /\ wire' = w

SoleOwner == live.cache \notin {pinned, wire.source} \cup {v.addr : v \in views}

-----------------------------------------------------------------------------
(* The book.                                                               *)

from_snapshot(books, h, t) ==
    [height |-> h, time |-> t, snapped |-> FALSE, books |-> books,
     cache |-> Free, dirty |-> DOMAIN books]

\* init_from_snapshot and the reloads of reconcile_snapshot: a new book at any
\* height, with time 0 or, after replayed blocks, that of its last block.
Load(books, h, t) ==
    /\ CanAllocate
    /\ Arcs(With(heap, Free, NoMap), from_snapshot(books, h, t), pinned, views, wire)

\* A block that changes the books of some coins, new coins included.
apply_updates(s, changed) ==
    [s EXCEPT !.height = @ + 1, !.time = s.height + 1, !.snapped = FALSE,
              !.books = Over(changed, @), !.dirty = @ \cup DOMAIN changed]

ApplyBlock(changed) ==
    /\ live # NoState /\ live.height < LastHeight
    /\ Arcs(heap, apply_updates(live, changed), pinned, views, wire)

\* A refused block, or a fault in the streams.
Fence ==
    /\ live # NoState
    /\ Arcs(heap, NoState, pinned, views, wire)

CloneState ==
    /\ live # NoState /\ pinned = NoAddr
    /\ Arcs(heap, live, live.cache, views, wire)

DropClone ==
    /\ pinned # NoAddr
    /\ Arcs(heap, live, NoAddr, views, wire)

-----------------------------------------------------------------------------
(* Views of the book.                                                      *)

\* Mutant of make_mut: the map is changed in place although others hold it.
make_mut_InPlace == live.cache

\* Arc::make_mut: the sole owner changes the map in place, others copy it.
make_mut == IF SoleOwner THEN live.cache ELSE Free

\* The dirty coins are rebuilt from their books, the others kept.
Refreshed ==
    [c \in DOMAIN heap[live.cache] \cup (live.dirty \cap DOMAIN live.books) |->
        IF c \in live.dirty \cap DOMAIN live.books THEN live.books[c] ELSE heap[live.cache][c]]

\* compute_l2_snapshot: the result is held by a message or by a socket.
\* "shown" records the book that the view is of.
compute_l2_snapshot(snap) ==
    LET a == IF live.dirty = {} THEN live.cache ELSE make_mut
        h == IF live.dirty = {} THEN heap ELSE With(heap, a, Refreshed)
        v == [addr |-> a, time |-> live.time, height |-> live.height, shown |-> live.books]
    IN  Arcs(h, [live EXCEPT !.cache = a, !.dirty = {}, !.snapped = @ \/ snap],
             pinned, views \cup {v}, wire)

\* The bounds on what is held and allocated.
CanHold ==
    /\ Cardinality(views) < MaxHeld
    /\ live.dirty # {} /\ ~SoleOwner => CanAllocate

\* The end of process_data: at most once per height.
Publish ==
    /\ live # NoState /\ ~live.snapped
    /\ CanHold
    /\ compute_l2_snapshot(TRUE)

\* An L2Book subscription asks for the present view.
SnapshotForSubscriber ==
    /\ live # NoState
    /\ CanHold
    /\ compute_l2_snapshot(FALSE)

\* The last receiver of a view is done with it.
Release(v) == Arcs(heap, live, pinned, views \ {v}, wire)

-----------------------------------------------------------------------------
(* BookWireCache::get, for the view v and the L2Book subscription to c.    *)

Position(v) == <<v.addr, v.time, v.height>>

Frame(book, v) == [book |-> book, time |-> v.time, height |-> v.height]
Length(book) == book + 1
NoFrame == [book |-> -1]

Cacheable(v) ==
    wire.position = NoPosition \/ (v.height >= wire.position[3] /\ v.time >= wire.position[2])

\* Mutant of Moved: the source of the frames is not retained.
Moved_Unretained(v) ==
    IF Cacheable(v) /\ wire.position # Position(v)
    THEN [FreshWire EXCEPT !.position = Position(v)]
    ELSE wire

\* The cache follows the newest view it is asked for.
Moved(v) ==
    IF Cacheable(v) /\ wire.position # Position(v)
    THEN [FreshWire EXCEPT !.position = Position(v), !.source = v.addr]
    ELSE wire

Hit(v, c) == Moved(v).position = Position(v) /\ c \in DOMAIN Moved(v).entries

\* The book that is encoded when no cached frame is found; -1: none is shown.
Looked(v, c) ==
    IF c \in DOMAIN heap[v.addr] THEN heap[v.addr][c]
    ELSE IF c \in Hip4Coins THEN Empty ELSE -1

Fits(v, book) ==
    /\ Cacheable(v)
    /\ Moved(v).bytes + Length(book) =< MaxBytes
    /\ Cardinality(DOMAIN Moved(v).entries) < MaxEntries

\* The frame that get returns, if it returns one.
Answer(v, c) ==
    IF Hit(v, c) THEN Moved(v).entries[c]
    ELSE IF Looked(v, c) = -1 \/ Length(Looked(v, c)) > MaxFrame THEN NoFrame
    ELSE Frame(Looked(v, c), v)

\* The cache that get leaves.
get(v, c) ==
    IF Hit(v, c) \/ Answer(v, c) = NoFrame \/ ~Fits(v, Looked(v, c)) THEN Moved(v)
    ELSE [Moved(v) EXCEPT !.entries = With(@, c, Answer(v, c)),
                          !.bytes = @ + Length(Looked(v, c))]

Get(v, c) == Arcs(heap, live, pinned, views, get(v, c))

-----------------------------------------------------------------------------
ViewsNext ==
    \/ \E books \in Snapshots, h \in SnapHeights : \E t \in {0, h} : Load(books, h, t)
    \/ \E changed \in Blocks : ApplyBlock(changed)
    \/ Fence \/ CloneState \/ DropClone
    \/ Publish \/ SnapshotForSubscriber
    \/ \E v \in views : Release(v) \/ \E c \in Coins : Get(v, c)

ViewsSpec == ViewsInit /\ [][ViewsNext]_l2vvars

-----------------------------------------------------------------------------
\* refresh_l2_snapshots: a view handed out is, and stays, the book it was
\* computed from, in every coin, although only dirty coins are rebuilt and the
\* map is shared with earlier views, with the wire cache and with the clone of
\* the snapshot task.
ViewsFaithful == \A v \in views : heap[v.addr] = v.shown

\* BookWireCache::get: for every view that a socket may still ask for, now or
\* later, the answer is a fresh encoding of that view, whatever was cached
\* before, however addresses are reused, and in whichever order sockets ask.
WireExact ==
    \A v \in views, c \in Coins :
        Answer(v, c) = IF c \in DOMAIN v.shown /\ Length(v.shown[c]) =< MaxFrame
                       THEN Frame(v.shown[c], v)
                       ELSE IF c \notin DOMAIN v.shown /\ c \in Hip4Coins /\ Length(Empty) =< MaxFrame
                       THEN Frame(Empty, v) ELSE NoFrame

=============================================================================
