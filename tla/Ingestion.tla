----------------------------- MODULE Ingestion -----------------------------
(***************************************************************************)
(* The select loop's file ingestion (listeners/order_book/mod.rs) with     *)
(* DirtyFiles and FileCursor (ingestion.rs): the node appends records to   *)
(* hourly files, a watcher turns notifications into dirty paths, and the   *)
(* loop reads one byte budget of one path per turn through a cursor.       *)
(*                                                                         *)
(* Bytes are counted in half records, so a file may end, and a turn may    *)
(* stop, inside a record.  Record number n of a source is block n.  What   *)
(* the listener does with a record is its deduplication: a block is taken  *)
(* if it is later than every block taken before (last_fill, last_ts).      *)
(***************************************************************************)
EXTENDS Integers, Sequences, SequencesExt, FiniteSets, FiniteSetsExt

CONSTANTS
    Sources,        \* subset of {"OrderStatuses", "OrderDiffs", "Fills"}
    Hours,          \* bound: hourly files per source are 1..Hours
    Blocks,         \* bound: the node writes blocks 1..Blocks to each source
    TurnBytes,      \* limits.turn_bytes, in half records
    DirtyLimit,     \* limits.dirty_files
    MaxFaults       \* bound: lost notifications, read failures, removals

ASSUME IngestionAssumption ==
    /\ Sources \subseteq {"OrderStatuses", "OrderDiffs", "Fills"}
    /\ {Hours, TurnBytes, DirtyLimit} \subseteq Nat \ {0}
    /\ Blocks \in Nat /\ MaxFaults \in Nat

Files == Sources \X (1..Hours)

VARIABLES
    disk,       \* file -> [len, start, gone]: start is the blocks before it
    paths, created, overflow,       \* DirtyFiles: queue, map to the created flag, flag
    wake,       \* the Notify's permit
    cursors,    \* file -> [offset, from], from where it was opened
    last,       \* per source, the last block taken (0 is None)
    taken,      \* per source, the blocks taken, in that order (history)
    excused,    \* per source, the blocks written when a Gap was last sent (history)
    fenced,     \* the last step of the loop called fence
    faults

ivars == <<disk, paths, created, overflow, wake, cursors, last, taken, excused, fenced, faults>>
dirty == <<paths, created, overflow>>

Drop(f, S) == [x \in DOMAIN f \ S |-> f[x]]
Put(f, x, v) == [y \in DOMAIN f \union {x} |-> IF y = x THEN v ELSE f[y]]
NoMap == [x \in {} |-> 0]

\* The newest file of a source, and the number of blocks written in full.
FilesOf(src) == {f \in DOMAIN disk : f[1] = src}
Newest(src)  == CHOOSE f \in FilesOf(src) : \A g \in FilesOf(src) : g[2] =< f[2]
WrittenBy(f) == disk[f].start + disk[f].len \div 2
Written(src) == WrittenBy(Newest(src))

IInit ==
    /\ disk = [f \in {g \in Files : g[2] = 1} |-> [len |-> 0, start |-> 0, gone |-> FALSE]]
    /\ paths = <<>> /\ created = NoMap /\ overflow = FALSE
    /\ wake = FALSE
    /\ cursors = NoMap
    /\ last = [s \in Sources |-> 0]
    /\ taken = [s \in Sources |-> <<>>]
    /\ excused = [s \in Sources |-> 0]
    /\ fenced = FALSE
    /\ faults = 0

Fault == faults < MaxFaults /\ faults' = faults + 1

-----------------------------------------------------------------------------
(* DirtyFiles                                                                *)

\* A record of the queue, so that pushes can be chained.
Dirty == [paths |-> paths, created |-> created, overflow |-> overflow]

\* Mutant of push: a full queue drops the path without a word.
push_Forgets(q, f, new) ==
    IF f \in DOMAIN q.created THEN [q EXCEPT !.created[f] = @ \/ new]
    ELSE IF Len(q.paths) >= DirtyLimit THEN q
    ELSE [q EXCEPT !.paths = Append(@, f), !.created = Put(@, f, new)]

push(q, f, new) ==
    IF f \in DOMAIN q.created THEN [q EXCEPT !.created[f] = @ \/ new]
    ELSE IF Len(q.paths) >= DirtyLimit THEN [q EXCEPT !.overflow = TRUE]
    ELSE [q EXCEPT !.paths = Append(@, f), !.created = Put(@, f, new)]

PushAll(q, order) == FoldLeft(LAMBDA d, f : push(d, f, FALSE), q, order)

SetDirty(q) == paths' = q.paths /\ created' = q.created /\ overflow' = q.overflow

-----------------------------------------------------------------------------
(* The node and the watcher callback                                         *)

\* The callback for file f: delivered, lost, or an error of the watcher.
Notify(f, new) ==
    \/ SetDirty(push(Dirty, f, new)) /\ wake' = TRUE /\ UNCHANGED faults
    \/ Fault /\ UNCHANGED <<dirty, wake>>
    \/ Fault /\ SetDirty([Dirty EXCEPT !.overflow = TRUE]) /\ wake' = TRUE

NodeAppends(src) ==
    /\ Written(src) < Blocks
    /\ disk' = [disk EXCEPT ![Newest(src)].len = @ + 1]
    /\ Notify(Newest(src), FALSE)
    /\ fenced' = FALSE
    /\ UNCHANGED <<cursors, last, taken, excused>>

\* The hour ends between two records.
NodeRotates(src) ==
    /\ LET f == Newest(src)
           g == <<src, f[2] + 1>>
       IN  /\ disk[f].len % 2 = 0 /\ disk[f].len > 0 /\ g \in Files
           /\ disk' = Put(disk, g, [len |-> 0, start |-> WrittenBy(f), gone |-> FALSE])
           /\ Notify(g, TRUE)
    /\ fenced' = FALSE
    /\ UNCHANGED <<cursors, last, taken, excused>>

\* An old hour's file is deleted (no create or modify notification).
FileRemoved(f) ==
    /\ f \in DOMAIN disk /\ f # Newest(f[1]) /\ ~disk[f].gone
    /\ Fault
    /\ disk' = [disk EXCEPT ![f].gone = TRUE]
    /\ fenced' = FALSE
    /\ UNCHANGED <<dirty, wake, cursors, last, taken, excused>>

-----------------------------------------------------------------------------
(* Cursors.  c is a map of cursors at some point of a turn.  A descriptor    *)
(* outlives its path: only verify_file looks at the path.                    *)

Exists(f) == ~disk[f].gone

drained(c, f) == c[f].offset = disk[f].len /\ c[f].offset % 2 = 0

needs_attention(c, f) == ~Exists(f) \/ disk[f].len > c[f].offset

\* A partial record is waiting for its end.
Partial(c, f) == c[f].offset % 2 = 1

\* cursors.retain(...): removed files go once they are drained.
Retained(c) == Drop(c, {f \in DOMAIN c : ~Exists(f) /\ drained(c, f)})

\* Mutant of Evicted: the oldest earlier hour goes, read or not.
Evicted_Unread(c, incoming) ==
    LET retired == {f \in DOMAIN c : f[1] = incoming[1] /\ f[2] < incoming[2]}
    IN  Drop(c, {f \in retired : \A g \in retired : f[2] =< g[2]})

\* evict_retired_cursor: the oldest earlier hour of the stream that is read up.
Evicted(c, incoming) ==
    LET retired == {f \in DOMAIN c : /\ f[1] = incoming[1] /\ f[2] < incoming[2]
                                     /\ drained(c, f) /\ ~needs_attention(c, f)}
    IN  Drop(c, {f \in retired : \A g \in retired : f[2] =< g[2]})

open(f, from_end) == LET at == IF from_end THEN disk[f].len ELSE 0
                     IN  [offset |-> at, from |-> at]

-----------------------------------------------------------------------------
(* One turn of the loop.                                                     *)

\* The queues forget what they had taken, the trades feed does not.
AfterFence(l) == [s \in Sources |-> IF s = "Fills" THEN l[s] ELSE 0]

\* `did': fence was called; every block written so far is then accounted for.
Fenced(did) ==
    /\ fenced' = did
    /\ excused' = IF did THEN [s \in Sources |-> Written(s)] ELSE excused

Rewake(q) == SetDirty(q) /\ wake' = (q.paths # <<>>)

\* Nothing was read: the path is gone, or there is none.
TurnWithoutFile(c, q, did) ==
    /\ cursors' = c
    /\ Fenced(did)
    /\ last' = IF did THEN AfterFence(last) ELSE last
    /\ Rewake(q)
    /\ UNCHANGED <<taken, faults>>

\* The file cannot be opened, or read_turn fails (over the record limit, over
\* age, replaced, unreadable) and reopening fails, too: there is no cursor.
OpenFails(c, f, q) ==
    /\ Fault
    /\ cursors' = Drop(c, {f})
    /\ Fenced(TRUE)
    /\ last' = AfterFence(last)
    /\ Rewake(q)
    /\ UNCHANGED taken

\* read_turn fails; the interval is skipped by reopening at the end.
ReadFails(c, f, q) ==
    /\ Fault
    /\ cursors' = Put(c, f, open(f, TRUE))
    /\ Fenced(TRUE)
    /\ last' = AfterFence(last)
    /\ Rewake(q)
    /\ UNCHANGED taken

\* The blocks after low up to high, in order.
After(low, high) == [i \in 1..(high - low) |-> low + i]

\* read_turn succeeds, and the listener processes the complete records.  The
\* end of a record that was entered in the middle is malformed.
ReadSucceeds(c, f, q, did) ==
    LET cur    == c[f]
        end    == Min({cur.offset + TurnBytes, disk[f].len})
        first  == cur.offset \div 2 + 1
        final  == end \div 2
        broken == first =< final /\ 2 * (first - 1) < cur.from
        known  == IF did THEN AfterFence(last) ELSE last
        low    == Max({disk[f].start + first - 1, known[f[1]]})
        high   == IF broken THEN low ELSE Max({disk[f].start + final, low})
        now    == [known EXCEPT ![f[1]] = IF high > low THEN high ELSE @]
    IN  /\ cursors' = Put(c, f, [cur EXCEPT !.offset = end])
        /\ taken' = [taken EXCEPT ![f[1]] = @ \o After(low, high)]
        /\ last' = IF broken THEN AfterFence(now) ELSE now
        /\ Fenced(did \/ broken)
        /\ Rewake(IF end > cur.offset THEN push(q, f, FALSE) ELSE q)
        /\ UNCHANGED faults

\* The file is there: find or open its cursor, then read one budget.
TurnWithFile(c, f, new, q, did) ==
    LET known    == f \in DOMAIN c
        tracking == \E g \in DOMAIN c : g[1] = f[1]
        kept     == IF known THEN c ELSE Retained(c)
        room     == IF Cardinality(DOMAIN kept) >= DirtyLimit /\ ~known
                    THEN Evicted(kept, f) ELSE kept
        full     == ~known /\ Cardinality(DOMAIN room) >= DirtyLimit
        from_end == ~known /\ ~new /\ ~tracking
        ready    == IF known THEN c
                    ELSE Put(IF full THEN NoMap ELSE room, f, open(f, from_end))
    IN  \E opened \in {ready} :
          \/ OpenFails(opened, f, q)
          \/ ReadFails(opened, f, q)
          \/ ReadSucceeds(opened, f, q, did \/ full \/ from_end)

\* wake.notified(): take the overflow flag and the next path.
Turn ==
    /\ wake
    /\ UNCHANGED disk
    /\ LET c == IF overflow THEN NoMap ELSE cursors
           f == Head(paths)
           q == [paths |-> Tail(paths), created |-> Drop(created, {f}), overflow |-> FALSE]
       IN  \/ /\ paths = <<>>
              /\ TurnWithoutFile(c, [Dirty EXCEPT !.overflow = FALSE], overflow)
           \/ /\ paths # <<>> /\ ~Exists(f)
              /\ TurnWithoutFile(Drop(c, {f}), q,
                                 overflow \/ (f \in DOMAIN c /\ ~drained(c, f)))
           \/ /\ paths # <<>> /\ Exists(f)
              /\ TurnWithFile(c, f, created[f], q, overflow)

\* Mutant of Revisit: only notifications are followed.
Revisit_Never(c, aged) == {}

\* The paths whose cursors have something to do: `aged' are partial records
\* older than queue_age.
Revisit(c, aged) == {f \in DOMAIN c : needs_attention(c, f)} \union aged

\* maintenance.tick(): drop finished cursors, re-queue the unfinished ones.
Maintenance ==
    LET kept == Retained(cursors) IN
    \E aged \in SUBSET {f \in DOMAIN kept : Partial(kept, f)} :
    \E q \in {PushAll(Dirty, order) : order \in SetToSeqs(Revisit(kept, aged))} :
        /\ IF aged = {} THEN UNCHANGED faults ELSE Fault
        /\ cursors' = kept
        /\ SetDirty(q)
        /\ wake' = (wake \/ q.paths # <<>>)
        /\ fenced' = FALSE
        /\ UNCHANGED <<disk, last, taken, excused>>

INext ==
    \/ \E s \in Sources : NodeAppends(s) \/ NodeRotates(s)
    \/ \E f \in Files : FileRemoved(f)
    \/ Turn
    \/ Maintenance

\* The loop comes round to a branch that stays ready.
ISpec == IInit /\ [][INext]_ivars /\ WF_ivars(Turn) /\ WF_ivars(Maintenance)

-----------------------------------------------------------------------------
(* Properties                                                                *)

\* retain, eviction and removal never give up a cursor with unread bytes or a
\* partial record unless the stream is fenced in the same turn.
NoUnreadCursorDropped ==
    [][\A f \in DOMAIN cursors \ DOMAIN cursors' : fenced' \/ drained(cursors, f)]_ivars

\* A retained cursor is never stranded: even if the last notification of its
\* file was lost, the maintenance tick brings the loop back to it.
NoStrandedCursor ==
    \A f \in Files :
        f \in DOMAIN cursors /\ disk[f].len > cursors[f].offset
           ~> f \notin DOMAIN cursors \/ disk[f].len = cursors[f].offset

\* An hour is read ahead of an earlier one of its source that has unread bytes.
Overtaking ==
    \E i, j \in DOMAIN paths :
        /\ i < j /\ paths[i][1] = paths[j][1] /\ paths[i][2] > paths[j][2]
        /\ disk[paths[j]].len > IF paths[j] \in DOMAIN cursors THEN cursors[paths[j]].offset ELSE 0

\* If nothing fails and no hour overtakes an earlier one in the queue of paths,
\* every block written is published or covered by a later fence, whatever the
\* limits and read budgets do.  (Overtaken blocks are lost: see FillsNotLost.)
EventuallyTaken ==
    []~Overtaking =>
        \A s \in Sources : \A b \in 1..Blocks :
            Written(s) >= b ~> b \in ToSet(taken[s]) \/ b =< excused[s] \/ faults > 0

\* No fill is passed over: every block up to the last one published was
\* published itself or precedes a Gap.
FillsNotLost ==
    "Fills" \in Sources =>
        \A b \in 1..last["Fills"] : b \in ToSet(taken["Fills"]) \/ b =< excused["Fills"]

=============================================================================
