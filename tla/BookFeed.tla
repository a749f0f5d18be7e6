------------------------------ MODULE BookFeed ------------------------------
(***************************************************************************)
(* What the listener promises to whoever holds its broadcast channel, with *)
(* the queues, the validation cache and the snapshot task hidden: a book   *)
(* is up or down; while it is up its height moves by one with each         *)
(* L4BookUpdates, a Snapshot carries the current height, and the book goes *)
(* down, or is replaced, only together with a Gap.                         *)
(***************************************************************************)
EXTENDS Integers

CONSTANT MaxHeight      \* bound: the last block the node produces

VARIABLES
    height,             \* the height of the book, 0 when there is none
    out                 \* the message the last step published

feedVars == <<height, out>>

Up == height # 0

FeedInit == height = 0 /\ out.kind = "none"

\* Nothing a subscriber can notice.
Quiet == out'.kind = "none" /\ height' = height

\* A snapshot makes the book available; subscribers are served from now on.
Open == /\ ~Up
        /\ height' \in 1..MaxHeight
        /\ out'.kind = "none"

\* The next block, and no other.
Update == /\ Up
          /\ height' = height + 1
          /\ out'.kind = "L4BookUpdates" /\ out'.height = height'

\* A snapshot of the current book: at its height, and with the time of the
\* block at that height unless no block has been applied yet (time 0).
Announce == /\ Up
            /\ height' = height
            /\ out'.kind = "Snapshot" /\ out'.height = height
            /\ out'.time \in {0, height}

\* The book is replaced at its height: subscribers must start again.
Replace == /\ Up
           /\ height' = height
           /\ out'.kind = "Gap"

Close == height' = 0 /\ out'.kind = "Gap"

FeedNext == Quiet \/ Open \/ Update \/ Announce \/ Replace \/ Close

FeedSpec == FeedInit /\ [][FeedNext]_feedVars

=============================================================================
