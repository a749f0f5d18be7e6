---------------------------- MODULE Subscriptions ---------------------------
(***************************************************************************)
(* Which coins a client may subscribe to, and in which form: CoinScope and *)
(* Subscription::validate (types/subscription.rs), the snapshot loader's   *)
(* filter (order_book/multi_book.rs), and the universe that a connection   *)
(* keeps of its own (handle_socket, receive_client_message).               *)
(*                                                                         *)
(* The book is the set of its coins.  Heights, times and deliveries are    *)
(* the subject of Connection.                                              *)
(***************************************************************************)
EXTENDS Integers, Sequences, SequencesExt, FiniteSets

CONSTANTS
    Coins,
    SpotCoins,      \* Coin::is_spot
    AtCoins,        \* the spot coins whose names start with '@'
    Hip4Coins,      \* is_hip4_coin
    AllCoins,       \* BOOK_EXTRA_COINS is *
    ExtraCoins,     \* the coins that BOOK_EXTRA_COINS lists
    ignore_spot,
    Requests,       \* the subscriptions that clients name
    MaxSubscriptions,
    Capacity        \* of the broadcast channel

None == -1

Requested(type, coins, figs, depths, mantissas) ==
    [type : {type}, coin : coins, n_sig_figs : figs, n_levels : depths, mantissa : mantissas]

ASSUME SubscriptionsAssumption ==
    /\ AtCoins \subseteq SpotCoins /\ SpotCoins \cup Hip4Coins \cup ExtraCoins \subseteq Coins
    /\ {AllCoins, ignore_spot} \subseteq BOOLEAN
    /\ {MaxSubscriptions, Capacity} \subseteq Nat \ {0}

VARIABLES
    ready,          \* order_book_state is there
    book,           \* the coins of its books
    rx, lagged,     \* the connection's receiver
    phase, universe, subscriptions

svars == <<ready, book, rx, lagged, phase, universe, subscriptions>>
listener == <<ready, book>>
channel == <<rx, lagged>>
connection == <<phase, universe, subscriptions>>

SubsInit ==
    /\ ready = FALSE /\ book = {}
    /\ rx = <<>> /\ lagged = FALSE
    /\ phase = "closed" /\ universe = {} /\ subscriptions = {}

-----------------------------------------------------------------------------
(* The coins of the book, and what the listener publishes of them.         *)

contains(c) == AllCoins \/ c \in Hip4Coins \/ c \in ExtraCoins

\* The loader skips the books out of scope.
Loaded(coins) == {c \in coins : contains(c)}

Gap == [kind |-> "Gap", coins |-> {}]
Snapshot(coins) == [kind |-> "Snapshot", coins |-> coins]

send(m) ==
    IF phase = "closed" THEN UNCHANGED channel
    ELSE /\ rx' = Append(IF Len(rx) = Capacity THEN Tail(rx) ELSE rx, m)
         /\ lagged' = (lagged \/ Len(rx) = Capacity)

\* init_from_snapshot publishes nothing.
Load(coins) ==
    /\ ~ready
    /\ ready' = TRUE /\ book' = Loaded(coins)
    /\ UNCHANGED <<channel, connection>>

\* reconcile_snapshot, diverged.
Reload(coins) ==
    /\ ready
    /\ book' = Loaded(coins)
    /\ send(Gap)
    /\ UNCHANGED <<ready, connection>>

\* reconcile_snapshot, EmptyBooksAdded.
AddEmptyBooks(coins) ==
    /\ ready
    /\ ~(Loaded(coins) \subseteq book)
    /\ book' = book \cup Loaded(coins)
    /\ send(Snapshot(book'))
    /\ UNCHANGED <<ready, connection>>

\* A turn of process_data with a block whose orders are in the given coins: a
\* coin's first order makes its book.
Block(coins) ==
    /\ ready
    /\ book' = book \cup {c \in coins : contains(c) /\ ~(c \in SpotCoins /\ ignore_spot)}
    /\ send(Snapshot(book'))
    /\ UNCHANGED <<ready, connection>>

Fence ==
    /\ ready
    /\ ready' = FALSE /\ book' = {}
    /\ send(Gap)
    /\ UNCHANGED connection

-----------------------------------------------------------------------------
(* handle_socket                                                           *)

Connect ==
    /\ phase = "closed"
    /\ phase' = "subscribed"
    /\ UNCHANGED <<listener, channel, universe, subscriptions>>

Closed ==
    /\ phase' = "closed" /\ universe' = {} /\ subscriptions' = {}
    /\ rx' = <<>> /\ lagged' = FALSE

CheckReady ==
    /\ phase = "subscribed"
    /\ phase' = IF ready THEN "ready" ELSE "refused"
    /\ UNCHANGED <<listener, channel, universe, subscriptions>>

\* listener.universe(), under a lock of its own.
TakeUniverse ==
    /\ \/ /\ phase = "ready"
          /\ phase' = "open" /\ universe' = book
          /\ UNCHANGED <<channel, subscriptions>>
       \/ phase = "refused" /\ Closed
    /\ UNCHANGED listener

Disconnect == phase = "open" /\ Closed /\ UNCHANGED listener

\* Mutant of new_universe: the universe of the start is kept.
new_universe_Keeps(coins) == universe

new_universe(coins) == {c \in coins : ~(c \in SpotCoins /\ ignore_spot)}

Recv ==
    /\ phase = "open"
    /\ \/ lagged /\ Closed
       \/ ~lagged /\ rx # <<>> /\ Head(rx).kind = "Gap" /\ Closed
       \/ /\ ~lagged /\ rx # <<>> /\ Head(rx).kind = "Snapshot"
          /\ universe' = new_universe(Head(rx).coins)
          /\ rx' = Tail(rx)
          /\ UNCHANGED <<lagged, phase, subscriptions>>
    /\ UNCHANGED listener

-----------------------------------------------------------------------------
(* receive_client_message                                                  *)

\* Mutant of ValidParams: a mantissa is accepted with fewer figures.
ValidParams_AnyMantissa(s) ==
    /\ s.n_levels # 20
    /\ LET n == IF s.n_levels = None THEN 20 ELSE s.n_levels IN 0 < n /\ n =< 100
    /\ s.n_sig_figs \in {None} \cup 2..5
    /\ s.mantissa # None => s.n_sig_figs # None /\ s.mantissa \in {2, 5}

ValidParams(s) ==
    /\ s.n_levels # 20
    /\ LET n == IF s.n_levels = None THEN 20 ELSE s.n_levels IN 0 < n /\ n =< 100
    /\ s.n_sig_figs \in {None} \cup 2..5
    /\ s.mantissa # None => s.n_sig_figs = 5 /\ s.mantissa \in {2, 5}

validate(s) ==
    CASE s.type = "Trades" -> s.coin \in universe \cup Hip4Coins
      [] s.type = "L2Book" -> s.coin \in universe \cup Hip4Coins /\ ValidParams(s)
      [] s.type = "L4Book" -> s.coin \in universe /\ s.coin \notin AtCoins

\* The parameters that refresh_l2_snapshots builds views for.
ViewParams == {<<None, None>>, <<5, None>>, <<5, 2>>, <<5, 5>>, <<4, None>>, <<3, None>>, <<2, None>>}
HasParams(s) == <<s.n_sig_figs, s.mantissa>> \in ViewParams

\* BookWireCache::get and handle_immediate_snapshot find something to send.
HasSnapshot(s) ==
    CASE s.type = "Trades" -> TRUE
      [] s.type = "L2Book" -> ready /\ ((s.coin \in book /\ HasParams(s)) \/ s.coin \in Hip4Coins)
      [] s.type = "L4Book" -> ready /\ s.coin \in book

\* A subscription that is refused, or taken back because no recent snapshot is
\* found, leaves everything as it was and is not a step.
Subscribe(s) ==
    /\ phase = "open"
    /\ s \notin subscriptions
    /\ Cardinality(subscriptions) < MaxSubscriptions
    /\ validate(s)
    /\ HasSnapshot(s)
    /\ subscriptions' = subscriptions \cup {s}
    /\ UNCHANGED <<listener, channel, phase, universe>>

\* A cancellation is validated like a subscription.
Unsubscribe(s) ==
    /\ phase = "open"
    /\ s \in subscriptions
    /\ validate(s)
    /\ subscriptions' = subscriptions \ {s}
    /\ UNCHANGED <<listener, channel, phase, universe>>

-----------------------------------------------------------------------------
SubsNext ==
    \/ \E coins \in SUBSET Coins :
          Load(coins) \/ Reload(coins) \/ AddEmptyBooks(coins) \/ Block(coins)
    \/ Fence
    \/ Connect \/ CheckReady \/ TakeUniverse \/ Recv \/ Disconnect
    \/ \E s \in Requests : Subscribe(s) \/ Unsubscribe(s)

SubsSpec == SubsInit /\ [][SubsNext]_svars

-----------------------------------------------------------------------------
\* Subscription::validate and refresh_l2_snapshots agree: what an L2Book
\* subscription asks for is a view that is built.  BookWireCache::get shows an
\* empty book for a HIP-4 coin without such a view, whatever orders it has.
AcceptedHasView == \A s \in subscriptions : s.type = "L2Book" => HasParams(s)

\* handle_socket: once a connection has handled what the listener sent, its
\* universe is the book's, however the two locks at its start and the messages
\* queued meanwhile interleave; so it can subscribe to every book there is.
UniverseCurrent ==
    phase = "open" /\ rx = <<>> /\ ~lagged
        => universe \ SpotCoins = book \ SpotCoins

\* README.md: the server "does not support spot order books".  With ignore_spot
\* no client is subscribed to the book of a spot coin.
SpotNotServed ==
    ignore_spot =>
        \A s \in subscriptions : s.type \in {"L2Book", "L4Book"} => s.coin \notin SpotCoins

=============================================================================
