------------------------------- MODULE Trades -------------------------------
(***************************************************************************)
(* Trades out of a block's fills: the record is filtered by coin scope     *)
(* (Batch::parse_in_scope), its fills are paired from the end              *)
(* (coin_to_trades, Trade::from_fills), and each Trades subscription takes *)
(* its coin's list (send_fill_batch, send_ws_data_from_trades).            *)
(*                                                                         *)
(* A trade is its coin, its taker's side and its number tid, which also    *)
(* stands for its two users, price, size and hash.                         *)
(***************************************************************************)
EXTENDS Integers, Sequences, SequencesExt

CONSTANTS
    TradedCoins,    \* the coins of the fills
    NoCoin,         \* not a coin: that of NoTrade
    InScope,        \* the coins that CoinScope contains
    Subscribed,     \* the coins of the Trades subscriptions
    MaxTrades       \* bound on the trades of a block

ASSUME TradesAssumption ==
    /\ InScope \subseteq TradedCoins /\ Subscribed \subseteq TradedCoins /\ NoCoin \notin TradedCoins
    /\ MaxTrades \in Nat

VARIABLES
    made,           \* the trades of the block, as the exchange made them
    events          \* the fills of the block's record

tvars == <<made, events>>

Sides == {"Ask", "Bid"}
TradesInit == made = <<>> /\ events = <<>>

fill(tid, coin, side, taker) ==
    [tid |-> tid, coin |-> coin, side |-> side, crossed |-> side = taker]

\* The node writes the two fills of a trade one after the other.
NodeTrades(coin, taker, first) ==
    LET tid == Len(made) + 1
        second == CHOOSE s \in Sides : s # first
    IN  /\ tid =< MaxTrades
        /\ made' = Append(made, [tid |-> tid, coin |-> coin, side |-> taker])
        /\ events' = events \o << fill(tid, coin, first, taker), fill(tid, coin, second, taker) >>

TradesNext == \E coin \in TradedCoins, taker \in Sides, first \in Sides : NodeTrades(coin, taker, first)

TradesSpec == TradesInit /\ [][TradesNext]_tvars

-----------------------------------------------------------------------------
\* The fills or trades of some coins, in their order.
OfCoins(list, coins) ==
    FoldLeft(LAMBDA acc, e : IF e.coin \in coins THEN Append(acc, e) ELSE acc, <<>>, list)

parse_in_scope(record) == OfCoins(record, InScope)

NoTrade == [tid |-> 0, coin |-> NoCoin]

\* Mutant of from_fills: the side of the trade is that of the maker.
from_fills_Maker(f1, f2) ==
    IF f1.side # f2.side /\ f1.coin = f2.coin /\ f1.tid = f2.tid
    THEN [tid |-> f1.tid, coin |-> f1.coin, side |-> IF f1.crossed THEN f2.side ELSE f1.side]
    ELSE NoTrade

\* The taker's side is the ask's if the ask crossed, the bid's otherwise.
from_fills(f1, f2) ==
    LET ask == IF f1.side = "Ask" THEN f1 ELSE f2
    IN  IF f1.side # f2.side /\ f1.coin = f2.coin /\ f1.tid = f2.tid
        THEN [tid |-> ask.tid, coin |-> ask.coin, side |-> IF ask.crossed THEN "Ask" ELSE "Bid"]
        ELSE NoTrade

PairsFromEnd(fills) ==
    [k \in 1..(Len(fills) \div 2) |->
        from_fills(fills[Len(fills) - 2 * k + 1], fills[Len(fills) - 2 * k + 2])]

\* The list of a coin, turned back into the order of the record.
coin_to_trades(fills, coin) ==
    Reverse(OfCoins(PairsFromEnd(fills), {coin}))

\* What the subscription to a coin's trades is sent.
send_fill_batch(record, coin) == coin_to_trades(parse_in_scope(record), coin)

-----------------------------------------------------------------------------
\* coin_to_trades: pairing from the end, filtering by scope and splitting by
\* coin give each subscription exactly the trades of its coin, once each, in
\* the order they were made and on the taker's side.
TradesExact ==
    \A coin \in Subscribed \cap InScope :
        send_fill_batch(events, coin) = OfCoins(made, {coin})

=============================================================================
