---------------------------- MODULE BookRecovery ----------------------------
(***************************************************************************)
(* The listener fed by file cursors that read each stream in order.  Here  *)
(* the unreliable part of the world (lost records, failed requests, aged   *)
(* queues, crashed tasks, byte limits) is a budget of faults, after which  *)
(* the listener has to come back: be ready, catch up with the node, and    *)
(* get rid of a book that departed from the node's.                        *)
(***************************************************************************)
EXTENDS BookListener

CONSTANT MaxFaults      \* bound: how many faults the environment inflicts

ASSUME FaultsAssumption == MaxFaults \in Nat

BookSources == {"OrderStatuses", "OrderDiffs"}

VARIABLES
    pos,                \* per source, the height of the last record read
    faults              \* faults so far

rvars == <<vars, pos, faults>>

RInit == Init /\ pos = [s \in BookSources |-> 0] /\ faults = 0

Fault   == faults < MaxFaults /\ faults' = faults + 1
NoFault == faults' = faults

\* One record of a read turn.  If the turn is abandoned, the rest of what the
\* cursor had read (up to anything already written) is lost with it.
Deliver(src) ==
    /\ pos[src] < nodeHeight
    /\ \E over \in BOOLEAN :
          /\ IF over THEN Fault ELSE NoFault
          /\ IF src = "OrderStatuses" THEN ReceiveStatuses(pos[src] + 1, over)
             ELSE ReceiveDiffs(pos[src] + 1, over)
    /\ \E n \in (pos[src] + 1)..nodeHeight :
          /\ out' # Gap => n = pos[src] + 1
          /\ pos' = [pos EXCEPT ![src] = n]

\* A fence of the select loop; some streams are picked up at their tail.
Lose ==
    /\ Fault
    /\ SourceFence
    /\ \E lost \in SUBSET BookSources :
          pos' = [s \in BookSources |-> IF s \in lost THEN nodeHeight ELSE pos[s]]

REndTurn == EndTurn /\ UNCHANGED <<pos, faults>>

RMaintenance ==
    /\ \E due \in BOOLEAN : Maintenance(due)
    /\ IF recovery_epoch' # recovery_epoch THEN Fault ELSE NoFault
    /\ UNCHANGED pos

\* The tick on which a due recovery is spawned.
RRecoveryTick ==
    Maintenance(TRUE) /\ recovery_epoch' = recovery_epoch /\ UNCHANGED <<pos, faults>>

RTicker == TickerTick /\ UNCHANGED <<pos, faults>>

RNodeBlock == NodeBlock /\ UNCHANGED <<pos, faults>>

\* The steps of a fetch that nothing goes wrong with.
RFetch ==
    /\ \/ BeginFetch
       \/ \E h \in Heights : NodeResponds(h)
       \/ CheckEpoch
       \/ FinishFetch
       \/ JoinFetch
    /\ UNCHANGED <<pos, faults>>

RFetchFault == (FetchUnavailable \/ FetchPanics) /\ Fault /\ UNCHANGED pos

RNext ==
    \/ RNodeBlock
    \/ \E src \in BookSources : Deliver(src)
    \/ Lose
    \/ REndTurn
    \/ RMaintenance
    \/ RTicker
    \/ RFetch
    \/ RFetchFault

\* The select loop polls every branch that stays ready (its maintenance tick
\* re-queues any file with unread bytes), the mutex queues its waiters, and
\* the request has a timeout.  The node keeps producing blocks.
Fairness ==
    /\ WF_rvars(RNodeBlock)
    /\ \A src \in BookSources : WF_rvars(Deliver(src))
    /\ WF_rvars(REndTurn)
    /\ WF_rvars(RRecoveryTick)
    /\ WF_rvars(RTicker)
    /\ WF_rvars(RFetch)

RSpec == RInit /\ [][RNext]_rvars /\ Fairness

-----------------------------------------------------------------------------
\* A fenced listener becomes ready again: fence, maintenance, fetch_snapshot
\* and init_from_snapshot between them never give up.
Recovers == ~is_ready ~> is_ready

\* A live book that departed from the node's is replaced: some audit reaches
\* the height of its snapshot, finds the difference and reloads.
Departed == is_ready /\ Verdict[<<order_book_state.origin, order_book_state.height>>] = "Diverged"
DivergenceRepaired == Departed ~> ~Departed

\* Once the faults are over the book reaches the node's last block and stays:
\* whatever was lost, skipped or refused on the way is made up for.
CatchesUp == <>[](is_ready /\ order_book_state.height = MaxHeight)

=============================================================================
