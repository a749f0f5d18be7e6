----------------------------- MODULE LinkedList -----------------------------
(***************************************************************************)
(* LinkedList (server/src/order_book/linked_list.rs): a doubly linked list *)
(* whose nodes live in a slab and link to each other by slab index, with a *)
(* map from key to slab index.  A removed node's index is used again.      *)
(***************************************************************************)
EXTENDS Integers, Sequences, FiniteSets

CONSTANTS
    Keys,           \* order ids
    Nil             \* Rust's None

Sids == 1..Cardinality(Keys)

ASSUME ListAssumption == IsFiniteSet(Keys) /\ Nil \notin Sids

VARIABLES
    slab,           \* a map from the occupied indices to nodes
    key_to_sid,
    head, tail,
    result          \* what the last call returned

lvars == <<slab, key_to_sid, head, tail, result>>

Drop(f, x) == [y \in DOMAIN f \ {x} |-> f[y]]
Insert(f, x, v) == [y \in DOMAIN f \union {x} |-> IF y = x THEN v ELSE f[y]]

LInit ==
    /\ slab = [s \in {} |-> Nil]
    /\ key_to_sid = [k \in {} |-> Nil]
    /\ head = Nil /\ tail = Nil
    /\ result = TRUE

\* Slab::insert takes a vacant index (external).
Vacant == Sids \ DOMAIN slab

Refuse == result' = FALSE /\ UNCHANGED <<slab, key_to_sid, head, tail>>

push_back(k) ==
    \/ k \in DOMAIN key_to_sid /\ Refuse
    \/ /\ k \notin DOMAIN key_to_sid
       /\ \E sid \in Vacant :
            LET node == [key |-> k, next |-> Nil, prev |-> tail] IN
            /\ key_to_sid' = Insert(key_to_sid, k, sid)
            /\ IF tail = Nil
               THEN slab' = Insert(slab, sid, node) /\ head' = sid
               ELSE slab' = Insert([slab EXCEPT ![tail].next = sid], sid, node) /\ UNCHANGED head
            /\ tail' = sid
       /\ result' = TRUE

\* Mutant of insert_before: the predecessor still links past the new node.
insert_before_KeepsNext(before, k) ==
    \/ (k \in DOMAIN key_to_sid \/ before \notin DOMAIN key_to_sid) /\ Refuse
    \/ /\ k \notin DOMAIN key_to_sid /\ before \in DOMAIN key_to_sid
       /\ \E sid \in Vacant :
            LET at   == key_to_sid[before]
                prev == slab[at].prev
                node == [key |-> k, next |-> at, prev |-> prev]
            IN  /\ key_to_sid' = Insert(key_to_sid, k, sid)
                /\ slab' = Insert([slab EXCEPT ![at].prev = sid], sid, node)
                /\ head' = IF prev = Nil THEN sid ELSE head
       /\ result' = TRUE
       /\ UNCHANGED tail

insert_before(before, k) ==
    \/ (k \in DOMAIN key_to_sid \/ before \notin DOMAIN key_to_sid) /\ Refuse
    \/ /\ k \notin DOMAIN key_to_sid /\ before \in DOMAIN key_to_sid
       /\ \E sid \in Vacant :
            LET at   == key_to_sid[before]
                prev == slab[at].prev
                node == [key |-> k, next |-> at, prev |-> prev]
                moved == [slab EXCEPT ![at].prev = sid]
            IN  /\ key_to_sid' = Insert(key_to_sid, k, sid)
                /\ slab' = Insert(IF prev = Nil THEN moved ELSE [moved EXCEPT ![prev].next = sid],
                                  sid, node)
                /\ head' = IF prev = Nil THEN sid ELSE head
       /\ result' = TRUE
       /\ UNCHANGED tail

remove_front ==
    \/ head = Nil /\ Refuse
    \/ /\ head # Nil
       /\ LET node == slab[head]
              rest == Drop(slab, head)
          IN  /\ key_to_sid' = Drop(key_to_sid, node.key)
              /\ head' = node.next
              /\ IF node.next = Nil
                 THEN tail' = Nil /\ slab' = rest
                 ELSE slab' = [rest EXCEPT ![node.next].prev = Nil] /\ UNCHANGED tail
       /\ result' = TRUE

\* Mutant of remove_node: the last node leaves and tail is not moved.
remove_node_KeepsTail(k) ==
    \/ k \notin DOMAIN key_to_sid /\ Refuse
    \/ /\ k \in DOMAIN key_to_sid
       /\ LET sid  == key_to_sid[k]
              node == slab[sid]
              rest == Drop(slab, sid)
              fwd  == IF node.prev = Nil THEN rest ELSE [rest EXCEPT ![node.prev].next = node.next]
          IN  /\ key_to_sid' = Drop(key_to_sid, k)
              /\ slab' = IF node.next = Nil THEN fwd ELSE [fwd EXCEPT ![node.next].prev = node.prev]
              /\ head' = IF node.prev = Nil THEN node.next ELSE head
       /\ result' = TRUE
       /\ UNCHANGED tail

remove_node(k) ==
    \/ k \notin DOMAIN key_to_sid /\ Refuse
    \/ /\ k \in DOMAIN key_to_sid
       /\ LET sid  == key_to_sid[k]
              node == slab[sid]
              rest == Drop(slab, sid)
              fwd  == IF node.prev = Nil THEN rest ELSE [rest EXCEPT ![node.prev].next = node.next]
          IN  /\ key_to_sid' = Drop(key_to_sid, k)
              /\ slab' = IF node.next = Nil THEN fwd ELSE [fwd EXCEPT ![node.next].prev = node.prev]
              /\ head' = IF node.prev = Nil THEN node.next ELSE head
              /\ tail' = IF node.next = Nil THEN node.prev ELSE tail
       /\ result' = TRUE

LNext ==
    \/ \E k \in Keys : push_back(k) \/ remove_node(k)
    \/ \E b, k \in Keys : insert_before(b, k)
    \/ remove_front

LSpec == LInit /\ [][LNext]_lvars

-----------------------------------------------------------------------------
\* to_vec and fold: the indices met from `start' along the links, with one step
\* more than there can be nodes, so that a cycle shows as a walk too long, and
\* a walk that ends at a vacant index shows as one that goes there.
Along(links, start) ==
    LET steps == 0..Cardinality(Sids)
        at[i \in steps] == IF i = 0 THEN start
                           ELSE IF at[i - 1] \in DOMAIN links THEN links[at[i - 1]] ELSE Nil
        met == Cardinality({i \in steps : at[i] # Nil})
    IN  [i \in 1..met |-> at[i - 1]]

Forward  == Along([s \in DOMAIN slab |-> slab[s].next], head)
Backward == Along([s \in DOMAIN slab |-> slab[s].prev], tail)
to_vec   == [i \in DOMAIN Forward |-> slab[Forward[i]].key]

\* Both directions visit the same nodes, every occupied slot is one of them,
\* and node_value_mut finds each key in its own node.
LinksAgree ==
    /\ Len(Forward) = Len(Backward)
    /\ \A i \in DOMAIN Forward : Forward[i] = Backward[Len(Backward) + 1 - i]
    /\ Len(Forward) = Cardinality(DOMAIN slab)
    /\ {<<k, key_to_sid[k]>> : k \in DOMAIN key_to_sid}
          = {<<slab[s].key, s>> : s \in DOMAIN slab}

\* The list behaves as the keyed queue that OrderBook takes it for.
Queue == INSTANCE KeyedQueue WITH queue <- to_vec
ImplementsQueue == Queue!KSpec

=============================================================================
