--------------------------- MODULE MCBookListener ---------------------------
(***************************************************************************)
(* Worlds for BookListener: what each block does to a local book.          *)
(***************************************************************************)
EXTENDS BookListener

CONSTANTS
    Drifts,      \* blocks whose local application departs from the node's book
    Listings,    \* blocks at which the node lists a coin with an empty book
    Brittle      \* heights whose snapshot does not take the next block

MCVerdict == [w \in Heights \X Heights |->
                LET since == (w[1] + 1)..w[2]
                IN  IF since \intersect Drifts # {} THEN "Diverged"
                    ELSE IF since \intersect Listings # {} THEN "EmptyBooksAdded"
                    ELSE "Equal"]

MCRejected == {w \in Heights \X Heights : w[1] \in Brittle /\ w[2] = w[1] + 1}

=============================================================================
