------------------------------ MODULE UseOrder ------------------------------
(***************************************************************************)
(* The order in which the keys of a cache were used last: a sequence that  *)
(* has each key once, the oldest first.                                    *)
(***************************************************************************)
EXTENDS Integers, Sequences

\* What retain leaves of an order.
Without(order, keys) ==
    LET kept[n \in 0 .. Len(order)] ==
            IF n = 0 THEN <<>>
            ELSE IF order[n] \in keys THEN kept[n - 1] ELSE Append(kept[n - 1], order[n])
    IN  kept[Len(order)]

UsedLast(order, key) == Append(Without(order, {key}), key)
=============================================================================
