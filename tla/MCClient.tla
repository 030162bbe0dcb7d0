------------------------------ MODULE MCClient ------------------------------
(* Three transactions: a and b have one sender and random id, b pays more; *)
(* c has a key of its own.  As far as the limits go a can be a transaction *)
(* of blocks 1 and 2, b of 2 and 3, c of 1.                                *)
EXTENDS Client, TLC
CONSTANTS a, b, c

ThreeKeys   == (a :> "k") @@ (b :> "k") @@ (c :> "m")
ThreeLimits == (a :> 2) @@ (b :> 3) @@ (c :> 1)
ThreePrices == (a :> 1) @@ (b :> 2) @@ (c :> 1)
=============================================================================
