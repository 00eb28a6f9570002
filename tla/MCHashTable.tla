----------------------------- MODULE MCHashTable -----------------------------
(***************************************************************************)
(* HashTable instantiated for TLC: three rows over two buckets, so that    *)
(* every chain shape from no collision to one chain of three occurs, a     *)
(* public name that is in no row, and a private name.                      *)
(***************************************************************************)
EXTENDS HashTable

MCValues ==
    << [key |-> "excitingAttr"], [key |-> "constructor"], [key |-> "postMessage"] >>

MCPublicNames == {"excitingAttr", "constructor", "postMessage", "absent"}

MCPrivateNames == {"@private"}

=============================================================================
