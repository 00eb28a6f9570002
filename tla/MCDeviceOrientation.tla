------------------------- MODULE MCDeviceOrientation -------------------------
(***************************************************************************)
(* One event and the argument lists that tell the cases apart: every value *)
(* in every one of the five places of a component (the last is read by the *)
(* build for iOS only), every choice of the components that are undefined, *)
(* every number of arguments left out, and a type whose conversion throws. *)
(***************************************************************************)
EXTENDS DeviceOrientation

\* A call that provides everything.
MCComplete == <<Text, True, False, One, One, One, True, One>>

MCOneVaried == {[MCComplete EXCEPT ![place] = value] : place \in 4..8, value \in Values}

MCSomeUndefined ==
    {[i \in 1..8 |-> IF i \in places THEN Undefined ELSE MCComplete[i]] :
        places \in SUBSET (4..8)}

MCLeftOut == {SubSeq(MCComplete, 1, n) : n \in 0..7}

MCArgumentLists ==
    MCOneVaried \cup MCSomeUndefined \cup MCLeftOut
        \cup {[MCComplete EXCEPT ![1] = Thrower]}

=============================================================================
