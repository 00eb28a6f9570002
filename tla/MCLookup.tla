------------------------------ MODULE MCLookup ------------------------------
(***************************************************************************)
(* A model of the resolution protocol with a class of every kind the       *)
(* templates are written for: Shape, whose table has a function, a         *)
(* writable value and a read-only value and whose methods call             *)
(* getStaticPropertySlot, getStaticPropertyDescriptor and lookupPut, and   *)
(* Circle, which calls the function templates with Shape as its parent.    *)
(***************************************************************************)
EXTENDS Lookup

CONSTANTS shape, circle,  \* one object of each class
          One              \* what the getters return before any put

ShapeTableValues ==
    << [key |-> "area",  attributes |-> {"DontDelete", "Function"}, checked |-> FALSE],
       [key |-> "size",  attributes |-> {"DontDelete"},             checked |-> FALSE],
       [key |-> "sides", attributes |-> {"DontDelete", "ReadOnly"}, checked |-> FALSE] >>

CircleTableValues ==
    << [key |-> "radius", attributes |-> {"DontDelete", "Function"}, checked |-> FALSE] >>

MCClasses ==
    ("Shape" :> [table |-> ShapeTableValues, parent |-> Root, slot |-> "property",
                 put |-> "lookupPut", guarded |-> FALSE])
    @@ ("Circle" :> [table |-> CircleTableValues, parent |-> "Shape", slot |-> "function",
                     put |-> "inherited", guarded |-> FALSE])

MCObjects == {shape, circle}

MCClassOf == (shape :> "Shape") @@ (circle :> "Circle")

MCKeys == {"area", "size", "sides", "radius", "expando", "@private"}

MCPrivateKeys == {"@private"}

MCKeysOf ==
    (shape :> {"area", "size", "sides", "expando"})
    @@ (circle :> {"area", "sides"})

MCHostValues == {One}

MCInitialStore == [o \in MCObjects |-> << >>]

MCInitialNative == [o \in MCObjects |-> [key \in {"size", "sides"} |-> One]]

=============================================================================
