--------------------------- MODULE IntegrityLevel ---------------------------
(***************************************************************************)
(* What the generic object operations promise a script about the objects   *)
(* it holds, whichever operations are called and in whichever order: an    *)
(* object that stopped being extensible stays so, gains no property and    *)
(* keeps its prototype, and a property that stopped being configurable     *)
(* stays, and changes only in the ways ES5 8.12.9 leaves open.  Sealed and *)
(* frozen objects are the special cases in which this holds of every       *)
(* property.                                                               *)
(*                                                                         *)
(* The specification says nothing of how an operation works: a step is any *)
(* change of the objects that breaks none of the promises.                 *)
(***************************************************************************)
CONSTANTS Objects   \* the objects there can ever be

VARIABLES exists,      \* the objects there are
          extensible,  \* extensible[o]: whether o takes new properties
          prototype,   \* prototype[o]: what o inherits from
          property     \* property[o][name]: the full descriptor of a property

vars == <<exists, extensible, prototype, property>>

IsData(descriptor) == "value" \in DOMAIN descriptor

\* A property that is not configurable stays as it is, but for a writable
\* data property, which may take another value and stop being writable.
Keeps(old, new) ==
    \/ new = old
    \/ /\ IsData(old) /\ old.writable /\ IsData(new)
       /\ ~new.configurable
       /\ new.enumerable = old.enumerable

\* The promises about one object across a step.
Lawful(o) ==
    LET old == property[o]
        new == property'[o]
    IN  /\ extensible'[o] => extensible[o]
        /\ ~extensible[o] =>
              /\ DOMAIN new \subseteq DOMAIN old
              /\ prototype'[o] = prototype[o]
        /\ \A name \in DOMAIN old :
              ~old[name].configurable =>
                  name \in DOMAIN new /\ Keeps(old[name], new[name])

\* Any objects to start with.
Init == exists \subseteq Objects

\* No object goes away, every object there is is treated lawfully, and a
\* new object is extensible.
Next ==
    /\ exists \subseteq exists'
    /\ \A o \in exists : Lawful(o)
    /\ \A o \in exists' \ exists : extensible'[o]

Spec == Init /\ [][Next]_vars

=============================================================================
