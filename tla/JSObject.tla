------------------------------ MODULE JSObject ------------------------------
(***************************************************************************)
(* The own property store of one object, as the lookup engine consumes it: *)
(* an ordered mapping from key to value and attributes.  The store itself  *)
(* (JSObject and its Structure) is not part of the lookup engine; these    *)
(* operators state the contract the engine relies on.  They work on the    *)
(* sequence of properties of a single object, in insertion order, so that  *)
(* an algorithm which touches the store several times is a composition of  *)
(* them.  Beside the properties an object has a flag, extensible, and a    *)
(* reference to its prototype; the callers keep these and pass them in.    *)
(***************************************************************************)
EXTENDS Integers, Sequences, FiniteSets, SequencesExt

CONSTANTS Keys,         \* property names: strings, symbols and private names
          SymbolKeys,   \* the names that are symbols; a private name is one
          PrivateKeys,  \* names without a public string (PropertyName::publicName() = 0)
          Undefined     \* jsUndefined()

ASSUME PrivateKeys \subseteq SymbolKeys /\ SymbolKeys \subseteq Keys

\* The attribute bits of a table entry or of a stored property.
Attributes == {"ReadOnly", "DontEnum", "DontDelete", "Function", "Accessor"}

\* What a successful lookup hands back in a PropertySlot or a
\* PropertyDescriptor: the value and the attribute bits.
Found(value, attributes) ==
    [found |-> TRUE, value |-> value, attributes |-> attributes]

NotFound == [found |-> FALSE, value |-> Undefined, attributes |-> {}]

\* The position of key in the store, 0 when the object has no such property
\* (JSObject::getDirectLocation).
getDirectLocation(props, key) == SelectInSeq(props, LAMBDA p : p.key = key)

\* JSObject::getOwnPropertySlot and JSObject::getOwnPropertyDescriptor: the
\* root of every parent chain looks in the own store and nowhere else.
getOwnProperty(props, key) ==
    LET location == getDirectLocation(props, key)
    IN  IF location = 0 THEN NotFound
        ELSE Found(props[location].value, props[location].attributes)

\* JSObject::putDirect: define or overwrite without asking anybody; a new
\* property goes to the end of the store.
putDirect(props, key, value, attributes) ==
    LET location == getDirectLocation(props, key)
        property == [key |-> key, value |-> value, attributes |-> attributes]
    IN  IF location = 0 THEN Append(props, property)
        ELSE [props EXCEPT ![location] = property]

\* JSObject::put on the own store: a read-only property is left alone, an
\* existing one keeps its attributes and takes the value, a new one is added
\* with no attribute set.  rejected tells the caller that nothing was stored.
put(props, key, value) ==
    LET location == getDirectLocation(props, key)
    IN  IF location = 0
        THEN [props |-> putDirect(props, key, value, {}), rejected |-> FALSE]
        ELSE IF "ReadOnly" \in props[location].attributes
        THEN [props |-> props, rejected |-> TRUE]
        ELSE [props |-> [props EXCEPT ![location].value = value], rejected |-> FALSE]

-----------------------------------------------------------------------------
(* Property descriptors.  A descriptor is a record with exactly the fields *)
(* that are present: value, writable, get, set, enumerable, configurable.  *)

isAccessorDescriptor(desc) == {"get", "set"} \cap DOMAIN desc # {}

isDataDescriptor(desc) == {"value", "writable"} \cap DOMAIN desc # {}

isGenericDescriptor(desc) == ~isAccessorDescriptor(desc) /\ ~isDataDescriptor(desc)

\* The pair a stored accessor property holds in place of a value.
GetterSetter(getter, setter) == [getter |-> getter, setter |-> setter]

\* PropertyDescriptor::setDescriptor: the full descriptor of a stored
\* property, from its value and attribute bits.
setDescriptor(value, attributes) ==
    [enumerable |-> "DontEnum" \notin attributes,
     configurable |-> "DontDelete" \notin attributes]
    @@ IF "Accessor" \in attributes
       THEN [get |-> value.getter, set |-> value.setter]
       ELSE [value |-> value, writable |-> "ReadOnly" \notin attributes]

\* The fields a new property takes for those its descriptor leaves out.
WithDefaults(desc) ==
    desc @@ [enumerable |-> FALSE, configurable |-> FALSE]
         @@ IF isAccessorDescriptor(desc)
            THEN [get |-> Undefined, set |-> Undefined]
            ELSE [value |-> Undefined, writable |-> FALSE]

\* The stored property a full descriptor stands for.
PropertyOf(key, full) ==
    [key |-> key,
     value |-> IF isAccessorDescriptor(full)
               THEN GetterSetter(full.get, full.set) ELSE full.value,
     attributes |-> {attribute \in Attributes :
          \/ attribute = "Accessor" /\ isAccessorDescriptor(full)
          \/ attribute = "ReadOnly" /\ isDataDescriptor(full) /\ ~full.writable
          \/ attribute = "DontEnum" /\ ~full.enumerable
          \/ attribute = "DontDelete" /\ ~full.configurable}]

\* The changes a property that is not configurable refuses: to become
\* configurable, to change enumerability or kind, and, unless it is a
\* writable data property, to change what it holds.
Refused(current, desc) ==
    LET Changes(field) == field \in DOMAIN desc /\ desc[field] # current[field]
    IN  \/ Changes("configurable")
        \/ Changes("enumerable")
        \/ ~isGenericDescriptor(desc)
             /\ isAccessorDescriptor(desc) # isAccessorDescriptor(current)
        \/ isDataDescriptor(current) /\ isDataDescriptor(desc)
             /\ ~current.writable /\ (Changes("writable") \/ Changes("value"))
        \/ isAccessorDescriptor(current) /\ isAccessorDescriptor(desc)
             /\ (Changes("get") \/ Changes("set"))

\* What a property becomes when a descriptor is applied to it: the fields of
\* the descriptor over those it had; over the defaults when the kind changes.
Applied(current, desc) ==
    IF isGenericDescriptor(desc)
       \/ isAccessorDescriptor(desc) = isAccessorDescriptor(current)
    THEN desc @@ current
    ELSE WithDefaults(desc @@ [enumerable |-> current.enumerable,
                               configurable |-> current.configurable])

\* JSObject::getOwnPropertyDescriptor on the own store.
getOwnPropertyDescriptor(props, key) ==
    LET own == getOwnProperty(props, key)
    IN  [found |-> own.found,
         descriptor |-> IF own.found THEN setDescriptor(own.value, own.attributes)
                        ELSE << >>]

\* JSObject::defineOwnProperty (ES5 8.12.9) on the own store: the properties
\* it leaves and whether the definition was rejected.  The caller throws on a
\* rejection when it passed throw = true.
defineOwnProperty(props, extensible, key, desc) ==
    LET location == getDirectLocation(props, key)
        current  == getOwnPropertyDescriptor(props, key).descriptor
    IN  IF location = 0
        THEN IF extensible
             THEN [props |-> Append(props, PropertyOf(key, WithDefaults(desc))),
                   rejected |-> FALSE]
             ELSE [props |-> props, rejected |-> TRUE]
        ELSE IF ~current.configurable /\ Refused(current, desc)
        THEN [props |-> props, rejected |-> TRUE]
        ELSE [props |-> [props EXCEPT
                           ![location] = PropertyOf(key, Applied(current, desc))],
              rejected |-> FALSE]

\* JSObject::getOwnPropertyNames into a PropertyNameArray of the given mode:
\* the names in insertion order, without the symbols or without the strings
\* as the mode says, and without the DontEnum ones unless they are included.
getOwnPropertyNames(props, propertyNameMode, includeDontEnum) ==
    LET Listed(p) ==
            /\ propertyNameMode = "Strings" => p.key \notin SymbolKeys
            /\ propertyNameMode = "Symbols" => p.key \in SymbolKeys
            /\ includeDontEnum \/ "DontEnum" \notin p.attributes
        listed == SelectSeq(props, Listed)
    IN  [i \in DOMAIN listed |-> listed[i].key]

-----------------------------------------------------------------------------
(* The Structure of a JSFinalObject answers for all properties at once.    *)

\* Structure::isSealed and Structure::isFrozen.
structureIsSealed(props, extensible) ==
    ~extensible /\ \A i \in DOMAIN props : "DontDelete" \in props[i].attributes

structureIsFrozen(props, extensible) ==
    /\ structureIsSealed(props, extensible)
    /\ \A i \in DOMAIN props :
           props[i].attributes \cap {"ReadOnly", "Accessor"} # {}

\* Structure::sealTransition and Structure::freezeTransition: the attribute
\* bits every property has afterwards.
sealTransition(props) ==
    [i \in DOMAIN props |->
        [props[i] EXCEPT !.attributes = @ \cup {"DontDelete"}]]

freezeTransition(props) ==
    [i \in DOMAIN props |->
        [props[i] EXCEPT !.attributes =
            @ \cup (IF "Accessor" \in @ THEN {"DontDelete"}
                    ELSE {"DontDelete", "ReadOnly"})]]

\* The prototypes above a value, nearest first, where prototype gives the
\* prototype of every object and anything else ends the chain.
RECURSIVE prototypeChain(_, _)
prototypeChain(prototype, value) ==
    IF value \notin DOMAIN prototype THEN << >>
    ELSE <<value>> \o prototypeChain(prototype, prototype[value])

\* JSObject::setPrototype with its cycle check: the prototype references
\* afterwards, and whether the prototype was set.  It is not set when the
\* object is on the chain of its new prototype.
setPrototype(prototype, object, value) ==
    IF object \in ToSet(prototypeChain(prototype, value))
    THEN [prototype |-> prototype, didSet |-> FALSE]
    ELSE [prototype |-> [prototype EXCEPT ![object] = value], didSet |-> TRUE]

=============================================================================
