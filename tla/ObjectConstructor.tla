-------------------------- MODULE ObjectConstructor --------------------------
(***************************************************************************)
(* The generic object operations of ObjectConstructor.cpp: the host        *)
(* functions behind Object.defineProperty, defineProperties, create, seal, *)
(* freeze, preventExtensions, isSealed, isFrozen, isExtensible,            *)
(* getPrototypeOf, setPrototypeOf, getOwnPropertyDescriptor(s), the key    *)
(* enumerations, and Object called as a function or constructor.           *)
(*                                                                         *)
(* The heap is a set of objects.  Each has its own properties, the flag    *)
(* extensible and a prototype, and is a JSFinalObject or not: for a        *)
(* JSFinalObject seal, freeze, isSealed and isFrozen ask the Structure,    *)
(* for every other object they go through the object's properties one by   *)
(* one.  The objects here keep their properties in their own store, so the *)
(* method table entries the operations call are those of module JSObject.  *)
(*                                                                         *)
(* A host function runs to its end before the script goes on: each is one  *)
(* step.  The step records what the script gets back in the variable       *)
(* result.                                                                 *)
(***************************************************************************)
EXTENDS JSObject

CONSTANTS Objects,          \* the objects there can ever be
          FinalObjects,     \* those that are JSFinalObjects
          InitialObjects,   \* those that exist at the start
          InitialStore,     \* the own properties they start with
          InitialPrototype, \* the prototype they start with
          ObjectPrototype,  \* globalObject->objectPrototype()
          NumberPrototype,  \* the prototype of the wrapper of a number
          Null,             \* jsNull()
          Number,           \* a number other than zero: a primitive value
          True, False,      \* jsBoolean(true), jsBoolean(false)
          Callables,        \* function objects, as values
          Raises,           \* in place of a value: reading it throws
          Descriptions,     \* the property descriptions scripts pass
          PropertyLists,    \* the lists of descriptions scripts pass
          Stacks,           \* the call stacks getPrototypeOf is called on
          Receivers,        \* the values scripts pass as the object to work on
          Prototypes        \* the values scripts pass as a prototype

\* The values that are not objects.
Primitives == {Undefined, Null, Number}

\* What a field of a description object holds, and what a property holds.
FieldValues == {Undefined, Number, True, False} \cup Callables

DescriptionFields ==
    <<"enumerable", "configurable", "value", "writable", "get", "set">>

\* A description object is given by the fields a read of it finds, on the
\* object or on its prototypes, and what each read yields.
DescriptionObjects ==
    UNION {[fields -> FieldValues \cup {Raises}] : fields \in SUBSET ToSet(DescriptionFields)}

\* The enumerable own properties of a properties object, in order: the name
\* and what properties->get(name) yields.
PropertyList == Seq([key : Keys, prop : DescriptionObjects \cup Primitives \cup {Raises}])

StoredProperty ==
    [key : Keys,
     value : FieldValues \cup [getter : FieldValues, setter : FieldValues],
     attributes : SUBSET (Attributes \ {"Function"})]

ASSUME /\ FinalObjects \subseteq Objects
       /\ InitialObjects \subseteq Objects
       /\ ObjectPrototype \in InitialObjects
       /\ NumberPrototype \notin Objects
       /\ InitialStore \in [InitialObjects -> Seq(StoredProperty)]
       /\ InitialPrototype \in [InitialObjects -> InitialObjects \cup {Null}]
       /\ Descriptions \subseteq DescriptionObjects \cup Primitives
       /\ PropertyLists \subseteq PropertyList \cup Primitives
       /\ Stacks \subseteq Seq(BOOLEAN)
       /\ Receivers \subseteq Objects \cup Primitives
       /\ Prototypes \subseteq Objects \cup Primitives

VARIABLES store,       \* store[o]: the own properties of o, in insertion order
          extensible,  \* extensible[o]: whether o takes new properties
          prototype,   \* prototype[o]: an object, NumberPrototype or Null
          allocated,   \* the objects that exist
          result       \* what the last host function returned to the script

heap == <<store, extensible, prototype, allocated>>

vars == <<store, extensible, prototype, allocated, result>>

-----------------------------------------------------------------------------
(* Values and conversions. *)

isObject(value) == value \in allocated

isJSFinalObject(object) == object \in FinalObjects

isPrivateName(key) == key \in PrivateKeys

\* JSValue::toBoolean on the values of the model.
toBoolean(value) == value \notin {Undefined, Null, False}

jsBoolean(boolean) == IF boolean THEN True ELSE False

\* getCallData(value, callData) != CallTypeNone.
isCallable(value) == value \in Callables

\* The state of one object: what the operations on it read and leave.
ObjectState(props, isExtensible, proto) ==
    [props |-> props, extensible |-> isExtensible, prototype |-> proto]

StateOf(object) ==
    ObjectState(store[object], extensible[object], prototype[object])

\* JSValue::toObject: undefined and null throw, an object is itself, and a
\* primitive gets a new wrapper object, which nothing else refers to.
toObject(value) ==
    IF value \in {Undefined, Null} THEN [threw |-> TRUE]
    ELSE [threw |-> FALSE,
          state |-> IF isObject(value) THEN StateOf(value)
                    ELSE ObjectState(<< >>, TRUE, NumberPrototype)]

-----------------------------------------------------------------------------
(* ToPropertyDescriptor. *)

\* What a conversion yields: the descriptor, or nothing when it threw.
Converted(desc) == [ok |-> TRUE, desc |-> desc]

Thrown == [ok |-> FALSE, desc |-> << >>]

\* A fault: a getter or setter is taken without asking whether it can be
\* called.
readFieldUnchecked(in, conversion, field) ==
    IF ~conversion.ok \/ field \notin DOMAIN in THEN conversion
    ELSE IF in[field] = Raises THEN Thrown
    ELSE IF field \in {"value", "get", "set"}
    THEN Converted((field :> in[field]) @@ conversion.desc)
    ELSE Converted((field :> toBoolean(in[field])) @@ conversion.desc)

\* One field of the description: when the description has it, it is read
\* (which can throw), a flag is converted to a boolean, a getter or setter
\* must be undefined or callable, and the descriptor takes it.
readField(in, conversion, field) ==
    IF ~conversion.ok \/ field \notin DOMAIN in THEN conversion
    ELSE IF in[field] = Raises THEN Thrown
    ELSE IF field \in {"get", "set"}
    THEN IF in[field] # Undefined /\ ~isCallable(in[field]) THEN Thrown
         ELSE Converted((field :> in[field]) @@ conversion.desc)
    ELSE IF field = "value"
    THEN Converted((field :> in[field]) @@ conversion.desc)
    ELSE Converted((field :> toBoolean(in[field])) @@ conversion.desc)

\* toPropertyDescriptor: the fields are read in the order of
\* DescriptionFields, and a descriptor with a getter or a setter is refused
\* at the end when it also has a value or the flag writable.
toPropertyDescriptor(in) ==
    IF in \in Primitives THEN Thrown
    ELSE LET read == FoldLeft(LAMBDA conversion, field :
                                  readField(in, conversion, field),
                              Converted(<< >>), DescriptionFields)
         IN  IF /\ read.ok
                /\ isAccessorDescriptor(read.desc)
                /\ isDataDescriptor(read.desc)
             THEN Thrown
             ELSE read

\* A fault: the description of an accessor property has a value too.
fromPropertyDescriptorWithValue(own) ==
    IF ~own.found THEN Undefined
    ELSE LET descriptor == own.descriptor
         IN  [enumerable |-> jsBoolean(descriptor.enumerable),
              configurable |-> jsBoolean(descriptor.configurable)]
             @@ IF isAccessorDescriptor(descriptor)
                THEN [get |-> descriptor.get, set |-> descriptor.set,
                      value |-> Undefined]
                ELSE [value |-> descriptor.value,
                      writable |-> jsBoolean(descriptor.writable)]

\* The description object objectConstructorGetOwnPropertyDescriptor makes
\* of a descriptor, undefined when the object has no such property.
fromPropertyDescriptor(own) ==
    IF ~own.found THEN Undefined
    ELSE LET descriptor == own.descriptor
         IN  [enumerable |-> jsBoolean(descriptor.enumerable),
              configurable |-> jsBoolean(descriptor.configurable)]
             @@ IF isAccessorDescriptor(descriptor)
                THEN [get |-> descriptor.get, set |-> descriptor.set]
                ELSE [value |-> descriptor.value,
                      writable |-> jsBoolean(descriptor.writable)]

-----------------------------------------------------------------------------
(* The loops over the properties of one object.  Each works on the state   *)
(* of the object and yields the state it leaves and whether it threw.      *)

Left(state, threw) == [state |-> state, threw |-> threw]

\* One round of a loop with a fault: private names are not passed over.
redefineAny(left, key, Changed(_)) ==
    LET own == getOwnPropertyDescriptor(left.state.props, key)
        defined == defineOwnProperty(left.state.props, left.state.extensible,
                                     key, Changed(own.descriptor))
    IN  IF left.threw \/ ~own.found THEN left
        ELSE Left([left.state EXCEPT !.props = defined.props], defined.rejected)

\* One round of a loop that redefines the object's properties: a private
\* name and a name the object no longer has are passed over; the property is
\* defined with the changed descriptor, and a rejection throws.
redefine(left, key, Changed(_)) ==
    LET own == getOwnPropertyDescriptor(left.state.props, key)
        defined == defineOwnProperty(left.state.props, left.state.extensible,
                                     key, Changed(own.descriptor))
    IN  IF left.threw \/ isPrivateName(key) \/ ~own.found THEN left
        ELSE Left([left.state EXCEPT !.props = defined.props], defined.rejected)

\* The names the loops of seal, freeze, isSealed and isFrozen go through.
ownNames(state) == getOwnPropertyNames(state.props, "StringsAndSymbols", TRUE)

\* JSObject::preventExtensions after a loop that did not throw.
preventExtensions(left) ==
    IF left.threw THEN left
    ELSE Left([left.state EXCEPT !.extensible = FALSE], FALSE)

NotConfigurable(desc) == [desc EXCEPT !.configurable = FALSE]

NotWritableNotConfigurable(desc) ==
    IF isDataDescriptor(desc)
    THEN [desc EXCEPT !.writable = FALSE, !.configurable = FALSE]
    ELSE [desc EXCEPT !.configurable = FALSE]

\* The Structure of a JSFinalObject makes the transition and the object is
\* not extensible afterwards.
byStructure(state, transition(_)) ==
    Left(ObjectState(transition(state.props), FALSE, state.prototype), FALSE)

\* The loop of seal and freeze over the names of any other object, and the
\* call of preventExtensions after it.
redefineAll(state, Changed(_)) ==
    preventExtensions(
        FoldLeft(LAMBDA left, key : redefine(left, key, Changed),
                 Left(state, FALSE), ownNames(state)))

\* objectConstructorSeal on an object.
seal(object, state) ==
    IF isJSFinalObject(object) THEN byStructure(state, sealTransition)
    ELSE redefineAll(state, NotConfigurable)

\* A fault: the JSFinalObject is sealed where it is to be frozen.
freezeBySealing(object, state) ==
    IF isJSFinalObject(object) THEN byStructure(state, sealTransition)
    ELSE redefineAll(state, NotWritableNotConfigurable)

\* A fault: the loop leaves writable as it is.
freezeKeepingWritable(object, state) ==
    IF isJSFinalObject(object) THEN byStructure(state, freezeTransition)
    ELSE redefineAll(state, NotConfigurable)

\* A fault: the loop of freeze does not pass over private names.
freezeAnyName(object, state) ==
    IF isJSFinalObject(object) THEN byStructure(state, freezeTransition)
    ELSE preventExtensions(
             FoldLeft(LAMBDA left, key :
                          redefineAny(left, key, NotWritableNotConfigurable),
                      Left(state, FALSE), ownNames(state)))

\* objectConstructorFreeze(exec, object).
freeze(object, state) ==
    IF isJSFinalObject(object) THEN byStructure(state, freezeTransition)
    ELSE redefineAll(state, NotWritableNotConfigurable)

\* The loop of isSealed and isFrozen: no public own property has a
\* descriptor that says otherwise, and the object is not extensible.
allPublic(state, Passes(_)) ==
    /\ \A key \in ToSet(ownNames(state)) \ PrivateKeys :
           Passes(getOwnPropertyDescriptor(state.props, key).descriptor)
    /\ ~state.extensible

\* A fault: the Structure is asked whether it is frozen.
isSealedByFrozen(object, state) ==
    IF isJSFinalObject(object)
    THEN structureIsFrozen(state.props, state.extensible)
    ELSE allPublic(state, LAMBDA desc : ~desc.configurable)

\* objectConstructorIsSealed on an object.
isSealed(object, state) ==
    IF isJSFinalObject(object)
    THEN structureIsSealed(state.props, state.extensible)
    ELSE allPublic(state, LAMBDA desc : ~desc.configurable)

\* A fault: the loop does not look at writable.
isFrozenWritable(object, state) ==
    IF isJSFinalObject(object)
    THEN structureIsFrozen(state.props, state.extensible)
    ELSE allPublic(state, LAMBDA desc : ~desc.configurable)

\* objectConstructorIsFrozen on an object.
isFrozen(object, state) ==
    IF isJSFinalObject(object)
    THEN structureIsFrozen(state.props, state.extensible)
    ELSE allPublic(state, LAMBDA desc :
             ~(isDataDescriptor(desc) /\ desc.writable) /\ ~desc.configurable)

\* A fault: each description is converted when its turn to be defined has
\* come, the ones before it already defined.
definePropertiesOneByOne(state, properties) ==
    LET define(left, i) ==
            LET descriptor == IF properties[i].prop = Raises THEN Thrown
                              ELSE toPropertyDescriptor(properties[i].prop)
                defined == defineOwnProperty(left.state.props, left.state.extensible,
                                             properties[i].key, descriptor.desc)
            IN  IF left.threw THEN left
                ELSE IF ~descriptor.ok THEN Left(left.state, TRUE)
                ELSE IF isPrivateName(properties[i].key) THEN left
                ELSE Left([left.state EXCEPT !.props = defined.props],
                          defined.rejected)
    IN  FoldLeftDomain(define, Left(state, FALSE), properties)

\* defineProperties: every description is read and converted first, and
\* only when all of them are descriptors is the first property defined.
\* Private names are passed over, and a rejected definition throws and
\* leaves the ones before it defined.
defineProperties(state, properties) ==
    LET descriptors ==
            [i \in DOMAIN properties |->
                IF properties[i].prop = Raises THEN Thrown
                ELSE toPropertyDescriptor(properties[i].prop)]
        define(left, i) ==
            LET defined == defineOwnProperty(left.state.props, left.state.extensible,
                                             properties[i].key, descriptors[i].desc)
            IN  IF left.threw \/ isPrivateName(properties[i].key) THEN left
                ELSE Left([left.state EXCEPT !.props = defined.props],
                          defined.rejected)
    IN  IF \E i \in DOMAIN properties : ~descriptors[i].ok
        THEN Left(state, TRUE)
        ELSE FoldLeftDomain(define, Left(state, FALSE), properties)

\* A fault: the private names are returned with the symbols.
ownPropertyKeysWithPrivate(state, propertyNameMode, includeDontEnum) ==
    LET names == getOwnPropertyNames(state.props, propertyNameMode, includeDontEnum)
    IN  SelectSeq(names, LAMBDA identifier : identifier \notin SymbolKeys)
        \o SelectSeq(names, LAMBDA identifier : identifier \in SymbolKeys)

\* A fault: a symbol is pushed where it is met.
ownPropertyKeysInline(state, propertyNameMode, includeDontEnum) ==
    LET properties == getOwnPropertyNames(state.props, propertyNameMode, includeDontEnum)
    IN  SelectSeq(properties, LAMBDA identifier : ~isPrivateName(identifier))

\* ownPropertyKeys: the strings in the order of the property names, then the
\* symbols in that order, private names left out.
ownPropertyKeys(state, propertyNameMode, includeDontEnum) ==
    LET properties == getOwnPropertyNames(state.props, propertyNameMode, includeDontEnum)
        push(keys, identifier) ==
            IF identifier \in SymbolKeys
            THEN IF isPrivateName(identifier) THEN keys
                 ELSE [keys EXCEPT !.propertySymbols = Append(@, identifier)]
            ELSE [keys EXCEPT !.keys = Append(@, identifier)]
        pushed == FoldLeft(push, [keys |-> << >>, propertySymbols |-> << >>],
                           properties)
    IN  pushed.keys \o pushed.propertySymbols

-----------------------------------------------------------------------------
(* The host functions. *)

\* The host function returns value to the script that called it, or throws.
Returns(value, threw) == result' = [value |-> value, threw |-> threw]

\* The object is left in the state given.
Leave(object, state) ==
    /\ store' = [store EXCEPT ![object] = state.props]
    /\ extensible' = [extensible EXCEPT ![object] = state.extensible]
    /\ prototype' = [prototype EXCEPT ![object] = state.prototype]
    /\ UNCHANGED allocated

\* A new object comes to exist in the state given.
Allocate(object, state) ==
    /\ allocated' = allocated \cup {object}
    /\ store' = [store EXCEPT ![object] = state.props]
    /\ extensible' = [extensible EXCEPT ![object] = state.extensible]
    /\ prototype' = [prototype EXCEPT ![object] = state.prototype]

\* The values a script can pass: the objects that exist and the primitives.
Arguments == Receivers \cap (allocated \cup Primitives)

PrototypeArguments == Prototypes \cap (allocated \cup Primitives)

Free(objects) == objects \ allocated

Init ==
    /\ allocated = InitialObjects
    /\ store = [o \in Objects |-> IF o \in InitialObjects THEN InitialStore[o] ELSE << >>]
    /\ extensible = [o \in Objects |-> TRUE]
    /\ prototype = [o \in Objects |->
                       IF o \in InitialObjects THEN InitialPrototype[o] ELSE Null]
    /\ result = [value |-> Undefined, threw |-> FALSE]

\* constructObject, behind callObjectConstructor and
\* constructWithObjectConstructor alike: a new empty object for undefined and
\* null, the argument itself when it is an object, its wrapper otherwise.
constructObject(arg) ==
    \/ /\ arg \in {Undefined, Null}
       /\ \E object \in Free(FinalObjects) :
              /\ Allocate(object, ObjectState(<< >>, TRUE, ObjectPrototype))
              /\ Returns(object, FALSE)
    \/ /\ isObject(arg)
       /\ Returns(arg, FALSE)
       /\ UNCHANGED heap
    \/ /\ arg \in Primitives \ {Undefined, Null}
       /\ \E object \in Free(Objects \ FinalObjects) :
              /\ Allocate(object, toObject(arg).state)
              /\ Returns(object, FALSE)

\* A fault: the frame of the host function itself decides.
iterateFromFirstFrame(state, stack) ==
    IF stack # << >> /\ Head(stack) THEN state.prototype ELSE Undefined

\* ObjectConstructorGetPrototypeOfFunctor run over the frames of the stack,
\* the frame of the host function first: the first frame is skipped and the
\* second decides; frame by frame the stack says whether the object allows
\* access from it.
iterate(state, stack) ==
    LET visit(functor, allowsAccess) ==
            IF functor.done THEN functor
            ELSE IF ~functor.hasSkippedFirstFrame
            THEN [functor EXCEPT !.hasSkippedFirstFrame = TRUE]
            ELSE [functor EXCEPT
                    !.result = IF allowsAccess THEN state.prototype ELSE @,
                    !.done = TRUE]
    IN  FoldLeft(visit, [hasSkippedFirstFrame |-> FALSE, result |-> Undefined,
                         done |-> FALSE], stack).result

objectConstructorGetPrototypeOf(arg, stack) ==
    LET object == toObject(arg)
    IN  /\ IF object.threw
           THEN Returns(Undefined, TRUE)
           ELSE Returns(iterate(object.state, stack), FALSE)
        /\ UNCHANGED heap

\* A fault: the prototype is stored without the check for a cycle.
setPrototypeOfDirect(objectValue, protoValue, accessAllowed) ==
    LET object == toObject(objectValue).state
    IN  IF ~accessAllowed \/ object.prototype = protoValue
        THEN [prototype |-> prototype, threw |-> FALSE]
        ELSE IF ~object.extensible
        THEN [prototype |-> prototype, threw |-> TRUE]
        ELSE [prototype |-> IF isObject(objectValue)
                            THEN [prototype EXCEPT ![objectValue] = protoValue]
                            ELSE prototype,
              threw |-> FALSE]

\* A fault: the test for an object that is not extensible is missing.
setPrototypeOfNonExtensible(objectValue, protoValue, accessAllowed) ==
    LET object == toObject(objectValue).state
        set == IF isObject(objectValue)
               THEN setPrototype(prototype, objectValue, protoValue)
               ELSE [prototype |-> prototype, didSet |-> TRUE]
    IN  IF ~accessAllowed \/ object.prototype = protoValue
        THEN [prototype |-> prototype, threw |-> FALSE]
        ELSE [prototype |-> set.prototype, threw |-> ~set.didSet]

\* What objectConstructorSetPrototypeOf does after its arguments passed: the
\* prototype references it leaves and whether it threw.  The prototype of a
\* wrapper is set on an object nothing refers to.
setPrototypeOf(objectValue, protoValue, accessAllowed) ==
    LET object == toObject(objectValue).state
        set == IF isObject(objectValue)
               THEN setPrototype(prototype, objectValue, protoValue)
               ELSE [prototype |-> prototype, didSet |-> TRUE]
    IN  IF ~accessAllowed \/ object.prototype = protoValue
        THEN [prototype |-> prototype, threw |-> FALSE]
        ELSE IF ~object.extensible
        THEN [prototype |-> prototype, threw |-> TRUE]
        ELSE [prototype |-> set.prototype, threw |-> ~set.didSet]

objectConstructorSetPrototypeOf(objectValue, protoValue, accessAllowed) ==
    \/ /\ \/ objectValue \in {Undefined, Null}
          \/ ~isObject(protoValue) /\ protoValue # Null
       /\ Returns(Undefined, TRUE)
       /\ UNCHANGED heap
    \/ /\ objectValue \notin {Undefined, Null}
       /\ isObject(protoValue) \/ protoValue = Null
       /\ LET set == setPrototypeOf(objectValue, protoValue, accessAllowed)
          IN  /\ prototype' = set.prototype
              /\ Returns(IF set.threw THEN Undefined ELSE objectValue, set.threw)
       /\ UNCHANGED <<store, extensible, allocated>>

\* What toPropertyKey makes of the second argument of a host function: a
\* name a script can give, or the exception of the script the conversion
\* ran.
PropertyKeys == (Keys \ PrivateKeys) \cup {Raises}

objectConstructorGetOwnPropertyDescriptor(arg, key) ==
    LET object == toObject(arg)
    IN  /\ IF object.threw \/ key = Raises
           THEN Returns(Undefined, TRUE)
           ELSE Returns(fromPropertyDescriptor(
                            getOwnPropertyDescriptor(object.state.props, key)),
                        FALSE)
        /\ UNCHANGED heap

\* objectConstructorGetOwnPropertyDescriptors: the descriptions of all own
\* properties, under their names.
getOwnPropertyDescriptors(state) ==
    [key \in ToSet(ownNames(state)) |->
        fromPropertyDescriptor(getOwnPropertyDescriptor(state.props, key))]

objectConstructorGetOwnPropertyDescriptors(arg) ==
    LET object == toObject(arg)
    IN  /\ IF object.threw
           THEN Returns(Undefined, TRUE)
           ELSE Returns(getOwnPropertyDescriptors(object.state), FALSE)
        /\ UNCHANGED heap

\* The four host functions that return keys differ in the mode they pass.
returnKeys(arg, propertyNameMode, includeDontEnum) ==
    LET object == toObject(arg)
    IN  /\ IF object.threw
           THEN Returns(Null, TRUE)
           ELSE Returns(ownPropertyKeys(object.state, propertyNameMode,
                                        includeDontEnum), FALSE)
        /\ UNCHANGED heap

objectConstructorGetOwnPropertyNames(arg) ==
    returnKeys(arg, "Strings", TRUE)

objectConstructorGetOwnPropertySymbols(arg) ==
    returnKeys(arg, "Symbols", TRUE)

objectConstructorKeys(arg) == returnKeys(arg, "Strings", FALSE)

ownEnumerablePropertyKeys(arg) ==
    returnKeys(arg, "StringsAndSymbols", FALSE)

objectConstructorDefineProperty(O, key, in) ==
    LET conversion == toPropertyDescriptor(in)
        defined == defineOwnProperty(store[O], extensible[O], key, conversion.desc)
    IN  \/ /\ ~isObject(O)
           /\ Returns(Undefined, TRUE)
           /\ UNCHANGED heap
        \/ /\ isObject(O)
           /\ key = Raises \/ ~conversion.ok
           /\ Returns(Null, TRUE)
           /\ UNCHANGED heap
        \/ /\ isObject(O)
           /\ key # Raises
           /\ conversion.ok
           /\ store' = [store EXCEPT ![O] = defined.props]
           /\ Returns(O, defined.rejected)
           /\ UNCHANGED <<extensible, prototype, allocated>>

\* The enumerable own properties of what toObject makes of the second
\* argument: a wrapper has none, and neither has what is left when toObject
\* threw.
propertiesOf(value) == IF value \in Primitives THEN << >> ELSE value

objectConstructorDefineProperties(O, properties) ==
    \/ /\ ~isObject(O)
       /\ Returns(Undefined, TRUE)
       /\ UNCHANGED heap
    \/ /\ isObject(O)
       /\ LET left == defineProperties(StateOf(O), propertiesOf(properties))
              threw == left.threw \/ properties \in {Undefined, Null}
          IN  /\ Leave(O, left.state)
              /\ Returns(IF threw THEN Null ELSE O, threw)

\* The second half of objectConstructorCreate: the new object takes the
\* properties and is returned.  An object that is made and then given up
\* because the properties were refused is never seen by anybody.
create(proto, properties) ==
    LET left == defineProperties(ObjectState(<< >>, TRUE, proto),
                                 propertiesOf(properties))
    IN  \/ /\ left.threw
           /\ Returns(Null, TRUE)
           /\ UNCHANGED heap
        \/ /\ ~left.threw
           /\ \E newObject \in Free(FinalObjects) :
                  /\ Allocate(newObject, left.state)
                  /\ Returns(newObject, FALSE)

\* A fault: the test of the prototype argument is missing.
objectConstructorCreateAnyProto(proto, properties) ==
    \/ /\ properties \in Primitives \ {Undefined}
       /\ Returns(Undefined, TRUE)
       /\ UNCHANGED heap
    \/ /\ properties \notin Primitives \ {Undefined}
       /\ create(proto, properties)

objectConstructorCreate(proto, properties) ==
    \/ /\ \/ ~isObject(proto) /\ proto # Null
          \/ properties \in Primitives \ {Undefined}
       /\ Returns(Undefined, TRUE)
       /\ UNCHANGED heap
    \/ /\ isObject(proto) \/ proto = Null
       /\ properties \notin Primitives \ {Undefined}
       /\ create(proto, properties)

objectConstructorSeal(obj) ==
    \/ /\ ~isObject(obj)
       /\ Returns(obj, FALSE)
       /\ UNCHANGED heap
    \/ /\ isObject(obj)
       /\ LET left == seal(obj, StateOf(obj))
          IN  /\ Leave(obj, left.state)
              /\ Returns(obj, left.threw)

objectConstructorFreeze(obj) ==
    \/ /\ ~isObject(obj)
       /\ Returns(obj, FALSE)
       /\ UNCHANGED heap
    \/ /\ isObject(obj)
       /\ LET left == freeze(obj, StateOf(obj))
          IN  /\ Leave(obj, left.state)
              /\ Returns(IF left.threw THEN Undefined ELSE obj,
                         left.threw)

objectConstructorPreventExtensions(argument) ==
    \/ /\ ~isObject(argument)
       /\ UNCHANGED heap
       /\ Returns(argument, FALSE)
    \/ /\ isObject(argument)
       /\ extensible' = [extensible EXCEPT ![argument] = FALSE]
       /\ Returns(argument, FALSE)
       /\ UNCHANGED <<store, prototype, allocated>>

\* A value that is not an object counts as sealed and frozen, and as not
\* extensible.
objectConstructorIsSealed(obj) ==
    /\ Returns(jsBoolean(~isObject(obj) \/ isSealed(obj, StateOf(obj))), FALSE)
    /\ UNCHANGED heap

objectConstructorIsFrozen(obj) ==
    /\ Returns(jsBoolean(~isObject(obj) \/ isFrozen(obj, StateOf(obj))), FALSE)
    /\ UNCHANGED heap

objectConstructorIsExtensible(obj) ==
    /\ Returns(jsBoolean(isObject(obj) /\ extensible[obj]), FALSE)
    /\ UNCHANGED heap

\* sameValue on the values of the model, which has neither NaN nor zeros.
objectConstructorIs(first, second) ==
    /\ Returns(jsBoolean(first = second), FALSE)
    /\ UNCHANGED heap

\* A script calls one host function after the other, with any arguments.
Next ==
    \/ \E arg \in Arguments : constructObject(arg)
    \/ \E arg \in Arguments, stack \in Stacks :
          objectConstructorGetPrototypeOf(arg, stack)
    \/ \E arg \in Arguments, protoValue \in PrototypeArguments,
          accessAllowed \in BOOLEAN :
          objectConstructorSetPrototypeOf(arg, protoValue, accessAllowed)
    \/ \E arg \in Arguments, key \in PropertyKeys :
          objectConstructorGetOwnPropertyDescriptor(arg, key)
    \/ \E arg \in Arguments : objectConstructorGetOwnPropertyDescriptors(arg)
    \/ \E arg \in Arguments : objectConstructorGetOwnPropertyNames(arg)
    \/ \E arg \in Arguments : objectConstructorGetOwnPropertySymbols(arg)
    \/ \E arg \in Arguments : objectConstructorKeys(arg)
    \/ \E arg \in Arguments : ownEnumerablePropertyKeys(arg)
    \/ \E arg \in Arguments, key \in PropertyKeys, in \in Descriptions :
          objectConstructorDefineProperty(arg, key, in)
    \/ \E arg \in Arguments, properties \in PropertyLists :
          objectConstructorDefineProperties(arg, properties)
    \/ \E proto \in PrototypeArguments, properties \in PropertyLists :
          objectConstructorCreate(proto, properties)
    \/ \E arg \in Arguments : objectConstructorSeal(arg)
    \/ \E arg \in Arguments : objectConstructorFreeze(arg)
    \/ \E arg \in Arguments : objectConstructorPreventExtensions(arg)
    \/ \E arg \in Arguments : objectConstructorIsSealed(arg)
    \/ \E arg \in Arguments : objectConstructorIsFrozen(arg)
    \/ \E arg \in Arguments : objectConstructorIsExtensible(arg)
    \/ \E first, second \in Arguments : objectConstructorIs(first, second)

Spec == Init /\ [][Next]_vars

-----------------------------------------------------------------------------
(* Properties. *)

TypeOK ==
    /\ allocated \subseteq Objects
    /\ store \in [Objects -> Seq(StoredProperty)]
    /\ extensible \in [Objects -> BOOLEAN]
    /\ prototype \in [Objects -> Objects \cup {Null, NumberPrototype}]
    /\ \A o \in allocated : prototype[o] \in allocated \cup {Null, NumberPrototype}
    /\ \A o \in Objects : \A i, j \in DOMAIN store[o] :
           store[o][i].key = store[o][j].key => i = j

\* The own properties of o a script can name.
Public(o) == SelectSeq(store[o], LAMBDA p : ~isPrivateName(p.key))

\* What sealed and frozen mean (ES5 15.2.3.11 and 15.2.3.12), said of the
\* stored properties.
Sealed(o) ==
    /\ ~extensible[o]
    /\ \A p \in ToSet(Public(o)) : "DontDelete" \in p.attributes

Frozen(o) ==
    /\ Sealed(o)
    /\ \A p \in ToSet(Public(o)) : p.attributes \cap {"ReadOnly", "Accessor"} # {}

\* objectConstructorSeal and objectConstructorFreeze, the Structure path of
\* a JSFinalObject and the loop over the properties of any other object: a
\* call that returns without an exception leaves the object sealed, or
\* frozen: not extensible, every public property not configurable and, for
\* freeze, every data property not writable.
IntegrityReached ==
    [][\A obj \in Arguments \cap allocated :
         /\ ~result'.threw /\ objectConstructorSeal(obj) => Sealed(obj)'
         /\ ~result'.threw /\ objectConstructorFreeze(obj) => Frozen(obj)']_vars

\* objectConstructorIsSealed and objectConstructorIsFrozen: the answer of
\* the Structure for a JSFinalObject and the answer of the loop for any
\* other object are the answers of the definition, in every reachable state
\* of the heap.
AnswersRight ==
    \A o \in allocated :
        /\ isSealed(o, StateOf(o)) <=> Sealed(o)
        /\ isFrozen(o, StateOf(o)) <=> Frozen(o)

\* What a script can find out about the properties of o: the full descriptor
\* of every property it can name.
described(o) ==
    [key \in {p.key : p \in Range(store[o])} \ PrivateKeys |->
        LET stored == CHOOSE p \in Range(store[o]) : p.key = key
        IN  setDescriptor(stored.value, stored.attributes)]

Integrity == INSTANCE IntegrityLevel
                 WITH exists <- allocated,
                      property <- [o \in Objects |-> described(o)]

\* Every host function, against the promises of module IntegrityLevel: each
\* call is a step that specification allows.  No call makes an object
\* extensible again, adds a property to an object that is not extensible
\* or changes its prototype; no call removes a property that is not
\* configurable, makes it configurable, changes its kind or enumerability,
\* or changes what it holds unless it is a writable data property.
\* objectConstructorDefineProperty, defineProperties, objectConstructorSeal
\* and Freeze on both of their paths, and objectConstructorSetPrototypeOf
\* all have to keep them, on sealed and frozen objects in particular.
ImplementsIntegrityLevel == Integrity!Spec

\* The loops of objectConstructorSeal, objectConstructorFreeze and
\* defineProperties, which each pass over private names: no host function
\* changes, adds or removes a property with a private name, which scripts
\* must not be able to reach through Object.
PrivateNamesUntouched ==
    [][\A o \in allocated :
         SelectSeq(store'[o], LAMBDA p : isPrivateName(p.key))
             = SelectSeq(store[o], LAMBDA p : isPrivateName(p.key))]_vars

\* A description toPropertyDescriptor has to accept (ES5 8.10.5): an object
\* whose fields can be read, whose getter and setter are callable or
\* undefined, and which does not say both how to get or set and what the
\* value is or whether it is writable.
WellFormed(in) ==
    /\ in \notin Primitives \cup {Raises}
    /\ \A field \in DOMAIN in : in[field] # Raises
    /\ \A field \in DOMAIN in \cap {"get", "set"} :
           in[field] = Undefined \/ isCallable(in[field])
    /\ DOMAIN in \cap {"get", "set"} = {} \/ DOMAIN in \cap {"value", "writable"} = {}

\* objectConstructorDefineProperty against ES5 8.10.5 and against
\* objectConstructorGetOwnPropertyDescriptor: a description that is not
\* well-formed throws and defines nothing, whichever of the six reads or
\* the test after them finds it out (a getter that is undefined still makes
\* an accessor descriptor, which a value or the flag writable beside it
\* makes invalid); and after a definition that did not throw, the property
\* is described with every field as it was given, the flags as booleans,
\* whatever the property was before.
DefinesAsDescribed ==
    [][\A O \in Arguments \cap allocated, key \in Keys \ PrivateKeys, in \in Descriptions :
         objectConstructorDefineProperty(O, key, in) =>
             LET flag(field) == field \in {"enumerable", "configurable", "writable"}
                 now == fromPropertyDescriptor(getOwnPropertyDescriptor(store'[O], key))
             IN  IF ~WellFormed(in) THEN result'.threw /\ UNCHANGED heap
                 ELSE result'.threw \/ \A field \in DOMAIN in :
                          now[field] = IF flag(field)
                                       THEN jsBoolean(toBoolean(in[field]))
                                       ELSE in[field]]_vars

\* ObjectConstructorGetPrototypeOfFunctor, behind
\* objectConstructorGetPrototypeOf: the prototype is handed out to the
\* script frame that called the host function and to no other.  The frame
\* of the host function is passed over, the frame below it alone decides
\* whatever lies further down, and a call with no script frame below it
\* gets undefined.
PrototypeOnlyToCaller ==
    [][\A arg \in Arguments \ {Undefined, Null}, stack \in Stacks :
         objectConstructorGetPrototypeOf(arg, stack)
             => result'.value = IF Len(stack) >= 2 /\ stack[2]
                                THEN toObject(arg).state.prototype
                                ELSE Undefined]_vars

\* defineProperties, from objectConstructorDefineProperties: when one
\* description of the list is malformed, whichever it is, the call throws
\* and the object has every property as it was: nothing is defined before
\* everything is validated.
DefinePropertiesAtomic ==
    [][\A O \in Arguments \cap allocated, properties \in PropertyLists \ Primitives :
         (/\ \E i \in DOMAIN properties : ~WellFormed(properties[i].prop)
          /\ objectConstructorDefineProperties(O, properties))
         => result'.threw /\ UNCHANGED heap]_vars

\* The prototype n steps above a value, the value itself when the chain ends
\* before.
RECURSIVE ancestor(_, _)
ancestor(value, n) ==
    IF n = 0 \/ value \notin Objects THEN value
    ELSE ancestor(prototype[value], n - 1)

\* objectConstructorSetPrototypeOf and objectConstructorCreate: the
\* prototype chain of every object ends; no sequence of calls makes an object
\* its own ancestor.
PrototypeChainsEnd ==
    \A o \in allocated : ancestor(o, Cardinality(Objects)) \notin Objects

\* ownPropertyKeys, behind getOwnPropertyNames, getOwnPropertySymbols, keys
\* and ownEnumerablePropertyKeys: the keys are the strings in insertion
\* order followed by the symbols in insertion order, private names never
\* among them, and properties that are not enumerable only when the mode
\* includes them.
KeysInOrder ==
    \A o \in allocated, includeDontEnum \in BOOLEAN :
        LET Listed(p) == includeDontEnum \/ "DontEnum" \notin p.attributes
            Names(Named(_)) ==
                LET named == SelectSeq(Public(o), LAMBDA p : Listed(p) /\ Named(p.key))
                IN  [i \in DOMAIN named |-> named[i].key]
            strings == Names(LAMBDA key : key \notin SymbolKeys)
            symbols == Names(LAMBDA key : key \in SymbolKeys)
        IN  /\ ownPropertyKeys(StateOf(o), "Strings", includeDontEnum) = strings
            /\ ownPropertyKeys(StateOf(o), "Symbols", includeDontEnum) = symbols
            /\ ownPropertyKeys(StateOf(o), "StringsAndSymbols", includeDontEnum)
                   = strings \o symbols

\* objectConstructorGetOwnPropertyDescriptor against toPropertyDescriptor
\* and defineOwnProperty: the description a script gets of a property is one
\* toPropertyDescriptor accepts, and defining the property with it is not
\* rejected and leaves the object as it is.
DescriptionDefinesSame ==
    \A o \in allocated, key \in Keys \ PrivateKeys :
        LET description == fromPropertyDescriptor(
                               getOwnPropertyDescriptor(store[o], key))
            conversion == toPropertyDescriptor(description)
            defined == defineOwnProperty(store[o], extensible[o], key,
                                         conversion.desc)
        IN  description # Undefined
                => conversion.ok /\ ~defined.rejected /\ defined.props = store[o]

=============================================================================
