------------------------ MODULE MCObjectConstructor ------------------------
(***************************************************************************)
(* A heap for the generic object operations: the object prototype, an      *)
(* object literal (a JSFinalObject), a promise (an object that is not a    *)
(* JSFinalObject and keeps its state under a private name), one object     *)
(* still to be made by Object.create or Object(), and the wrapper Object() *)
(* makes of a number.  A configuration takes the literal or the promise,   *)
(* so that the Structure path and the property-by-property path are each   *)
(* explored with every description below.                                  *)
(***************************************************************************)
EXTENDS ObjectConstructor

CONSTANTS objectPrototype, literal, promise, made, wrapper, f

\* The heap of the literal, with an object to be made by Object.create or
\* Object(), and the heap of the promise, with the wrapper to be made by
\* Object(number).
MCFinalHeap == {objectPrototype, literal, made}

MCGenericHeap == {objectPrototype, promise, wrapper}

\* Neither the promise nor the wrapper of a number is a JSFinalObject.
MCFinalObjects == {literal, made} \cap MCFinalHeap

MCNoFinalObjects == {literal, made} \cap MCGenericHeap

MCKeys == {"a", "s", "@state"}

MCSymbolKeys == {"s", "@state"}

MCPrivateKeys == {"@state"}

MCCallables == {f}

\* The promise has its state under a private name, as JSPromise puts it.
InitialStoreOf(heap0) ==
    [o \in heap0 |->
        IF o = promise
        THEN <<[key |-> "@state", value |-> Number, attributes |-> {}]>>
        ELSE << >>]

InitialPrototypeOf(heap0) ==
    [o \in heap0 |-> IF o = objectPrototype THEN Null ELSE objectPrototype]

MCFinalInitial == {objectPrototype, literal}

MCFinalStore == InitialStoreOf(MCFinalInitial)

MCFinalPrototype == InitialPrototypeOf(MCFinalInitial)

MCGenericInitial == {objectPrototype, promise}

MCGenericStore == InitialStoreOf(MCGenericInitial)

MCGenericPrototype == InitialPrototypeOf(MCGenericInitial)

\* The values scripts work on: one object and a value that is none, and the
\* values they pass as a prototype.
MCFinalReceivers == {literal, Undefined}

MCFinalPrototypes == {literal, made, Null, Number}

MCGenericReceivers == {promise, Number}

MCGenericPrototypes == {promise, wrapper, Null, Number}

\* A plain data property, an accessor, two updates of single flags, a
\* description that mixes value and getter, one whose getter is no function,
\* one whose field throws when read, and a value that is no object.
MCDescriptions ==
    {[value |-> Number, writable |-> True, enumerable |-> True, configurable |-> True],
     [get |-> f, enumerable |-> True, configurable |-> True],
     [value |-> Number, writable |-> False],
     [configurable |-> Undefined],
     [value |-> Number, get |-> f],
     [get |-> Number],
     [enumerable |-> True, value |-> Raises],
     Number}

\* Two properties that can be defined; a list whose second description is
\* malformed; a list with a private name; a list whose property throws when
\* read; and the values that are no list.
MCPropertyLists ==
    {<<[key |-> "s", prop |-> [get |-> f, configurable |-> True]],
       [key |-> "a", prop |-> [value |-> Number, enumerable |-> True]]>>,
     <<[key |-> "s", prop |-> [value |-> Number, configurable |-> True]],
       [key |-> "a", prop |-> [value |-> Number, set |-> f]]>>,
     <<[key |-> "@state", prop |-> [value |-> Undefined]],
       [key |-> "a", prop |-> [value |-> Number, writable |-> True]]>>,
     <<[key |-> "a", prop |-> Raises]>>,
     Undefined, Null}

\* Called from native code with no script frame, from a frame that may
\* access the object, and from one that may not, whatever lies below it.
MCStacks == {<<TRUE>>, <<TRUE, TRUE>>, <<TRUE, FALSE, TRUE>>}

=============================================================================
