------------------------ MODULE JSTestActiveDOMObject ------------------------
(***************************************************************************)
(* The generated binding JSTestActiveDOMObject.cpp as a client of the      *)
(* resolution protocol: the wrapper, its prototype and its constructor,    *)
(* each with its static table and the template its read methods call.      *)
(* None of the three classes has a put of its own, and the parent of each  *)
(* (JSDOMWrapper, JSObject, DOMConstructorObject) has no table.            *)
(***************************************************************************)
EXTENDS Lookup

CONSTANTS Wrapper,      \* a JSTestActiveDOMObject
          Prototype,    \* the JSTestActiveDOMObjectPrototype of its global object
          Constructor,  \* the JSTestActiveDOMObjectConstructor of its global object
          Number,       \* jsNumber(impl->excitingAttr())
          Zero          \* jsNumber(0)

\* The rows of the wrapper's table; both getters ask
\* shouldAllowAccessToDOMWindow before they answer.
JSTestActiveDOMObjectTableValues ==
    << [key |-> "excitingAttr", attributes |-> {"DontDelete", "ReadOnly"}, checked |-> TRUE],
       [key |-> "constructor",  attributes |-> {"DontEnum", "ReadOnly"},   checked |-> TRUE] >>

JSTestActiveDOMObjectConstructorTableValues == << >>

JSTestActiveDOMObjectPrototypeTableValues ==
    << [key |-> "excitingFunction", attributes |-> {"DontDelete", "Function"}, checked |-> FALSE],
       [key |-> "postMessage",      attributes |-> {"DontDelete", "Function"}, checked |-> FALSE] >>

\* JSTestActiveDOMObject::getOwnPropertySlot and ::getOwnPropertyDescriptor:
\* the value templates, the descriptor behind shouldAllowAccessToFrame.
JSTestActiveDOMObjectClass ==
    [table |-> JSTestActiveDOMObjectTableValues, parent |-> Root,
     slot |-> "value", put |-> "inherited", guarded |-> TRUE]

\* JSTestActiveDOMObjectPrototype: the function templates over JSObject.
JSTestActiveDOMObjectPrototypeClass ==
    [table |-> JSTestActiveDOMObjectPrototypeTableValues, parent |-> Root,
     slot |-> "function", put |-> "inherited", guarded |-> FALSE]

\* JSTestActiveDOMObjectConstructor: the value templates over an empty table.
JSTestActiveDOMObjectConstructorClass ==
    [table |-> JSTestActiveDOMObjectConstructorTableValues, parent |-> Root,
     slot |-> "value", put |-> "inherited", guarded |-> FALSE]

BindingClasses ==
    ("TestActiveDOMObject" :> JSTestActiveDOMObjectClass)
    @@ ("TestActiveDOMObjectPrototype" :> JSTestActiveDOMObjectPrototypeClass)
    @@ ("TestActiveDOMObjectConstructor" :> JSTestActiveDOMObjectConstructorClass)

BindingObjects == {Wrapper, Prototype, Constructor}

BindingClassOf ==
    (Wrapper :> "TestActiveDOMObject")
    @@ (Prototype :> "TestActiveDOMObjectPrototype")
    @@ (Constructor :> "TestActiveDOMObjectConstructor")

\* JSTestActiveDOMObjectConstructor::finishCreation: prototype and length
\* are put directly, read-only and not deletable.
finishCreation ==
    putDirect(putDirect(<< >>, "prototype", Prototype, {"DontDelete", "ReadOnly"}),
              "length", Zero, {"ReadOnly", "DontDelete", "DontEnum"})

\* The wrapper and the prototype are created without own properties.
BindingInitialStore ==
    (Wrapper :> << >>) @@ (Prototype :> << >>) @@ (Constructor :> finishCreation)

\* What the getters of the wrapper read: the attribute of the implementation
\* object and the constructor of the global object.
BindingInitialNative ==
    (Wrapper :> [key \in {"excitingAttr", "constructor"} |->
                    IF key = "excitingAttr" THEN Number ELSE Constructor])
    @@ (Prototype :> << >>) @@ (Constructor :> << >>)

\* The names of the three tables, the two of finishCreation, a name no table
\* has and a private name.
BindingKeys ==
    {"excitingAttr", "constructor", "excitingFunction", "postMessage",
     "prototype", "length", "expando", "@private"}

BindingHostValues == {Number, Zero}

BindingPrivateKeys == {"@private"}

\* The names the scripts of the model assign to: on each object one name of
\* its table or of finishCreation and one name no table has.  Every name of
\* BindingKeys is read.
BindingKeysOf ==
    (Wrapper :> {"excitingAttr", "expando"})
    @@ (Prototype :> {"excitingFunction", "@private"})
    @@ (Constructor :> {"length", "expando"})

=============================================================================
