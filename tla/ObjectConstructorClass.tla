----------------------- MODULE ObjectConstructorClass -----------------------
(***************************************************************************)
(* The function object Object as a client of the resolution protocol       *)
(* (ObjectConstructor.cpp): its static table, its getOwnPropertySlot,      *)
(* which calls getStaticFunctionSlot over JSObject, and the own properties *)
(* finishCreation and addDefineProperty put directly.  defineProperty is   *)
(* both a row of the table and a property put directly: the global object  *)
(* keeps the function addDefineProperty returned, and a script that reads  *)
(* Object.defineProperty is to meet that very function.                    *)
(***************************************************************************)
EXTENDS Lookup

CONSTANTS ObjectConstructor,  \* the function object Object
          ObjectPrototype,    \* Object.prototype
          ClassName,          \* jsString of the class name of the prototype
          One,                \* jsNumber(1)
          getOwnPropertySymbolsFunction,  \* the functions put directly
          getPrototypeOfFunction,
          getOwnPropertyNamesFunction,
          definePropertyFunction

\* The names of the rows of objectConstructorTable; each is DontEnum|Function.
objectConstructorTableNames ==
    <<"getPrototypeOf", "setPrototypeOf", "getOwnPropertyDescriptor",
      "getOwnPropertyDescriptors", "getOwnPropertyNames", "keys", "defineProperty",
      "defineProperties", "create", "seal", "freeze", "preventExtensions",
      "isSealed", "isFrozen", "isExtensible", "is", "assign">>

objectConstructorTable ==
    [i \in DOMAIN objectConstructorTableNames |->
        [key |-> objectConstructorTableNames[i],
         attributes |-> {"DontEnum", "Function"}, checked |-> FALSE]]

\* ObjectConstructor::s_info and ObjectConstructor::getOwnPropertySlot; put
\* is the one of JSObject.
ObjectConstructorClasses ==
    "Function" :> [table |-> objectConstructorTable, parent |-> Root,
                   slot |-> "function", put |-> "inherited", guarded |-> FALSE]

\* ObjectConstructor::finishCreation, on the store of the new function.
finishCreation(props) ==
    LET named      == putDirect(props, "name", ClassName, {"DontDelete", "ReadOnly", "DontEnum"})
        prototyped == putDirect(named, "prototype", ObjectPrototype, {"DontEnum", "DontDelete", "ReadOnly"})
        counted    == putDirect(prototyped, "length", One, {"ReadOnly", "DontEnum", "DontDelete"})
        symbols    == putDirect(counted, "getOwnPropertySymbols", getOwnPropertySymbolsFunction, {"DontEnum", "Function"})
        protoOf    == putDirect(symbols, "@getPrototypeOf", getPrototypeOfFunction, {"DontEnum", "Function"})
    IN  putDirect(protoOf, "@getOwnPropertyNames", getOwnPropertyNamesFunction, {"DontEnum", "Function"})

\* A fault: the function is made and returned, and not put.
addDefinePropertyNotPut(props) == props

\* ObjectConstructor::addDefineProperty, on the store of the function.
addDefineProperty(props) ==
    putDirect(props, "defineProperty", definePropertyFunction, {"DontEnum"})

\* Object as JSGlobalObject::init leaves it.
ObjectConstructorInitialStore ==
    ObjectConstructor :> addDefineProperty(finishCreation(<< >>))

ObjectConstructorObjects == {ObjectConstructor}

ObjectConstructorClassOf == ObjectConstructor :> "Function"

ObjectConstructorInitialNative == ObjectConstructor :> << >>

ObjectConstructorPrivateKeys == {"@getPrototypeOf", "@getOwnPropertyNames"}

ObjectConstructorKeys ==
    Range(objectConstructorTableNames) \cup ObjectConstructorPrivateKeys
        \cup {"name", "prototype", "length", "getOwnPropertySymbols", "expando"}

ObjectConstructorHostValues ==
    {ObjectPrototype, ClassName, One, getOwnPropertySymbolsFunction,
     getPrototypeOfFunction, getOwnPropertyNamesFunction, definePropertyFunction}

\* The names the scripts of the model assign to: a row that was read or
\* not, the row that is also put directly, a read-only property and a name
\* nobody has.
ObjectConstructorKeysOf ==
    ObjectConstructor :> {"keys", "defineProperty", "length", "expando"}

\* addDefineProperty against getOwnPropertySlot: as long as no script
\* assigned to Object.defineProperty, a read of it returns the function the
\* global object keeps, and the table row of that name never makes a second
\* function.
DefinePropertyIsTheOneKept ==
    LET read == Get(store[ObjectConstructor], native[ObjectConstructor],
                    "defineProperty", "Function", functions + 1)
    IN  \/ read.value = definePropertyFunction /\ read.props = store[ObjectConstructor]
        \/ \E i \in DOMAIN store[ObjectConstructor] :
              /\ store[ObjectConstructor][i].key = "defineProperty"
              /\ store[ObjectConstructor][i].value \in ScriptValues

=============================================================================
