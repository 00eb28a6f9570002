\* The function object Object, its table and the properties put directly.
CONSTANTS
    Keys <- ObjectConstructorKeys
    SymbolKeys <- ObjectConstructorPrivateKeys
    PrivateKeys <- ObjectConstructorPrivateKeys
    Objects <- ObjectConstructorObjects
    ClassOf <- ObjectConstructorClassOf
    Classes <- ObjectConstructorClasses
    KeysOf <- ObjectConstructorKeysOf
    HostValues <- ObjectConstructorHostValues
    InitialStore <- ObjectConstructorInitialStore
    InitialNative <- ObjectConstructorInitialNative
    Root = Root
    Undefined = Undefined
    ObjectConstructor = ObjectConstructor
    ObjectPrototype = ObjectPrototype
    ClassName = ClassName
    One = One
    getOwnPropertySymbolsFunction = getOwnPropertySymbolsFunction
    getPrototypeOfFunction = getPrototypeOfFunction
    getOwnPropertyNamesFunction = getOwnPropertyNamesFunction
    definePropertyFunction = definePropertyFunction
    ScriptValues = {v1}
    MaxFunctions = 2

SPECIFICATION Spec

INVARIANTS
    OwnPropertyShadowsTable
    DefinePropertyIsTheOneKept
