\* One object of a class with every kind of entry, one of a class derived
\* from it.
CONSTANTS
    Keys <- MCKeys
    SymbolKeys <- MCPrivateKeys
    PrivateKeys <- MCPrivateKeys
    Objects <- MCObjects
    ClassOf <- MCClassOf
    Classes <- MCClasses
    KeysOf <- MCKeysOf
    HostValues <- MCHostValues
    InitialStore <- MCInitialStore
    InitialNative <- MCInitialNative
    Root = Root
    Undefined = Undefined
    shape = shape
    circle = circle
    One = One
    ScriptValues = {v1, v2}
    MaxFunctions = 4

SPECIFICATION Spec

INVARIANTS
    TypeOK
    ReadTwiceSame
    WriteIsRead
    SlotAndDescriptorAgree

PROPERTY ReadOnlyEntryKept
