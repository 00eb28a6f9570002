\* The wrapper, the prototype and the constructor of the generated binding.
CONSTANTS
    Keys <- BindingKeys
    SymbolKeys <- BindingPrivateKeys
    PrivateKeys <- BindingPrivateKeys
    Objects <- BindingObjects
    ClassOf <- BindingClassOf
    Classes <- BindingClasses
    KeysOf <- BindingKeysOf
    HostValues <- BindingHostValues
    InitialStore <- BindingInitialStore
    InitialNative <- BindingInitialNative
    Root = Root
    Undefined = Undefined
    Wrapper = Wrapper
    Prototype = Prototype
    Constructor = Constructor
    Number = Number
    Zero = Zero
    ScriptValues = {v1, v2}
    MaxFunctions = 3

SPECIFICATION Spec

INVARIANTS
    ReadTwiceSame
    WriteIsRead
    SlotAndDescriptorAgree
    NoAccessNoNativeState
