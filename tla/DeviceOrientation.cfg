\* One event; see MCDeviceOrientation for the argument lists.
CONSTANTS
    Events = {e1}
    ArgumentLists <- MCArgumentLists
    Undefined = Undefined
    Null = Null
    True = True
    False = False
    Zero = Zero
    One = One
    NaN = NaN
    Text = Text
    Thrower = Thrower

SPECIFICATION Spec

INVARIANT TypeOK

PROPERTY NullIffNotProvided
