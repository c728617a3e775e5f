SPECIFICATION NamesSpec
CONSTANTS
    BaseLength = 2
    ExtLength = 2
    Forbidden = {":"}
    OnlyLong = {"+"}
    Names <- MCNames
    Places = 2
INVARIANT AliasFits
