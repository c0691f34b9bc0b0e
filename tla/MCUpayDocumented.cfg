\* The same instance, for the promise of the documentation about every body.
SPECIFICATION Spec
CONSTANTS
    Undefined = Undefined
    Calls = {c1}
    Substrings <- MCSubstrings
    Bodies <- MCBodies
    ReferenceLists <- MCReferenceLists
    ChannelLists <- MCChannelLists
INVARIANT AllReferencesMeetRules
