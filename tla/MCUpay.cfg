\* One call: calls share nothing in the gateway.
SPECIFICATION Spec
CONSTANTS
    Undefined = Undefined
    Calls = {c1}
    Substrings <- MCSubstrings
    Bodies <- MCBodies
    ReferenceLists <- MCReferenceLists
    ChannelLists <- MCChannelLists
INVARIANTS
    TypeOK
    ReferencesMeetRules
    RefusedForCause
    ChannelWasLive
    NumberIsSubscribers
    AnswersAreTrue
