CONSTANTS
    Magic <- MCMagic
    BadMagic <- MCBadMagic
    FieldBytes <- MCFieldBytes
    EntryLists <- MCEntryLists
    QueryNames <- MCQueryNames
SPECIFICATION Spec
\* A Create that fails leaves no parser: nothing further can be called.
CHECK_DEADLOCK FALSE
INVARIANT TypeOK
INVARIANT EmitParseRoundTrip
