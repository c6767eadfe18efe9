CONSTANTS
    Byte = 8
    Events = {7}
    Ids = {"a", "bb"}
    FieldTypes = {"U32", "String", "Data"}
    Values = {40}
    Lengths = {1}
    MaxBytes = 76
    MaxRequests = 2
    MaxMembers = 2
SPECIFICATION Spec
INVARIANT TypeOK
INVARIANT EventsInOrder
INVARIANT MembersFound
INVARIANT EntriesFound
INVARIANT NumbersConverted
PROPERTY RequestIdsUnique
