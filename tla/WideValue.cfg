CONSTANTS
    Byte = 8
    Events = {1}
    Ids = {"a"}
    FieldTypes = {"S16", "U32", "U64"}
    Values = {5, 3000}
    Lengths = {1}
    MaxBytes = 60
    MaxRequests = 1
    MaxMembers = 2
SPECIFICATION Spec
INVARIANT OkMeansValue
