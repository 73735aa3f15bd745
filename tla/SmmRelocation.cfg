SPECIFICATION Spec
CONSTANTS
    NumberOfCpus = 4
    Bsp = 1
    ParkedOn = {"s3"}
    LoadsFirst = TRUE
    MaxResumes = 2
INVARIANT TypeOK
INVARIANT OneAtDefault
INVARIANT AllRelocated
INVARIANT FunnelServesAll
PROPERTY ReturnsHome
PROPERTY Resumes
CHECK_DEADLOCK FALSE
