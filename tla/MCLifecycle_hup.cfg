CONSTANTS
    Instance = {i1}
    Contents <- SomeContents
    CliListen <- SomeCli
    Malformed <- NotAnAddress
    DefaultListen <- Wildcards
    Ports = {1, 2}
    ForeignTcp <- OtherProgram
    Signalled = {i1}
    MaxEdits = 1
SPECIFICATION FairSpec
CHECK_DEADLOCK FALSE
PROPERTY HupReloads
