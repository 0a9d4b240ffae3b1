CONSTANTS
    gce = gce
    aws = aws
    azure = azure
    gceProvider = gceProvider
    awsProvider = awsProvider
    azureProvider = azureProvider
    stubProvider = stubProvider
    Names <- MCNames
    Impls <- MCImpls
    Registrations <- MCRegistrations
    Active <- MCActive
    Unknown = Unknown
    NoImpl = NoImpl
    MaxInfoCalls = 6
SPECIFICATION Spec
\* After its Info calls the process has nothing more to do here.
CHECK_DEADLOCK FALSE
INVARIANTS TypeOK ReportsAnActiveProvider
