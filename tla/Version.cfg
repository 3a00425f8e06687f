\* The message about unsupported servers, on the instance of Startup.cfg.
SPECIFICATION Spec
CONSTANTS
    Contents <- MCContents
    ModuleLists <- MCModuleLists
    Numerals <- MCNumerals
    Versions <- MCVersions
    MaxModules = 2
    MaxLoaded = 6
    MaxConns = 4
    MaxRetries = 1
    UInt32Max = 2147483647
    Missing = Missing
INVARIANT
    OnlySupported
