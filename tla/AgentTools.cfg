SPECIFICATION FairSpec
CONSTANTS
    Processes = {"p", "q"}
    HasMcp = {"p"}
    Files = {"f", "logo", "src"}
    InitialFiles <- MCInitialFiles
    Unsafe = {"../f"}
    Texts = {"x", "y", "log"}
    Long = {"log"}
    Ids = {"a", "b"}
    Packages <- MCPackages
    Sources = {"main", "fork"}
    Commits <- MCCommits
    PackageAt <- MCPackageAt
    Servers <- MCServers
    Calls <- MCCalls
    Builtins <- MCBuiltins
    McpSchemas <- MCMcpSchemas
    MaxCalls = 2
    MaxEdits = 1
    MaxFaults = 1
INVARIANT
    TypeOK
PROPERTIES
    SkillsArePinned
    McpSettles
CHECK_DEADLOCK FALSE
