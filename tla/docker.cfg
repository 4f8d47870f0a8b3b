SPECIFICATION HostSpec
CONSTANTS
    o1 = o1  o2 = o2  o3 = o3
    b1 = b1  b2 = b2  b3 = b3
    v1 = v1  v2 = v2
    Orgs <- MCOrgs
    Builds <- MCBuilds
    Boots <- MCBoots
    Octets <- MCOctets
    Ports <- MCPorts
    Deployments <- MCDeployments
    NoOrg = NoOrg
    NoBuild = NoBuild
    NoOctet = NoOctet
    NoPort = NoPort
    Dev = Dev
INVARIANTS
    HostTypeOK
    
    InstalledFromOwnScripts
    AllowlistIsKept
CHECK_DEADLOCK FALSE
