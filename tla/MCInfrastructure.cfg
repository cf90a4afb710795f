SPECIFICATION Spec
CONSTANTS
    master = master
    node = node
    kafka = kafka
    p1 = p1
    p2 = p2
    p3 = p3
    za = za
    zb = zb
    ssh = ssh
    api = api
    bus = bus
    k1 = k1
    k2 = k2
    k3 = k3
    web = web
    rhel = rhel
    ubuntu = ubuntu
    haproxy = haproxy
    m1 = m1
    m2 = m2
    m3 = m3
    shared = shared
    masterRole = masterRole
    repository = repository
    imageRegistry = imageRegistry
    MaxRuns = 3
    None = None
    Order <- MCOrder
    Pools <- MCPools
    Rules <- MCRules
    Zones <- MCZones
    KeyNames <- MCKeyNames
    AvailabilitySets <- MCSets
    Distros <- MCDistros
    WithCloudConfig <- MCWithCloudConfig
    AwsFiles <- MCAwsFiles
    AzureFiles <- MCAzureFiles
    DefinitionOrder <- MCDefinitions
    ImageNames <- MCImages
    DefaultImage <- MCDefaultImage
    Distro <- MCDistro
    ApplyFiles <- MCApplyFiles
    UpgradeFiles <- MCUpgradeFiles
    ConfiguredOrder <- MCConfiguredOrder
    Roles <- MCRoles
    UpgradeRoles <- MCUpgradeRoles
    ManifestRoles <- MCManifestRoles
    Hosts <- MCHosts
    DocumentNames <- MCDocumentNames
    Specs <- MCSpecs
    Storages <- MCStorages
CHECK_DEADLOCK FALSE
INVARIANTS
    AwsNetworks
    AwsKeyReused
    AzureInterfacesInGroup
    ResourcesFit
    MachinesServed
    ImagesOneFamily
    RolesConfigured
    RendersAsApplied
PROPERTIES
    ImagesPreserved
