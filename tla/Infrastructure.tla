--------------------------- MODULE Infrastructure ---------------------------
(***************************************************************************)
(* What an apply makes of its input file: the infrastructure of a cluster  *)
(* and the configuration of its roles.  The provider is AWS, or Azure,     *)
(* whose machines and network (AzureInfrastructure) never meet the images  *)
(* of the machines (OsImages), and what Ansible runs with (Configuration)  *)
(* meets neither: part says which of the four is looked at, the others     *)
(* stay as they are.                                                       *)
(***************************************************************************)
EXTENDS Naturals, Sequences, FiniteSets

CONSTANTS
    Order,                                  \* the components, in their order
    Pools, Rules, None,
    AwsFiles, Zones, KeyNames,              \* AwsInfrastructure
    AzureFiles, AvailabilitySets,           \* AzureInfrastructure
    Distros, WithCloudConfig,
    DefinitionOrder, ImageNames, Distro, DefaultImage,  \* OsImages
    ApplyFiles, UpgradeFiles, ConfiguredOrder, Roles, shared, masterRole, repository, imageRegistry,
    UpgradeRoles, ManifestRoles, Hosts, DocumentNames, Specs, Storages, MaxRuns   \* Configuration

VARIABLES
    part,
    wFile, wPhase, wIndex, wDocs, wWork, wState, wMachines, wDrawn,
    zFile, zPhase, zIndex, zNsg, zDocs, zCopied,
    iManifest, iCloud, iBuilt, iDocs, iPc, iHappened,
    cFile, cConf, cIndex, cFeature, cManifest, cInventory, cBackup, cVars, cTodo, cPhase, cRuns, cRan

wVars == <<wFile, wPhase, wIndex, wDocs, wWork, wState, wMachines, wDrawn>>
zVars == <<zFile, zPhase, zIndex, zNsg, zDocs, zCopied>>
iVars == <<iManifest, iCloud, iBuilt, iDocs, iPc, iHappened>>
cState == <<cFile, cConf, cIndex, cFeature, cManifest, cInventory, cBackup, cVars, cTodo, cPhase, cRuns, cRan>>

W == INSTANCE AwsInfrastructure WITH
       InputFiles <- AwsFiles, file <- wFile, phase <- wPhase, index <- wIndex, docs <- wDocs,
       work <- wWork, state <- wState, machines <- wMachines, drawn <- wDrawn

Z == INSTANCE AzureInfrastructure WITH
       InputFiles <- AzureFiles, Sets <- AvailabilitySets, file <- zFile, phase <- zPhase,
       index <- zIndex, nsg <- zNsg, docs <- zDocs, copied <- zCopied

I == INSTANCE OsImages WITH
       Order <- DefinitionOrder, Images <- ImageNames, manifest <- iManifest, cloud <- iCloud,
       built <- iBuilt, docs <- iDocs, pc <- iPc, happened <- iHappened

C == INSTANCE Configuration WITH
       InputFiles <- ApplyFiles, Order <- ConfiguredOrder, Kinds <- Roles, master <- masterRole,
       Machines <- Hosts, Names <- DocumentNames, file <- cFile, conf <- cConf, index <- cIndex,
       feature <- cFeature, manifest <- cManifest, inventory <- cInventory, backup <- cBackup,
       vars <- cVars, todo <- cTodo, phase <- cPhase, runs <- cRuns, ran <- cRan

ASSUME AwsAssumption == W!Assumption
ASSUME AzureAssumption == Z!Assumption
ASSUME ImagesAssumption == I!Assumption
ASSUME ConfigurationAssumption == C!Assumption

-----------------------------------------------------------------------------
Init ==
    /\ part \in {"aws", "azure", "images", "configuration"}
    /\ W!Init /\ Z!Init /\ I!Init /\ C!Init
    /\ part # "aws" => wFile = CHOOSE f \in AwsFiles : TRUE
    /\ part # "azure" => zFile = CHOOSE f \in AzureFiles : TRUE

Aws == part = "aws" /\ W!Next /\ UNCHANGED <<part, zVars, iVars, cState>>
Azure == part = "azure" /\ Z!Next /\ UNCHANGED <<part, wVars, iVars, cState>>
Images == part = "images" /\ I!Next /\ UNCHANGED <<part, wVars, zVars, cState>>
Configuring == part = "configuration" /\ C!Next /\ UNCHANGED <<part, wVars, zVars, iVars>>

Next == Aws \/ Azure \/ Images \/ Configuring

vars == <<part, wVars, zVars, iVars, cState>>
Spec == Init /\ [][Next]_vars

-----------------------------------------------------------------------------
(* The properties the modules state.                                       *)

(* One subnet and one group for an address pool, with all the rules its    *)
(* components want and no other.                                           *)
AwsNetworks == W!TypeOK /\ W!PoolsShared /\ W!RulesExact

(* The key pair of the machines is that of Terraform's state, over applies *)
(* and deletes that fail half way.                                         *)
AwsKeyReused == W!KeyReused

(* An interface is in the group of its subnet.                             *)
AzureInterfacesInGroup == Z!TypeOK /\ Z!InterfacesInGroup

(* What a document refers to is built, once, and a name fits what it is    *)
(* the name of.                                                            *)
ResourcesFit == W!ReferencesResolve /\ Z!ReferencesResolve /\ Z!AccountNameFits

(* Machines reach the storage they mount, and find the file they read when *)
(* they start.                                                             *)
MachinesServed == W!StorageReachable /\ Z!CustomDataThere

(* The manifest tells the images of the machines, which are of one family. *)
ImagesOneFamily == I!TypeOK /\ I!ManifestTellsImages /\ I!CloudOneFamily

(* No machine is replaced because of its image.                            *)
ImagesPreserved == I!ImagesPreserved

(* When playbooks start, a role has the document its component selected,   *)
(* is listed as having one, and runs on the machines of its components.    *)
RolesConfigured == C!TypeOK /\ C!VarsListed /\ C!RolesHaveVars /\ C!GroupsExact

(* An upgrade renders from the documents the apply gave the roles.         *)
RendersAsApplied == C!RendersAsApplied
=============================================================================
