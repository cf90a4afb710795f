------------------------------ MODULE OsImages ------------------------------
(***************************************************************************)
(* The operating system images of a cluster's machines over several runs   *)
(* of `lambdastack apply`.  A VM definition names the image of all the     *)
(* machines that use it; changing the image of a machine makes Terraform   *)
(* replace it, so the InfrastructureBuilder looks the image up in the      *)
(* manifest that the last run, finished or not, left behind and keeps it.  *)
(* assert_consistent_os_family then refuses a cluster of several Linux     *)
(* distributions, but only after the manifest has been saved.              *)
(*                                                                         *)
(* AllIrregular names what makes the lookup keep the wrong image; as long  *)
(* as nothing of it has happened no machine changes its image.             *)
(***************************************************************************)
EXTENDS Naturals, Sequences

CONSTANTS
    Order,          \* the VM definitions, in the order their documents are written
                    \* in an input file
    Images,
    Distro,         \* image -> Linux distribution
    DefaultImage    \* image of a definition that has no document

AllIrregular ==
    {"mixed_images",     \* the images of one input file differ
     "unused_document",  \* a VM document no component uses
     "torn_manifest"}    \* the process dies while it writes the manifest

Definitions == {Order[i] : i \in DOMAIN Order}
Partial(S, T) == UNION {[D -> T] : D \in SUBSET S}
Nothing == [d \in {} |-> DefaultImage]

\* What is assumed of the constants (MCInfrastructure).
Assumption == Order \in Seq(Definitions) /\ Order # <<>> /\ DefaultImage \in Images

(***************************************************************************)
(* An input file: the VM documents written in it, the definitions its      *)
(* components use, the one of the first component that has machines, and   *)
(* default_os_image, which goes over the images of all definitions used    *)
(* ("default" leaves them alone).                                          *)
(***************************************************************************)
Wanted(c, d) ==
    IF c.osImage # "default" THEN c.osImage
    ELSE IF d \in DOMAIN c.written THEN c.written[d] ELSE DefaultImage

\* The same, before an image of an earlier run is put in its place.
Requested(c) ==
    {Wanted(c, d) : d \in c.used} \cup {c.written[d] : d \in DOMAIN c.written \ c.used}

InputFiles ==
    {c \in [written : Partial(Definitions, Images),
            used    : SUBSET Definitions,
            lead    : Definitions,
            osImage : Images \cup {"default"}] : c.lead \in c.used}

Irregularities(c) ==
    {i \in AllIrregular :
        \/ i = "mixed_images" /\ \E x, y \in Requested(c) : x # y
        \/ i = "unused_document" /\ ~(DOMAIN c.written \subseteq c.used)}

VARIABLES
    manifest,       \* VM documents of manifest.yml: images, and the first document
    cloud,          \* definition -> image of its machines that exist
    built,          \* VM documents the running apply builds, component by component
    docs,           \* those it saves first, behind the ones of its input file
    pc,
    happened        \* history: irregularities so far

vars == <<manifest, cloud, built, docs, pc, happened>>

NoDocs == [images |-> Nothing, first |-> Order[1]]
Documents == [images : Partial(Definitions, Images), first : Definitions]

TypeOK ==
    /\ manifest \in Documents
    /\ manifest.images = Nothing \/ manifest.first \in DOMAIN manifest.images
    /\ cloud \in Partial(Definitions, Images)
    /\ built \in Documents
    /\ docs \in Documents
    /\ pc \in {"idle", "save_manifest", "check", "terraform"}
    /\ happened \subseteq AllIrregular

Init ==
    /\ manifest = NoDocs
    /\ cloud = Nothing
    /\ built = NoDocs
    /\ docs = NoDocs
    /\ pc = "idle"
    /\ happened = {}
-----------------------------------------------------------------------------
PreservedOwnOnly(c, d) ==       \* slip: a definition the manifest lacks gets what it wants
    IF d \in DOMAIN manifest.images THEN manifest.images[d] ELSE Wanted(c, d)

\* The image of definition d: as wanted, unless the manifest knows better.
Preserved(c, d) ==
    LET want == Wanted(c, d)
        old  == manifest.images
    IN  IF old = Nothing \/ want = old[manifest.first] THEN want
        ELSE IF d \in DOMAIN old THEN old[d]
        ELSE old[manifest.first]

\* The builder goes over the components in their order.
InfrastructureDocs(c) == [images |-> [d \in c.used |-> Preserved(c, d)], first |-> c.lead]

FirstWritten(c) ==
    Order[CHOOSE i \in DOMAIN Order :
             /\ Order[i] \in DOMAIN c.written
             /\ \A j \in 1..(i - 1) : Order[j] \notin DOMAIN c.written]

\* The input documents, those the builder changed included, then what it built.
DocsToSave(c) ==
    [images |-> [d \in DOMAIN c.written \cup c.used |->
                    IF d \in c.used THEN Preserved(c, d) ELSE c.written[d]],
     first  |-> IF c.written = Nothing THEN c.lead ELSE FirstWritten(c)]

OneFamily(vms) == \A d, e \in DOMAIN vms : Distro[vms[d]] = Distro[vms[e]]

StartApply(c) ==
    /\ pc = "idle"
    /\ built' = InfrastructureDocs(c)
    /\ docs' = DocsToSave(c)
    /\ pc' = "save_manifest"
    /\ happened' = happened \cup Irregularities(c)
    /\ UNCHANGED <<manifest, cloud>>

\* What a run has built is gone with its process.
EndRun ==
    /\ pc' = "idle"
    /\ built' = NoDocs
    /\ docs' = NoDocs

SaveManifest ==
    /\ pc = "save_manifest"
    /\ manifest' = docs
    /\ pc' = "check"
    /\ UNCHANGED <<cloud, built, docs, happened>>

AssertNoOsFamily ==             \* slip: several distributions are only warned about
    /\ pc = "check"
    /\ pc' = "terraform"
    /\ UNCHANGED <<manifest, cloud, built, docs, happened>>

AssertConsistentOsFamily ==
    /\ pc = "check"
    /\ IF OneFamily(built.images) THEN pc' = "terraform" /\ UNCHANGED <<built, docs>>
                           ELSE EndRun
    /\ UNCHANGED <<manifest, cloud, happened>>

\* Terraform creates the machines of a definition, or replaces them.
TerraformApply(d) ==
    /\ pc = "terraform"
    /\ d \in DOMAIN built.images
    /\ d \in DOMAIN cloud => cloud[d] # built.images[d]
    /\ cloud' = [e \in DOMAIN cloud \cup {d} |-> IF e = d THEN built.images[d] ELSE cloud[e]]
    /\ UNCHANGED <<manifest, built, docs, pc, happened>>

TerraformDestroy(d) ==
    /\ pc = "terraform"
    /\ d \in DOMAIN cloud \ DOMAIN built.images
    /\ cloud' = [e \in DOMAIN cloud \ {d} |-> cloud[e]]
    /\ UNCHANGED <<manifest, built, docs, pc, happened>>

\* The second save_manifest writes the configuration and what was built, the
\* first component's VM document in front; those of the input file are left out.
FinishApply ==
    /\ pc = "terraform"
    /\ cloud = built.images
    /\ manifest' = built
    /\ EndRun
    /\ UNCHANGED <<cloud, happened>>

\* A manifest cut off reads as one without documents.
Crash ==
    /\ pc # "idle"
    /\ EndRun
    /\ \/ UNCHANGED <<manifest, happened>>
       \/ /\ pc = "save_manifest" \/ (pc = "terraform" /\ cloud = built.images)
          /\ manifest' = NoDocs
          /\ happened' = happened \cup {"torn_manifest"}
    /\ UNCHANGED cloud

Next ==
    \/ \E c \in InputFiles : StartApply(c)
    \/ SaveManifest
    \/ AssertConsistentOsFamily
    \/ \E d \in Definitions : TerraformApply(d) \/ TerraformDestroy(d)
    \/ FinishApply
    \/ Crash

Spec == Init /\ [][Next]_vars
-----------------------------------------------------------------------------
(***************************************************************************)
(* No apply replaces machines by machines of another image, as long as     *)
(* every input file asked for one image, whichever, and none of the saves  *)
(* was cut off: "Preserving the existing OS image used for VM definition"  *)
(* (azure/InfrastructureBuilder.py:253).                                   *)
(***************************************************************************)
ImagesPreserved ==
    [][happened = {} =>
          \A d \in DOMAIN cloud \cap DOMAIN cloud' : cloud'[d] = cloud[d]]_vars

(***************************************************************************)
(* The manifest, saved long before the machines are made, tells the images *)
(* of the machines there are, whatever runs were cut off in between.       *)
(***************************************************************************)
ManifestTellsImages ==
    happened = {} =>
        \A d \in DOMAIN cloud :
            /\ d \in DOMAIN manifest.images => manifest.images[d] = cloud[d]
            /\ d \notin DOMAIN manifest.images => manifest.images[manifest.first] = cloud[d]

(***************************************************************************)
(* The machines there are run one distribution ("lsrepo will not work      *)
(* properly" otherwise, ApplyEngine.py:161), also after refused runs have  *)
(* left their mixed images in the manifest, unless the manifest was torn   *)
(* or led by a document that no component uses.                            *)
(***************************************************************************)
CloudOneFamily == happened \subseteq {"mixed_images"} => OneFamily(cloud)
=============================================================================
