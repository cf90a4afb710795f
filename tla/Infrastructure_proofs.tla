------------------------ MODULE Infrastructure_proofs -----------------------
(***************************************************************************)
(* What holds of the infrastructure and the configuration for any input    *)
(* files, components, pools, images and roles, each from an inductive      *)
(* invariant of its part:                                                  *)
(*                                                                         *)
(*   ImagesInv      the manifest has one image, or one family of them;     *)
(*   AzureInv       nsg is the group of the pool at hand;                  *)
(*   AzureLinked    what the documents on Azure refer to is there;         *)
(*   KeyInv         a run has the key of Terraform's state;                *)
(*   NetworkInv     what the components that are done have been given;     *)
(*   ReferencesInv  what the documents on AWS refer to is there, once;     *)
(*   ConfigurationInv  what has been appended, written and saved so far.   *)
(***************************************************************************)
EXTENDS Infrastructure, SequenceTheorems, FiniteSetTheorems, WellFoundedInduction, TLAPS

-----------------------------------------------------------------------------
(***************************************************************************)
(* A step of the whole is one of the part that is looked at and leaves the *)
(* others as they are.                                                     *)
(***************************************************************************)
LEMMA StepOfParts ==
  ASSUME [Next]_vars
  PROVE  [W!Next]_(W!vars) /\ [Z!Next]_(Z!vars) /\ [I!Next]_(I!vars) /\ [C!Next]_(C!state)
<1>1. CASE Aws
  BY <1>1 DEF Aws, zVars, iVars, cState, Z!vars, I!vars, C!state
<1>2. CASE Azure
  BY <1>2 DEF Azure, wVars, iVars, cState, W!vars, I!vars, C!state
<1>3. CASE Images
  BY <1>3 DEF Images, wVars, zVars, cState, W!vars, Z!vars, C!state
<1>4. CASE Configuring
  BY <1>4 DEF Configuring, wVars, zVars, iVars, W!vars, Z!vars, I!vars
<1>5. CASE UNCHANGED vars
  BY <1>5 DEF vars, wVars, zVars, iVars, cState, W!vars, Z!vars, I!vars, C!state
<1> QED
  BY <1>1, <1>2, <1>3, <1>4, <1>5 DEF Next

(* A function on the first numbers is a sequence.                          *)
LEMMA IsSeq ==
  ASSUME NEW T, NEW n \in Nat, NEW f \in [1..n -> T]
  PROVE  f \in Seq(T) /\ Len(f) = n
<1>1. f \in Seq(T)
  BY SeqDef
<1> QED
  BY <1>1, LenProperties

(* A non-empty set of numbers has a smallest one.                          *)
LEMMA Smallest ==
  ASSUME NEW S \in SUBSET Nat, S # {}
  PROVE  \E n \in S : \A k \in S : n <= k
<1>1. PICK n \in S : \A k \in S : <<k, n>> \notin OpToRel(<, Nat)
  BY WFMin, NatLessThanWellFounded, Zenon
<1>2. \A k \in S : ~(k < n)
  BY <1>1, Zenon DEF OpToRel
<1> QED
  BY <1>2

-----------------------------------------------------------------------------
(***************************************************************************)
(* The images of the machines.                                             *)
(***************************************************************************)

(* Partial is the set of the functions from a part of S to T.              *)
LEMMA PartialIs ==
  ASSUME NEW S, NEW T, NEW f
  PROVE  f \in I!Partial(S, T) <=> DOMAIN f \subseteq S /\ f \in [DOMAIN f -> T]
  BY DEF I!Partial

(* The image a machine gets is among those there are.                      *)
LEMMA PreservedTyped ==
  ASSUME I!TypeOK, NEW c \in I!InputFiles, NEW d \in c.used
  PROVE  I!Preserved(c, d) \in ImageNames
<1>1. I!Wanted(c, d) \in ImageNames
  BY ImagesAssumption, PartialIs DEF I!Wanted, I!InputFiles, I!Assumption
<1>2. \A e \in DOMAIN iManifest.images : iManifest.images[e] \in ImageNames
  BY PartialIs DEF I!TypeOK, I!Documents
<1>3. iManifest.images = I!Nothing \/ iManifest.first \in DOMAIN iManifest.images
  BY DEF I!TypeOK
<1> QED
  BY <1>1, <1>2, <1>3 DEF I!Preserved

(* What a run saves has an image for each definition, and a first one.     *)
LEMMA SavedTyped ==
  ASSUME I!TypeOK, NEW c \in I!InputFiles
  PROVE  /\ I!DocsToSave(c) \in I!Documents
         /\ I!DocsToSave(c).first \in DOMAIN I!DocsToSave(c).images
         /\ I!InfrastructureDocs(c) \in I!Documents
         /\ I!InfrastructureDocs(c).first \in DOMAIN I!InfrastructureDocs(c).images
<1> DEFINE places   == {i \in DOMAIN DefinitionOrder : DefinitionOrder[i] \in DOMAIN c.written}
           images   == [d \in DOMAIN c.written \cup c.used |->
                          IF d \in c.used THEN I!Preserved(c, d) ELSE c.written[d]]
           made     == [d \in c.used |-> I!Preserved(c, d)]
           first    == IF c.written = I!Nothing THEN c.lead ELSE I!FirstWritten(c)
<1>1. /\ c.used \subseteq I!Definitions /\ c.lead \in c.used
      /\ DOMAIN c.written \subseteq I!Definitions /\ c.written \in [DOMAIN c.written -> ImageNames]
  BY PartialIs DEF I!InputFiles
<1>2. DefinitionOrder \in Seq(I!Definitions) /\ DOMAIN DefinitionOrder = 1..Len(DefinitionOrder)
      /\ Len(DefinitionOrder) \in Nat
  BY ImagesAssumption DEF I!Assumption
<1>3. ASSUME c.written # I!Nothing
      PROVE  I!FirstWritten(c) \in DOMAIN c.written
  <2>1. DOMAIN c.written # {}
    BY <1>1, <1>3 DEF I!Nothing
  <2>2. places \in SUBSET Nat /\ places # {}
    BY <1>1, <1>2, <2>1 DEF I!Definitions
  <2>3. PICK n \in places : \A k \in places : n <= k
    BY <2>2, Smallest
  <2>4. n \in DOMAIN DefinitionOrder /\ DefinitionOrder[n] \in DOMAIN c.written /\ n \in Nat
    BY <1>2, <2>2
  <2>5. ASSUME NEW j \in 1..(n - 1), DefinitionOrder[j] \in DOMAIN c.written
        PROVE  FALSE
    <3>1. j \in places /\ j < n
      BY <1>2, <2>4, <2>5
    <3> QED
      BY <1>2, <2>3, <2>4, <2>5, <3>1
  <2> QED
    BY <2>4, <2>5 DEF I!FirstWritten
<1>4. first \in DOMAIN c.written \cup c.used
  BY <1>1, <1>3
<1>5. images \in I!Partial(I!Definitions, ImageNames)
  BY <1>1, PreservedTyped, PartialIs
<1>6. made \in I!Partial(I!Definitions, ImageNames)
  BY <1>1, PreservedTyped, PartialIs
<1>7. DOMAIN images = DOMAIN c.written \cup c.used /\ DOMAIN made = c.used
  OBVIOUS
<1>8. I!DocsToSave(c) = [images |-> images, first |-> first]
  BY DEF I!DocsToSave
<1>9. I!InfrastructureDocs(c) = [images |-> made, first |-> c.lead]
  BY DEF I!InfrastructureDocs
<1> HIDE DEF images, made, first
<1> QED
  BY <1>1, <1>4, <1>5, <1>6, <1>7, <1>8, <1>9 DEF I!Documents

(* As long as every input file asked for one image, the manifest has one   *)
(* image only, which is that of the machines there are and of those a run  *)
(* is about to make.                                                       *)
OneImage ==
    iHappened = {} =>
        /\ \A d \in DOMAIN iManifest.images :
              iManifest.images[d] = iManifest.images[iManifest.first]
        /\ \A d \in DOMAIN iCloud :
              /\ iManifest.images # I!Nothing
              /\ iCloud[d] = iManifest.images[iManifest.first]
        /\ iPc # "idle" =>
              /\ \A d \in DOMAIN iDocs.images : iDocs.images[d] = iDocs.images[iDocs.first]
              /\ iManifest.images # I!Nothing =>
                    iDocs.images[iDocs.first] = iManifest.images[iManifest.first]
              /\ iDocs.images = iBuilt.images

(* Input files of mixed images have their manifest saved and are refused   *)
(* then: once there are machines, their family is that of the manifest.    *)
FamilyKnown ==
    iHappened \subseteq {"mixed_images"} =>
        /\ \A d \in DOMAIN iCloud :
              /\ iManifest.images # I!Nothing
              /\ \A e \in DOMAIN iManifest.images :
                    Distro[iCloud[d]] = Distro[iManifest.images[e]]
        /\ I!OneFamily(iCloud)
        /\ iPc = "save_manifest" =>
              \A d \in DOMAIN iCloud, e \in DOMAIN iBuilt.images :
                 Distro[iCloud[d]] = Distro[iBuilt.images[e]]
        /\ iPc # "idle" => iDocs.images = iBuilt.images

(* What a run at work has built and saved.                                 *)
AtWork ==
    /\ iPc # "idle" => /\ iDocs.first \in DOMAIN iDocs.images
                       /\ iBuilt.first \in DOMAIN iBuilt.images
    /\ iPc \in {"check", "terraform"} => iManifest = iDocs
    /\ iPc = "terraform" => I!OneFamily(iBuilt.images)

ImagesInv == I!TypeOK /\ AtWork /\ OneImage /\ FamilyKnown

(* With nothing irregular, a run keeps to the image of the manifest.       *)
LEMMA OneImageKept ==
  ASSUME ImagesInv, NEW c \in I!InputFiles, iHappened = {}, I!Irregularities(c) = {}
  PROVE  LET s == I!DocsToSave(c)
         IN  /\ \A d \in DOMAIN s.images : s.images[d] = s.images[s.first]
             /\ iManifest.images # I!Nothing =>
                   s.images[s.first] = iManifest.images[iManifest.first]
             /\ s.images = I!InfrastructureDocs(c).images
<1> DEFINE s == I!DocsToSave(c)
<1>1. /\ \A x, y \in I!Requested(c) : x = y
      /\ DOMAIN c.written \subseteq c.used
  BY DEF I!Irregularities, I!AllIrregular
<1>2. \A d, e \in c.used : I!Wanted(c, d) = I!Wanted(c, e)
  BY <1>1 DEF I!Requested
<1>3. DOMAIN s.images = c.used /\ \A d \in c.used : s.images[d] = I!Preserved(c, d)
  BY <1>1 DEF I!DocsToSave
<1>4. s.images = I!InfrastructureDocs(c).images
  <2>1. s.images = [d \in c.used |-> I!Preserved(c, d)]
    BY <1>1 DEF I!DocsToSave
  <2> QED
    BY <2>1 DEF I!InfrastructureDocs
<1>5. s.first \in c.used
  BY <1>3, SavedTyped DEF ImagesInv
<1> HIDE DEF s
<1>6. /\ \A d, e \in c.used : I!Preserved(c, d) = I!Preserved(c, e)
      /\ iManifest.images # I!Nothing =>
            \A d \in c.used : I!Preserved(c, d) = iManifest.images[iManifest.first]
  <2>1. CASE iManifest.images = I!Nothing
    <3>1. \A d \in c.used : I!Preserved(c, d) = I!Wanted(c, d)
      BY <2>1 DEF I!Preserved
    <3> QED
      BY <1>2, <2>1, <3>1
  <2>2. CASE iManifest.images # I!Nothing
    <3>1. \A d \in DOMAIN iManifest.images :
            iManifest.images[d] = iManifest.images[iManifest.first]
      BY DEF ImagesInv, OneImage
    <3>2. \A d \in c.used : I!Preserved(c, d) = iManifest.images[iManifest.first]
      BY <2>2, <3>1 DEF I!Preserved
    <3> QED
      BY <3>2
  <2> QED
    BY <2>1, <2>2
<1>7. /\ \A d \in DOMAIN s.images : s.images[d] = s.images[s.first]
      /\ iManifest.images # I!Nothing =>
            s.images[s.first] = iManifest.images[iManifest.first]
  BY <1>3, <1>5, <1>6
<1> QED
  BY <1>4, <1>7 DEF s

(* With mixed images, it keeps to the family of the machines there are.    *)
LEMMA FamilyKept ==
  ASSUME ImagesInv, NEW c \in I!InputFiles,
         iHappened \cup I!Irregularities(c) \subseteq {"mixed_images"}
  PROVE  /\ I!DocsToSave(c).images = I!InfrastructureDocs(c).images
         /\ \A d \in DOMAIN iCloud, e \in DOMAIN I!InfrastructureDocs(c).images :
               Distro[iCloud[d]] = Distro[I!InfrastructureDocs(c).images[e]]
<1>1. DOMAIN c.written \subseteq c.used
  BY DEF I!Irregularities, I!AllIrregular
<1>2. I!DocsToSave(c).images = [d \in c.used |-> I!Preserved(c, d)]
  BY <1>1 DEF I!DocsToSave
<1>3. ASSUME NEW d \in DOMAIN iCloud, NEW e \in c.used
      PROVE  Distro[iCloud[d]] = Distro[I!Preserved(c, e)]
  <2>1. /\ iManifest.images # I!Nothing
        /\ \A i \in DOMAIN iManifest.images : Distro[iCloud[d]] = Distro[iManifest.images[i]]
    BY DEF ImagesInv, FamilyKnown
  <2>2. iManifest.first \in DOMAIN iManifest.images
    BY <2>1 DEF ImagesInv, I!TypeOK
  <2> QED
    BY <2>1, <2>2 DEF I!Preserved
<1> QED
  BY <1>2, <1>3 DEF I!InfrastructureDocs

(* A manifest without documents.                                           *)
LEMMA NothingIs ==
  /\ DOMAIN I!Nothing = {}
  /\ \A S, T : I!Nothing \in I!Partial(S, T)
  BY PartialIs DEF I!Nothing

(* A run starts without documents.                                         *)
LEMMA NoDocsTyped == I!NoDocs \in I!Documents /\ I!NoDocs.images = I!Nothing
<1>1. DefinitionOrder[1] \in I!Definitions
  BY ImagesAssumption DEF I!Assumption, I!Definitions
<1> QED
  BY <1>1, NothingIs DEF I!NoDocs, I!Documents

(* The invariant holds to begin with,                                      *)
LEMMA ImagesInit ==
  ASSUME I!Init
  PROVE  ImagesInv
<1>1. I!TypeOK
  BY NothingIs, NoDocsTyped DEF I!Init, I!TypeOK
<1> QED
  BY <1>1, NothingIs, NoDocsTyped
  DEF I!Init, ImagesInv, AtWork, OneImage, FamilyKnown, I!OneFamily

(* and no step of a run, cut off or not, breaks it.                        *)
LEMMA ImagesNext ==
  ASSUME ImagesInv, [I!Next]_(I!vars)
  PROVE  ImagesInv'
<1>0. I!TypeOK /\ AtWork /\ OneImage /\ FamilyKnown
  BY DEF ImagesInv
<1>1. ASSUME NEW c \in I!InputFiles, I!StartApply(c)
      PROVE  ImagesInv'
  <2>1. I!TypeOK'
    BY <1>0, <1>1, SavedTyped DEF I!StartApply, I!TypeOK, I!Irregularities, I!AllIrregular
  <2>2. AtWork'
    BY <1>0, <1>1, SavedTyped DEF I!StartApply, AtWork
  <2>3. OneImage'
    <3> SUFFICES ASSUME iHappened' = {} PROVE OneImage'
      BY DEF OneImage
    <3>1. iHappened = {} /\ I!Irregularities(c) = {}
      BY <1>1 DEF I!StartApply
    <3> QED
      BY <1>0, <1>1, <3>1, OneImageKept DEF I!StartApply, OneImage, ImagesInv
  <2>4. FamilyKnown'
    <3> SUFFICES ASSUME iHappened' \subseteq {"mixed_images"} PROVE FamilyKnown'
      BY DEF FamilyKnown
    <3>1. iHappened \cup I!Irregularities(c) \subseteq {"mixed_images"}
      BY <1>1 DEF I!StartApply
    <3> QED
      BY <1>0, <1>1, <3>1, FamilyKept DEF I!StartApply, FamilyKnown, ImagesInv, I!OneFamily
  <2> QED
    BY <2>1, <2>2, <2>3, <2>4 DEF ImagesInv
<1>2. CASE I!SaveManifest
  <2>1. I!TypeOK'
    BY <1>0, <1>2 DEF I!SaveManifest, I!TypeOK, AtWork
  <2>2. AtWork'
    BY <1>0, <1>2 DEF I!SaveManifest, AtWork
  <2>3. iDocs.images # I!Nothing
    BY <1>0, <1>2, NothingIs DEF I!SaveManifest, AtWork
  <2>4. OneImage'
    BY <1>0, <1>2, <2>3 DEF I!SaveManifest, OneImage
  <2>5. FamilyKnown'
    BY <1>0, <1>2, <2>3 DEF I!SaveManifest, FamilyKnown, I!OneFamily
  <2> QED
    BY <2>1, <2>2, <2>4, <2>5 DEF ImagesInv
<1>3. CASE I!AssertConsistentOsFamily
  <2>1. I!TypeOK'
    BY <1>0, <1>3, NoDocsTyped, NothingIs DEF I!AssertConsistentOsFamily, I!EndRun, I!TypeOK
  <2>2. AtWork'
    BY <1>0, <1>3 DEF I!AssertConsistentOsFamily, I!EndRun, AtWork, I!OneFamily
  <2>3. OneImage'
    BY <1>0, <1>3 DEF I!AssertConsistentOsFamily, I!EndRun, OneImage
  <2>4. FamilyKnown'
    BY <1>0, <1>3 DEF I!AssertConsistentOsFamily, I!EndRun, FamilyKnown, I!OneFamily
  <2> QED
    BY <2>1, <2>2, <2>3, <2>4 DEF ImagesInv
<1>4. ASSUME NEW d \in I!Definitions, I!TerraformApply(d)
      PROVE  ImagesInv'
  <2>1. /\ DOMAIN iCloud' = DOMAIN iCloud \cup {d} /\ d \in DOMAIN iBuilt.images
        /\ \A e \in DOMAIN iCloud' : iCloud'[e] = IF e = d THEN iBuilt.images[d] ELSE iCloud[e]
        /\ iPc = "terraform" /\ UNCHANGED <<iManifest, iBuilt, iDocs, iPc, iHappened>>
    BY <1>4 DEF I!TerraformApply
  <2>2. iCloud' \in I!Partial(I!Definitions, ImageNames)
    <3>1. /\ DOMAIN iCloud \subseteq I!Definitions /\ iCloud \in [DOMAIN iCloud -> ImageNames]
          /\ iBuilt.images \in [DOMAIN iBuilt.images -> ImageNames]
      BY <1>0, PartialIs DEF I!TypeOK, I!Documents
    <3>2. iCloud' \in [DOMAIN iCloud \cup {d} -> ImageNames]
      BY <1>4, <2>1, <3>1 DEF I!TerraformApply
    <3> QED
      BY <3>1, <3>2, PartialIs
  <2>3. I!TypeOK'
    BY <1>0, <2>1, <2>2 DEF I!TypeOK
  <2>4. AtWork'
    BY <1>0, <2>1 DEF AtWork, I!OneFamily
  <2>5. iHappened \subseteq {"mixed_images"} => iManifest.images = iBuilt.images
    BY <1>0, <2>1 DEF AtWork, FamilyKnown
  <2>6. iManifest.images # I!Nothing
    BY <1>0, <2>1, NothingIs DEF AtWork
  <2>7. OneImage'
    BY <1>0, <2>1, <2>5, <2>6 DEF OneImage
  <2>8. FamilyKnown'
    BY <1>0, <2>1, <2>5, <2>6 DEF FamilyKnown, AtWork, I!OneFamily
  <2> QED
    BY <2>3, <2>4, <2>7, <2>8 DEF ImagesInv
<1>5. ASSUME NEW d \in I!Definitions, I!TerraformDestroy(d)
      PROVE  ImagesInv'
  <2>1. /\ DOMAIN iCloud' = DOMAIN iCloud \ {d}
        /\ \A e \in DOMAIN iCloud' : iCloud'[e] = iCloud[e]
        /\ UNCHANGED <<iManifest, iBuilt, iDocs, iPc, iHappened>>
    BY <1>5 DEF I!TerraformDestroy
  <2>2. iCloud' \in I!Partial(I!Definitions, ImageNames)
    BY <1>0, <1>5, PartialIs DEF I!TypeOK, I!TerraformDestroy
  <2>3. I!TypeOK'
    BY <1>0, <2>1, <2>2 DEF I!TypeOK
  <2>4. AtWork' /\ OneImage'
    BY <1>0, <2>1 DEF AtWork, OneImage, I!OneFamily
  <2>5. FamilyKnown'
    BY <1>0, <2>1 DEF FamilyKnown, I!OneFamily
  <2> QED
    BY <2>3, <2>4, <2>5 DEF ImagesInv
<1>6. CASE I!FinishApply
  <2>1. /\ iManifest' = iBuilt /\ iPc = "terraform" /\ iCloud = iBuilt.images
        /\ iPc' = "idle" /\ iBuilt' = I!NoDocs /\ iDocs' = I!NoDocs
        /\ UNCHANGED <<iCloud, iHappened>>
    BY <1>6 DEF I!FinishApply, I!EndRun
  <2>2. iBuilt.first \in DOMAIN iBuilt.images /\ iManifest = iDocs /\ iBuilt.images # I!Nothing
    BY <1>0, <2>1, NothingIs DEF AtWork
  <2>3. I!TypeOK' /\ AtWork'
    BY <1>0, <2>1, <2>2, NoDocsTyped, NothingIs DEF I!TypeOK, AtWork
  <2>4. OneImage'
    <3> SUFFICES ASSUME iHappened = {} PROVE OneImage'
      BY <2>1 DEF OneImage
    <3>1. \A d, e \in DOMAIN iBuilt.images : iBuilt.images[d] = iBuilt.images[e]
      BY <1>0, <2>1 DEF OneImage
    <3> QED
      BY <2>1, <2>2, <3>1 DEF OneImage
  <2>5. FamilyKnown'
    BY <1>0, <2>1, <2>2 DEF FamilyKnown, AtWork, I!OneFamily
  <2> QED
    BY <2>3, <2>4, <2>5 DEF ImagesInv
<1>7. CASE I!Crash
  <2>1. /\ iPc' = "idle" /\ iBuilt' = I!NoDocs /\ iDocs' = I!NoDocs /\ iCloud' = iCloud
        /\ \/ UNCHANGED <<iManifest, iHappened>>
           \/ iManifest' = I!NoDocs /\ iHappened' = iHappened \cup {"torn_manifest"}
    BY <1>7 DEF I!Crash, I!EndRun
  <2>2. I!TypeOK'
    BY <1>0, <2>1, NoDocsTyped, NothingIs DEF I!TypeOK, I!AllIrregular
  <2>3. AtWork' /\ OneImage'
    BY <1>0, <2>1 DEF AtWork, OneImage
  <2>4. FamilyKnown'
    <3>1. CASE UNCHANGED <<iManifest, iHappened>>
      BY <1>0, <2>1, <3>1 DEF FamilyKnown, I!OneFamily
    <3>2. CASE iHappened' = iHappened \cup {"torn_manifest"}
      <4>1. ~(iHappened' \subseteq {"mixed_images"})
        BY <3>2
      <4> QED
        BY <4>1 DEF FamilyKnown
    <3> QED
      BY <2>1, <3>1, <3>2
  <2> QED
    BY <2>2, <2>3, <2>4 DEF ImagesInv
<1>8. CASE UNCHANGED I!vars
  BY <1>0, <1>8 DEF I!vars, ImagesInv, I!TypeOK, AtWork, OneImage, FamilyKnown, I!OneFamily
<1> QED
  BY <1>1, <1>2, <1>3, <1>4, <1>5, <1>6, <1>7, <1>8 DEF I!Next

(* No machine is made with another image, but in a run of mixed images.    *)
LEMMA ImagesKept ==
  ASSUME ImagesInv, [I!Next]_(I!vars), iHappened = {},
         NEW d \in DOMAIN iCloud \cap DOMAIN iCloud'
  PROVE  iCloud'[d] = iCloud[d]
<1>0. AtWork /\ OneImage /\ FamilyKnown
  BY DEF ImagesInv
<1>1. ASSUME NEW e \in I!Definitions, I!TerraformApply(e)
      PROVE  iCloud'[d] = iCloud[d]
  <2>1. iManifest = iDocs /\ iDocs.images = iBuilt.images /\ e \in DOMAIN iBuilt.images
    BY <1>0, <1>1 DEF I!TerraformApply, AtWork, FamilyKnown
  <2>2. iBuilt.images[e] = iCloud[d]
    BY <1>0, <2>1 DEF OneImage
  <2> QED
    BY <1>1, <2>2 DEF I!TerraformApply
<1>2. ASSUME NEW e \in I!Definitions, I!TerraformDestroy(e)
      PROVE  iCloud'[d] = iCloud[d]
  BY <1>2 DEF I!TerraformDestroy
<1>3. CASE UNCHANGED iCloud
  BY <1>3
<1> QED
  BY <1>1, <1>2, <1>3 DEF I!Next, I!vars, I!StartApply, I!SaveManifest, I!EndRun,
     I!AssertConsistentOsFamily, I!FinishApply, I!Crash

(* So it holds in every behaviour of the whole.                            *)
LEMMA ImagesInvHolds == Spec => []ImagesInv
<1>1. Init => ImagesInv
  BY ImagesInit DEF Init
<1>2. ImagesInv /\ [Next]_vars => ImagesInv'
  BY StepOfParts, ImagesNext
<1> QED
  BY <1>1, <1>2, PTL DEF Spec

(***************************************************************************)
(* The manifest tells the images of the machines there are, and these run  *)
(* one distribution, whatever runs were refused, failed or were cut off.   *)
(***************************************************************************)
THEOREM ImagesOneFamilyCorrect == Spec => []ImagesOneFamily
<1>1. ImagesInv => ImagesOneFamily
  <2> SUFFICES ASSUME ImagesInv PROVE ImagesOneFamily
    OBVIOUS
  <2>1. I!TypeOK
    BY DEF ImagesInv
  <2>2. I!ManifestTellsImages
    BY DEF ImagesInv, OneImage, I!ManifestTellsImages
  <2>3. I!CloudOneFamily
    BY DEF ImagesInv, FamilyKnown, I!CloudOneFamily
  <2> QED
    BY <2>1, <2>2, <2>3 DEF ImagesOneFamily
<1> QED
  BY <1>1, ImagesInvHolds, PTL

(***************************************************************************)
(* No apply replaces a machine by one of another image as long as nothing  *)
(* irregular has happened ("Preserving the existing OS image").            *)
(***************************************************************************)
THEOREM ImagesPreservedCorrect == Spec => ImagesPreserved
<1>1. ImagesInv /\ [Next]_vars =>
        [iHappened = {} => \A d \in DOMAIN iCloud \cap DOMAIN iCloud' : iCloud'[d] = iCloud[d]]_(I!vars)
  BY StepOfParts, ImagesKept
<1> QED
  BY <1>1, ImagesInvHolds, PTL DEF Spec, ImagesPreserved, I!ImagesPreserved

-----------------------------------------------------------------------------
(***************************************************************************)
(* Azure: the groups of the interfaces, and the file machines read.        *)
(***************************************************************************)

(* What an input file says of a component.                                 *)
LEMMA AzureFile ==
  ASSUME zFile \in AzureFiles
  PROVE  /\ zFile \in Z!InputFile
         /\ \A c \in Z!Components :
              LET wish == zFile.components[c]
              IN /\ wish.count \in Nat /\ Head(wish.pools) \in Pools /\ wish.rules \subseteq Rules
                 /\ wish.distro \in Distros /\ wish.set \in AvailabilitySets \cup {None}
<1>1. zFile \in Z!InputFile
  BY AzureAssumption DEF Z!Assumption
<1>2. ASSUME NEW c \in Z!Components
      PROVE  zFile.components[c] \in Z!Component
  BY <1>1, <1>2 DEF Z!InputFile
<1>3. ASSUME NEW c \in Z!Components
      PROVE  Head(zFile.components[c].pools) \in Pools
  <2>1. zFile.components[c].pools \in Seq(Pools) /\ zFile.components[c].pools # <<>>
    BY <1>2, <1>3 DEF Z!Component
  <2> QED
    BY <2>1, HeadTailProperties
<1> QED
  BY <1>1, <1>2, <1>3 DEF Z!Component

(* What is assumed of the order of the components.                         *)
LEMMA AzureOrder ==
  /\ Order \in Seq(Z!Components) /\ DOMAIN Order = 1..Len(Order) /\ Len(Order) \in Nat
  /\ \A i, j \in DOMAIN Order : Order[i] = Order[j] => i = j
  /\ \A i \in DOMAIN Order : Order[i] \in Z!Components
BY AzureAssumption DEF Z!Assumption, Z!Components

AzureShape ==
    zDocs = [account |-> zDocs.account, subnets |-> zDocs.subnets, groups |-> zDocs.groups,
             associations |-> zDocs.associations, sets |-> zDocs.sets,
             addresses |-> zDocs.addresses, interfaces |-> zDocs.interfaces,
             machines |-> zDocs.machines, custom |-> zDocs.custom]

(* The components before the one at hand have had subnets made, each for   *)
(* another pool.                                                           *)
SubnetsMade ==
    /\ \A s \in zDocs.subnets : \E i \in Z!Active :
          i < zIndex /\ s.name = Order[i] /\ s.pool = Z!Pool(i)
    /\ \A s, t \in zDocs.subnets : s.pool = t.pool => s = t
    /\ \A i \in Z!Active : i < zIndex => \E s \in zDocs.subnets : s.pool = Z!Pool(i)
    /\ zFile.groups =>
          \A s \in zDocs.subnets : [subnet |-> s.name, group |-> s.name] \in zDocs.associations

(* As long as the components are of one pool, nsg is the group that was    *)
(* made for it.                                                            *)
NsgOfPool ==
    zFile.groups /\ Z!SideBySide =>
      \A i \in Z!Active, s \in zDocs.subnets :
        /\ i < zIndex /\ s.pool = Z!Pool(i)
        /\ \A j \in Z!Active : i < j /\ j < zIndex => Z!Pool(j) = Z!Pool(i)
        => zNsg = s.name

InGroup ==
    zFile.groups /\ Z!SideBySide =>
      \A n \in zDocs.interfaces : [subnet |-> n.subnet, group |-> n.group] \in zDocs.associations

(* cloud-config.yml is for the first machine, and so for all of them.      *)
CustomOfFirst ==
    /\ zPhase \in {"files", "terraform"} /\ zDocs.machines # <<>> =>
          zDocs.custom = zDocs.machines[1].distro
    /\ Z!CustomDataThere

AzureInv ==
    /\ Z!TypeOK /\ AzureShape /\ CustomOfFirst
    /\ zPhase # "idle" => SubnetsMade /\ NsgOfPool /\ InGroup

(* The invariant holds to begin with,                                      *)
LEMMA AzureInit ==
  ASSUME Z!Init
  PROVE  AzureInv
<1>1. Z!TypeOK
  BY AzureOrder DEF Z!Init, Z!TypeOK, Z!NoDocs
<1> QED
  BY <1>1 DEF Z!Init, AzureInv, AzureShape, CustomOfFirst, Z!CustomDataThere, Z!ToApply, Z!NoDocs

(* What one component adds to the documents is of their kinds.             *)
LEMMA AzureBuiltTyped ==
  ASSUME Z!TypeOK, AzureShape, zPhase = "build", NEW c \in Z!Components,
         zDocs' = Z!Built(c), zFile' = zFile, zPhase' = zPhase, zCopied' = zCopied,
         zIndex' \in 1..Len(Order) + 1, zNsg' \in Z!Components \cup {None}
  PROVE  Z!TypeOK'
<1> DEFINE wish   == zFile.components[c]
           pool   == Head(wish.pools)
           known  == {s \in zDocs.subnets : s.pool = pool}
           subnet == IF known = {} THEN [name |-> c, pool |-> pool] ELSE CHOOSE s \in known : TRUE
           added  == [i \in 1..wish.count |->
                        [name |-> <<c, i>>, interface |-> <<c, i>>, set |-> Z!SetOf(c),
                         distro |-> wish.distro]]
<1>1. /\ wish.count \in Nat /\ pool \in Pools /\ wish.rules \subseteq Rules
      /\ wish.distro \in Distros /\ wish.set \in AvailabilitySets \cup {None}
      /\ zFile.documented \subseteq AvailabilitySets
  BY AzureFile DEF Z!TypeOK, Z!InputFile
<1>2. subnet \in [name : Z!Components, pool : Pools]
  BY <1>1 DEF Z!TypeOK
<1>3. Z!SetOf(c) \in AvailabilitySets \cup {None}
  BY <1>1 DEF Z!SetOf
<1>4. Z!Machines(c) \subseteq Z!MachineName
  BY <1>1 DEF Z!Machines, Z!MachineName
<1>5. Z!GroupInUse(c, known) \in Z!Components \cup {None}
  BY DEF Z!GroupInUse, Z!TypeOK
<1>6. added \in Seq([name : Z!MachineName, interface : Z!MachineName,
                     set : AvailabilitySets \cup {None}, distro : Distros])
  <2>1. \A i \in 1..wish.count :
           added[i] \in [name : Z!MachineName, interface : Z!MachineName,
                         set : AvailabilitySets \cup {None}, distro : Distros]
    BY <1>1, <1>3 DEF Z!MachineName
  <2>2. added \in [1..wish.count ->
                   [name : Z!MachineName, interface : Z!MachineName,
                    set : AvailabilitySets \cup {None}, distro : Distros]]
    BY <2>1, Zenon
  <2> QED
    BY <1>1, <2>2, IsSeq, Zenon
<1> HIDE DEF added
<1>7. zDocs'.machines = zDocs.machines \o added
  BY Zenon DEF Z!Built, AzureShape, added
<1>8. zDocs'.machines \in Seq([name : Z!MachineName, interface : Z!MachineName,
                               set : AvailabilitySets \cup {None}, distro : Distros])
  BY <1>6, <1>7 DEF Z!TypeOK
<1>9. zDocs'.subnets = zDocs.subnets \cup {subnet}
  BY DEF Z!Built, AzureShape
<1>10. zDocs'.groups \subseteq zDocs.groups \cup {[name |-> c, rules |-> wish.rules]}
  BY DEF Z!Built, AzureShape
<1>11. zDocs'.associations \subseteq zDocs.associations \cup {[subnet |-> c, group |-> c]}
  BY DEF Z!Built, AzureShape
<1>12. zDocs'.sets = zDocs.sets \cup ({Z!SetOf(c)} \ {None})
  BY DEF Z!Built, AzureShape
<1>13. zDocs'.addresses \subseteq zDocs.addresses \cup Z!Machines(c)
  BY DEF Z!Built, AzureShape
<1>14. zDocs'.interfaces = zDocs.interfaces \cup
         {[name |-> m, subnet |-> subnet.name, group |-> Z!GroupInUse(c, known),
           address |-> IF zFile.public THEN m ELSE None] : m \in Z!Machines(c)}
  BY DEF Z!Built, AzureShape
<1>15. zDocs'.custom = zDocs.custom
  BY DEF Z!Built, AzureShape
<1> HIDE DEF subnet, known, pool, wish
<1>16. zDocs'.interfaces \subseteq
          [name : Z!MachineName, subnet : Z!Components, group : Z!Components \cup {None},
           address : Z!MachineName \cup {None}]
  BY <1>2, <1>4, <1>5, <1>14 DEF Z!TypeOK
<1> QED
  BY <1>1, <1>2, <1>3, <1>4, <1>8, <1>9, <1>10, <1>11, <1>12, <1>13, <1>15, <1>16 DEF Z!TypeOK

(* The component at hand has its interfaces put in the group of its pool.  *)
LEMMA AzureBuiltInGroup ==
  ASSUME AzureInv, zPhase = "build", zIndex <= Len(Order), zIndex \in Z!Active,
         zDocs' = Z!Built(Order[zIndex]), zFile' = zFile, zIndex' = zIndex + 1,
         zNsg' = IF (~\E s \in zDocs.subnets : s.pool = Z!Pool(zIndex)) /\ zFile.groups
                 THEN Order[zIndex] ELSE zNsg
  PROVE  SubnetsMade' /\ NsgOfPool' /\ InGroup'
<1> DEFINE c      == Order[zIndex]
           pool   == Z!Pool(zIndex)
           known  == {s \in zDocs.subnets : s.pool = pool}
           subnet == IF known = {} THEN [name |-> c, pool |-> pool] ELSE CHOOSE s \in known : TRUE
           new(S) == IF known = {} /\ zFile.groups THEN S ELSE {}
           group  == Z!GroupInUse(c, known)
<1>0. SubnetsMade /\ NsgOfPool /\ InGroup /\ zIndex \in Nat /\ Z!Active \subseteq Nat
      /\ Z!Active' = Z!Active
  <2>1. SubnetsMade /\ NsgOfPool /\ InGroup
    BY DEF AzureInv
  <2>2. zIndex \in 1..(Len(Order) + 1)
    BY DEF AzureInv, Z!TypeOK
  <2>3. Z!Active \subseteq Nat
    BY AzureOrder DEF Z!Active
  <2>4. Z!Active' = Z!Active
    BY DEF Z!Active
  <2> QED
    BY <2>1, <2>2, <2>3, <2>4, AzureOrder
<1>1. zDocs'.subnets = zDocs.subnets \cup {subnet}
  BY Zenon DEF Z!Built, AzureInv, AzureShape, Z!Pool
<1>2. zDocs'.associations = zDocs.associations \cup new({[subnet |-> c, group |-> c]})
  BY Zenon DEF Z!Built, AzureInv, AzureShape, Z!Pool
<1>3. \A n \in zDocs'.interfaces :
         n \in zDocs.interfaces \/ (n.subnet = subnet.name /\ n.group = group)
  <2>1. zDocs'.interfaces = zDocs.interfaces \cup
          {[name |-> m, subnet |-> subnet.name, group |-> group,
            address |-> IF zFile.public THEN m ELSE None] : m \in Z!Machines(c)}
    BY Zenon DEF Z!Built, AzureInv, AzureShape, Z!Pool
  <2> HIDE DEF subnet, group
  <2>2. ASSUME NEW n \in zDocs'.interfaces, n \notin zDocs.interfaces
        PROVE  n.subnet = subnet.name /\ n.group = group
    <3>1. PICK m \in Z!Machines(c) :
            n = [name |-> m, subnet |-> subnet.name, group |-> group,
                 address |-> IF zFile.public THEN m ELSE None]
      BY <2>1, <2>2, Zenon
    <3> QED
      BY <3>1
  <2> QED
    BY <2>2, Zenon
<1>4. known # {} => subnet \in known
  OBVIOUS
<1>5. known = {} => subnet = [name |-> c, pool |-> pool]
  OBVIOUS
<1>6. subnet.pool = pool
  BY <1>4, <1>5
<1>7. \A i \in Z!Active : Z!Pool(i)' = Z!Pool(i)
  BY DEF Z!Pool
<1>8. known # {} => zNsg' = zNsg /\ zDocs'.subnets = zDocs.subnets
  BY <1>1, <1>4
<1>9. known = {} /\ zFile.groups => zNsg' = c
  OBVIOUS
<1>10. \A i \in Z!Active : i < zIndex' <=> i < zIndex \/ i = zIndex
  <2>1. zIndex \in Nat /\ zIndex' = zIndex + 1 /\ Z!Active \subseteq Nat
    BY <1>0
  <2>2. \A i \in Nat : i < zIndex + 1 <=> i < zIndex \/ i = zIndex
    BY <2>1
  <2> QED
    BY <2>1, <2>2, Zenon
<1>11. group = IF ~zFile.groups THEN None ELSE IF known = {} THEN c ELSE zNsg
  BY DEF Z!GroupInUse
<1>20. Z!SideBySide' <=> Z!SideBySide
  BY DEF Z!SideBySide, Z!Active, Z!Pool
<1> HIDE DEF subnet, known, pool, c, group
<1>12. SubnetsMade'
  <2>1. ASSUME NEW s \in zDocs'.subnets
        PROVE  \E i \in Z!Active : i < zIndex' /\ s.name = Order[i] /\ s.pool = Z!Pool(i)
    <3>1. CASE s \in zDocs.subnets
      BY <1>0, <1>10, <3>1 DEF SubnetsMade
    <3>2. CASE s \notin zDocs.subnets
      <4>1. s = [name |-> c, pool |-> pool]
        BY <1>1, <1>5, <1>8, <2>1, <3>2
      <4> QED
        BY <1>10, <4>1 DEF c, pool
    <3> QED
      BY <3>1, <3>2
  <2>2. ASSUME NEW s \in zDocs'.subnets, NEW t \in zDocs'.subnets, s.pool = t.pool
        PROVE  s = t
    <3>1. CASE known # {}
      BY <1>0, <1>8, <2>2, <3>1 DEF SubnetsMade
    <3>2. CASE known = {}
      BY <1>0, <1>1, <1>5, <2>2, <3>2 DEF SubnetsMade, known
    <3> QED
      BY <3>1, <3>2
  <2>3. ASSUME NEW i \in Z!Active, i < zIndex'
        PROVE  \E s \in zDocs'.subnets : s.pool = Z!Pool(i)
    BY <1>0, <1>1, <1>6, <1>10, <2>3 DEF SubnetsMade, pool
  <2>4. ASSUME zFile.groups, NEW s \in zDocs'.subnets
        PROVE  [subnet |-> s.name, group |-> s.name] \in zDocs'.associations
    BY <1>0, <1>1, <1>2, <1>5, <1>8, <2>4 DEF SubnetsMade
  <2>5. \A s \in zDocs'.subnets : \E i \in Z!Active' :
           i < zIndex' /\ s.name = Order[i] /\ s.pool = Z!Pool(i)'
    BY <1>0, <1>7, <2>1
  <2>6. \A i \in Z!Active' : i < zIndex' => \E s \in zDocs'.subnets : s.pool = Z!Pool(i)'
    BY <1>0, <1>7, <2>3
  <2> QED
    BY <2>2, <2>4, <2>5, <2>6 DEF SubnetsMade
<1>13. zFile.groups /\ Z!SideBySide /\ known # {} => zNsg = subnet.name
  <2> SUFFICES ASSUME zFile.groups, Z!SideBySide, known # {}
               PROVE  zNsg = subnet.name
    OBVIOUS
  <2>1. subnet \in zDocs.subnets /\ subnet.pool = pool
    BY <1>1, <1>6, <1>8
  <2>2. PICK i \in Z!Active : i < zIndex /\ subnet.pool = Z!Pool(i)
    BY <1>0, <2>1 DEF SubnetsMade
  <2>3. \A j \in Z!Active : i < j /\ j < zIndex => Z!Pool(j) = Z!Pool(i)
    BY <2>1, <2>2 DEF Z!SideBySide, pool
  <2> QED
    BY <1>0, <2>1, <2>2, <2>3 DEF NsgOfPool
<1>14. NsgOfPool'
  <2>1. SUFFICES ASSUME zFile.groups, Z!SideBySide, NEW i \in Z!Active, NEW s \in zDocs'.subnets,
                        i < zIndex', s.pool = Z!Pool(i),
                        \A j \in Z!Active : i < j /\ j < zIndex' => Z!Pool(j) = Z!Pool(i)
                 PROVE  zNsg' = s.name
    BY <1>0, <1>7, <1>20 DEF NsgOfPool
  <2>2. CASE s.pool = pool /\ known = {}
    <3>1. s = subnet
      BY <1>1, <2>2 DEF known
    <3> QED
      BY <1>5, <1>9, <2>1, <2>2, <3>1
  <2>3. CASE known # {} /\ i < zIndex
    <3>1. \A j \in Z!Active : i < j /\ j < zIndex => Z!Pool(j) = Z!Pool(i)
      BY <1>10, <2>1
    <3> QED
      BY <1>0, <1>8, <2>1, <2>3, <3>1 DEF NsgOfPool
  <2>4. CASE i < zIndex /\ s.pool # pool
    <3>1. Z!Pool(zIndex) = Z!Pool(i)
      BY <1>10, <2>1, <2>4
    <3> QED
      BY <2>1, <2>4, <3>1 DEF pool
  <2>5. CASE i = zIndex /\ known # {}
    <3>1. s = subnet
      BY <1>1, <1>6, <1>8, <1>12, <2>1, <2>5 DEF SubnetsMade, pool
    <3> QED
      BY <1>8, <1>13, <2>1, <2>5, <3>1
  <2> QED
    BY <1>10, <2>1, <2>2, <2>3, <2>4, <2>5 DEF pool
<1>15. InGroup'
  <2>1. SUFFICES ASSUME zFile.groups, Z!SideBySide, NEW n \in zDocs'.interfaces
                 PROVE  [subnet |-> n.subnet, group |-> n.group] \in zDocs'.associations
    BY <1>20, Zenon DEF InGroup
  <2>2. CASE n \in zDocs.interfaces
    BY <1>0, <1>2, <2>1, <2>2 DEF InGroup
  <2>3. CASE n.subnet = subnet.name /\ n.group = group /\ known = {}
    BY <1>2, <1>5, <1>11, <2>1, <2>3
  <2>4. CASE n.subnet = subnet.name /\ n.group = group /\ known # {}
    <3>1. n.group = subnet.name
      BY <1>11, <1>13, <2>1, <2>4
    <3>2. [subnet |-> subnet.name, group |-> subnet.name] \in zDocs'.associations
      BY <1>1, <1>12, <2>1 DEF SubnetsMade
    <3> QED
      BY <2>4, <3>1, <3>2
  <2> QED
    BY <1>3, <2>2, <2>3, <2>4
<1> QED
  BY <1>12, <1>14, <1>15

(* and after every step,                                                   *)
LEMMA AzureNext ==
  ASSUME AzureInv, [Z!Next]_(Z!vars)
  PROVE  AzureInv'
<1>0. /\ Z!TypeOK /\ AzureShape /\ CustomOfFirst
      /\ zPhase # "idle" => SubnetsMade /\ NsgOfPool /\ InGroup
  BY DEF AzureInv
<1>1. CASE Z!Start
  <2>0. /\ zDocs' = [Z!NoDocs EXCEPT !.account = Z!StorageAccountName(zFile.prefix, zFile.name)]
        /\ zPhase' = "build" /\ zIndex' = 1 /\ zNsg' = None /\ UNCHANGED <<zFile, zCopied>>
    BY <1>1 DEF Z!Start
  <2>4. /\ zDocs'.subnets = {} /\ zDocs'.groups = {} /\ zDocs'.associations = {}
        /\ zDocs'.sets = {} /\ zDocs'.addresses = {} /\ zDocs'.interfaces = {}
        /\ zDocs'.machines = <<>> /\ zDocs'.custom = None /\ AzureShape'
    BY <2>0 DEF Z!NoDocs, AzureShape
  <2>1. Z!TypeOK'
    <3>1. zIndex' \in 1..Len(Order) + 1 /\ zNsg' \in Z!Components \cup {None}
          /\ zFile' \in AzureFiles /\ zCopied' \in Distros \cup {None} 
          /\ zPhase' \in {"idle", "build", "files", "terraform"}
      BY <1>0, <2>0, AzureOrder DEF Z!TypeOK
    <3>2. \A T : zDocs'.machines \in Seq(T)
      BY <2>4
    <3> QED
      BY <2>4, <3>1, <3>2, Zenon DEF Z!TypeOK
  <2>2. CustomOfFirst'
    BY <1>1 DEF Z!Start, CustomOfFirst, Z!CustomDataThere, Z!ToApply
  <2>3. zDocs'.subnets = {} /\ zDocs'.interfaces = {} /\ zIndex' = 1
        /\ \A i \in Z!Active' : ~(i < 1)
    BY <1>1, AzureOrder DEF Z!Start, Z!NoDocs, Z!Active
  <2> QED
    BY <2>1, <2>2, <2>3, <2>4 DEF AzureInv, SubnetsMade, NsgOfPool, InGroup
<1>2. CASE Z!BuildComponent
  <2>0. /\ zPhase = "build" /\ zIndex <= Len(Order) /\ zIndex' = zIndex + 1
        /\ UNCHANGED <<zFile, zPhase, zCopied>> /\ zIndex \in Nat /\ zIndex \in DOMAIN Order
        /\ zIndex' \in 1..Len(Order) + 1 /\ Order[zIndex] \in Z!Components
    BY <1>0, <1>2, AzureOrder DEF Z!BuildComponent, Z!TypeOK
  <2>1. CASE zFile.components[Order[zIndex]].count < 1
    <3>1. UNCHANGED <<zNsg, zDocs>>
      BY <1>2, <2>1 DEF Z!BuildComponent
    <3>2. zIndex \notin Z!Active
      <4>1. zFile.components[Order[zIndex]].count \in Nat
        BY <1>0, <2>0, AzureFile DEF Z!TypeOK
      <4> QED
        BY <2>1, <4>1 DEF Z!Active
    <3>3. \A i \in Z!Active : i < zIndex' <=> i < zIndex
      BY <2>0, <3>2, AzureOrder DEF Z!Active
    <3>4. Z!TypeOK' /\ AzureShape' /\ CustomOfFirst'
      BY <1>0, <2>0, <3>1 DEF Z!TypeOK, AzureShape, CustomOfFirst, Z!CustomDataThere, Z!ToApply
    <3>5. Z!Active' = Z!Active /\ (Z!SideBySide' <=> Z!SideBySide)
      BY <2>0 DEF Z!Active, Z!SideBySide, Z!Pool
    <3>6. \A i \in Z!Active : Z!Pool(i)' = Z!Pool(i)
      BY <2>0 DEF Z!Pool
    <3>7. SubnetsMade'
      <4>1. \A s \in zDocs'.subnets : \E i \in Z!Active' :
               i < zIndex' /\ s.name = Order[i] /\ s.pool = Z!Pool(i)'
        BY <1>0, <2>0, <3>1, <3>3, <3>5, <3>6 DEF SubnetsMade
      <4>2. \A i \in Z!Active' : i < zIndex' => \E s \in zDocs'.subnets : s.pool = Z!Pool(i)'
        BY <1>0, <2>0, <3>1, <3>3, <3>5, <3>6 DEF SubnetsMade
      <4> QED
        BY <1>0, <2>0, <3>1, <4>1, <4>2 DEF SubnetsMade
    <3>8. NsgOfPool'
      <4> SUFFICES ASSUME zFile.groups, Z!SideBySide, NEW i \in Z!Active, NEW s \in zDocs.subnets,
                          i < zIndex', s.pool = Z!Pool(i),
                          \A j \in Z!Active : i < j /\ j < zIndex' => Z!Pool(j) = Z!Pool(i)
                   PROVE  zNsg = s.name
        BY <2>0, <3>1, <3>5, <3>6 DEF NsgOfPool
      <4> QED
        BY <1>0, <2>0, <3>3 DEF NsgOfPool
    <3>9. InGroup'
      BY <1>0, <2>0, <3>1, <3>5, Zenon DEF InGroup
    <3> QED
      BY <3>4, <3>7, <3>8, <3>9 DEF AzureInv
  <2>2. CASE ~(zFile.components[Order[zIndex]].count < 1)
    <3>1. /\ zDocs' = Z!Built(Order[zIndex])
          /\ zNsg' = IF (~\E s \in zDocs.subnets : s.pool = Z!Pool(zIndex)) /\ zFile.groups
                     THEN Order[zIndex] ELSE zNsg
      BY <1>2, <2>2 DEF Z!BuildComponent, Z!Pool
    <3>2. zIndex \in Z!Active
      <4>1. zFile.components[Order[zIndex]].count \in Nat
        BY <1>0, <2>0, AzureFile DEF Z!TypeOK
      <4> QED
        BY <2>0, <2>2, <4>1 DEF Z!Active
    <3>3. SubnetsMade' /\ NsgOfPool' /\ InGroup'
      BY <2>0, <3>1, <3>2, AzureBuiltInGroup
    <3>4. zNsg' \in Z!Components \cup {None}
      BY <1>0, <2>0, <3>1 DEF Z!TypeOK
    <3>5. Z!TypeOK'
      BY <1>0, <2>0, <3>1, <3>4, AzureBuiltTyped, Zenon
    <3>6. AzureShape'
      BY <1>0, <3>1, Zenon DEF Z!Built, AzureShape
    <3>7. CustomOfFirst'
      BY <2>0 DEF CustomOfFirst, Z!CustomDataThere, Z!ToApply
    <3> QED
      BY <3>3, <3>5, <3>6, <3>7 DEF AzureInv
  <2> QED
    BY <2>1, <2>2
<1>3. CASE Z!FinishBuild
  <2>0. /\ zPhase = "build" /\ zPhase' = "files" /\ UNCHANGED <<zFile, zIndex, zNsg, zCopied>>
        /\ zDocs' = IF zDocs.machines = <<>> THEN zDocs
                    ELSE [zDocs EXCEPT !.custom = zDocs.machines[1].distro]
    BY <1>3 DEF Z!FinishBuild
  <2>1. /\ zDocs'.account = zDocs.account /\ zDocs'.subnets = zDocs.subnets
        /\ zDocs'.groups = zDocs.groups /\ zDocs'.associations = zDocs.associations
        /\ zDocs'.sets = zDocs.sets /\ zDocs'.addresses = zDocs.addresses
        /\ zDocs'.interfaces = zDocs.interfaces /\ zDocs'.machines = zDocs.machines
        /\ AzureShape'
        /\ zDocs.machines # <<>> => zDocs'.custom = zDocs.machines[1].distro
        /\ zDocs.machines = <<>> => zDocs'.custom = zDocs.custom
    BY <1>0, <2>0 DEF AzureShape
  <2>2. zDocs.machines # <<>> => zDocs.machines[1].distro \in Distros
    <3> DEFINE Machine == [name : Z!MachineName, interface : Z!MachineName,
                           set : AvailabilitySets \cup {None}, distro : Distros]
    <3>1. zDocs.machines \in Seq(Machine)
      BY <1>0 DEF Z!TypeOK
    <3> HIDE DEF Machine
    <3>2. zDocs.machines # <<>> => zDocs.machines[1] \in Machine
      BY <3>1
    <3> QED
      BY <3>2 DEF Machine
  <2>3. Z!TypeOK'
    BY <1>0, <2>0, <2>1, <2>2 DEF Z!TypeOK
  <2>4. CustomOfFirst'
    BY <2>0, <2>1 DEF CustomOfFirst, Z!CustomDataThere, Z!ToApply
  <2>5. SubnetsMade' /\ NsgOfPool' /\ InGroup'
    BY <1>0, <2>0, <2>1
    DEF SubnetsMade, NsgOfPool, InGroup, Z!Active, Z!Pool, Z!SideBySide
  <2> QED
    BY <2>1, <2>3, <2>4, <2>5 DEF AzureInv
<1>4. CASE Z!CopyFiles
  <2>0. /\ zPhase = "files" /\ zPhase' = "terraform" /\ UNCHANGED <<zFile, zIndex, zNsg, zDocs>>
        /\ \A i, j \in DOMAIN zDocs.machines : zDocs.machines[i].distro = zDocs.machines[j].distro
        /\ zCopied' = IF zFile.cloudInit /\ zDocs.custom \in WithCloudConfig
                      THEN zDocs.custom ELSE None
    BY <1>4 DEF Z!CopyFiles
  <2>1. Z!TypeOK' /\ AzureShape'
    BY <1>0, <2>0 DEF Z!TypeOK, AzureShape
  <2>2. ASSUME zFile.cloudInit, NEW i \in DOMAIN zDocs.machines,
               zDocs.machines[i].distro \in WithCloudConfig
        PROVE  zCopied' = zDocs.machines[i].distro
    <3>1. zDocs.machines # <<>> /\ 1 \in DOMAIN zDocs.machines
      BY <1>0, <2>2 DEF Z!TypeOK
    <3>2. zDocs.custom = zDocs.machines[i].distro
      BY <1>0, <2>0, <3>1 DEF CustomOfFirst
    <3> QED
      BY <2>0, <2>2, <3>2
  <2>3. CustomOfFirst'
    BY <1>0, <2>0, <2>2 DEF CustomOfFirst, Z!CustomDataThere
  <2>4. SubnetsMade' /\ NsgOfPool' /\ InGroup'
    BY <1>0, <2>0 DEF SubnetsMade, NsgOfPool, InGroup, Z!Active, Z!Pool, Z!SideBySide
  <2> QED
    BY <2>1, <2>3, <2>4 DEF AzureInv
<1>5. CASE Z!Fail \/ Z!Edit
  <2>1. zPhase' = "idle" /\ zDocs' = Z!NoDocs /\ zNsg' = None /\ zIndex' = 1
        /\ zFile' \in AzureFiles /\ zCopied' = zCopied
    BY <1>0, <1>5 DEF Z!Fail, Z!Edit, Z!TypeOK
  <2>2. Z!TypeOK' /\ AzureShape'
    BY <1>0, <2>1, AzureOrder DEF Z!TypeOK, Z!NoDocs, AzureShape
  <2>3. CustomOfFirst'
    BY <2>1 DEF CustomOfFirst, Z!CustomDataThere, Z!ToApply
  <2> QED
    BY <2>1, <2>2, <2>3 DEF AzureInv
<1>6. CASE UNCHANGED Z!vars
  BY <1>6 DEF Z!vars, AzureInv, Z!TypeOK, AzureShape, CustomOfFirst, Z!CustomDataThere, Z!ToApply,
              SubnetsMade, NsgOfPool, InGroup, Z!Active, Z!Pool, Z!SideBySide
<1> QED
  BY <1>1, <1>2, <1>3, <1>4, <1>5, <1>6 DEF Z!Next

(* so it holds in every behaviour of the whole.                            *)
LEMMA AzureInvHolds == Spec => []AzureInv
<1>1. Init => AzureInv
  BY AzureInit DEF Init
<1>2. AzureInv /\ [Next]_vars => AzureInv'
  BY StepOfParts, AzureNext
<1> QED
  BY <1>1, <1>2, PTL DEF Spec

(***************************************************************************)
(* On Azure, an interface is in the security group of its subnet, as long  *)
(* as the components of one address pool stand side by side: nsg, the      *)
(* group that was made last, is then that of their pool.                   *)
(***************************************************************************)
THEOREM AzureInterfacesInGroupCorrect == Spec => []AzureInterfacesInGroup
<1>1. AzureInv => AzureInterfacesInGroup
  BY DEF AzureInv, AzureInterfacesInGroup, Z!InterfacesInGroup, InGroup, Z!ToApply
<1> QED
  BY <1>1, AzureInvHolds, PTL

-----------------------------------------------------------------------------
(***************************************************************************)
(* Azure: the name of the storage account.                                 *)
(***************************************************************************)

(* The instance's Cardinality is that of FiniteSets.                       *)
LEMMA CardinalityIs ==
  ASSUME NEW S
  PROVE  Z!Cardinality(S) = Cardinality(S)
BY DEF Z!Cardinality, Cardinality

(* Of the elements of a set of numbers there is a first, a second, ...     *)
LEMMA Ranked ==
  ASSUME NEW n \in Nat, NEW kept \in SUBSET (1..n), NEW k \in 1..Cardinality(kept)
  PROVE  \E i \in kept : Cardinality({j \in kept : j <= i}) = k
<1> DEFINE upto(m)  == {j \in kept : j <= m}
           enough == {m \in 0..n : k <= Cardinality(upto(m))}
<1>0. \A i \in kept : i \in Nat /\ 1 <= i /\ i <= n
  OBVIOUS
<1>1. IsFiniteSet(kept) /\ Cardinality(kept) \in Nat
  <2>1. IsFiniteSet(1..n)
    BY FS_Interval
  <2> QED
    BY <2>1, FS_Subset, FS_CardinalityType
<1>2. \A m \in 0..n : IsFiniteSet(upto(m)) /\ Cardinality(upto(m)) \in Nat
  <2> SUFFICES ASSUME NEW m \in 0..n
               PROVE  IsFiniteSet(upto(m)) /\ Cardinality(upto(m)) \in Nat
    OBVIOUS
  <2>1. upto(m) \subseteq kept
    OBVIOUS
  <2> HIDE DEF upto
  <2> QED
    BY <1>1, <2>1, FS_Subset, FS_CardinalityType
<1>3. n \in enough
  <2>1. upto(n) = kept
    BY <1>0
  <2>2. Cardinality(upto(n)) = Cardinality(kept) /\ k <= Cardinality(kept)
    BY <1>1, <2>1
  <2> HIDE DEF upto
  <2> QED
    BY <2>2
<1>4. PICK m \in enough : \A h \in enough : m <= h
  <2>1. enough \in SUBSET Nat /\ enough # {}
    BY <1>3
  <2> HIDE DEF enough
  <2> QED
    BY <2>1, Smallest
<1>5. m \in Nat /\ m <= n /\ k <= Cardinality(upto(m)) /\ k \in Nat /\ k >= 1
  BY <1>1, <1>4
<1>6. m # 0
  <2>1. upto(0) = {}
    <3>1. \A i \in kept : ~(i <= 0)
      BY <1>0
    <3> QED
      BY <3>1
  <2>2. Cardinality(upto(0)) = 0
    BY <2>1, FS_EmptySet
  <2> QED
    BY <1>5, <2>2
<1>7. m - 1 \in 0..n /\ ~(k <= Cardinality(upto(m - 1)))
  <2>1. m - 1 \in 0..n /\ ~(m <= m - 1)
    BY <1>5, <1>6
  <2>2. m - 1 \notin enough
    BY <1>4, <2>1
  <2> QED
    BY <2>1, <2>2
<1>8. m \in kept /\ upto(m) = upto(m - 1) \cup {m} /\ m \notin upto(m - 1)
  <2>1. \A i \in kept : i <= m <=> i <= m - 1 \/ i = m
    BY <1>0, <1>5
  <2>2. m \notin kept => upto(m) = upto(m - 1)
    BY <2>1
  <2>3. m \in kept
    <3> HIDE DEF upto
    <3> QED
      BY <1>5, <1>7, <2>2
  <2>4. upto(m) = upto(m - 1) \cup {m}
    BY <2>1, <2>3, <1>5
  <2> QED
    BY <1>5, <2>3, <2>4
<1>9. Cardinality(upto(m)) = Cardinality(upto(m - 1)) + 1
  <2> HIDE DEF upto
  <2> QED
    BY <1>2, <1>7, <1>8, FS_AddElement
<1>10. Cardinality(upto(m)) = k
  <2> HIDE DEF upto
  <2> QED
    BY <1>2, <1>5, <1>7, <1>9
<1> QED
  BY <1>8, <1>10

(* What is left of a name without its dashes is a name without a dash.     *)
LEMMA PlainIs ==
  ASSUME NEW name \in Seq(STRING)
  PROVE  Z!Plain(name) \in Seq(STRING \ {Z!Dash})
<1> DEFINE kept == {i \in DOMAIN name : name[i] # Z!Dash}
           at(k) == CHOOSE i \in kept : Z!Cardinality({j \in kept : j <= i}) = k
           n == Cardinality(kept)
<1>1. DOMAIN name = 1..Len(name) /\ Len(name) \in Nat
  OBVIOUS
<1>2. n \in Nat
  <2>1. IsFiniteSet(1..Len(name)) /\ kept \subseteq 1..Len(name)
    BY <1>1, FS_Interval
  <2> HIDE DEF kept
  <2> QED
    BY <2>1, FS_Subset, FS_CardinalityType
<1>3. ASSUME NEW k \in 1..n
      PROVE  at(k) \in kept
  <2>1. kept \in SUBSET (1..Len(name))
    BY <1>1
  <2> HIDE DEF kept
  <2>2. \E i \in kept : Cardinality({j \in kept : j <= i}) = k
    BY <1>1, <2>1, Ranked
  <2>3. \E i \in kept : Z!Cardinality({j \in kept : j <= i}) = k
    BY <2>2, CardinalityIs
  <2> QED
    BY <2>3
<1>4. Z!Plain(name) = [k \in 1..n |-> name[at(k)]]
  BY CardinalityIs DEF Z!Plain
<1>5. \A i \in kept : name[i] \in STRING \ {Z!Dash}
  BY <1>1
<1> HIDE DEF kept, at, n
<1>6. Z!Plain(name) \in [1..n -> STRING \ {Z!Dash}]
  BY <1>3, <1>4, <1>5
<1> QED
  BY <1>2, <1>6, IsSeq

(* The beginning of a sequence, of n of its elements at most.              *)
LEMMA HeadIs ==
  ASSUME NEW T, NEW s \in Seq(T), NEW n \in Nat
  PROVE  Z!Head8(s, n) \in Seq(T) /\ Len(Z!Head8(s, n)) \in Nat /\ Len(Z!Head8(s, n)) <= n
<1> DEFINE m == IF Len(s) > n THEN n ELSE Len(s)
<1>1. Len(s) \in Nat /\ m \in 0..Len(s) /\ m <= n
  OBVIOUS
<1>2. Z!Head8(s, n) = SubSeq(s, 1, m)
  BY DEF Z!Head8
<1> HIDE DEF m
<1>3. /\ SubSeq(s, 1, m) \in Seq(T)
      /\ Len(SubSeq(s, 1, m)) = m
  <2>1. \A i \in 1..m : i \in 1..Len(s)
    BY <1>1
  <2>2. SubSeq(s, 1, m) = [i \in 1..m |-> s[i]]
    BY <1>1, <2>1, SubSeqProperties
  <2>3. [i \in 1..m |-> s[i]] \in [1..m -> T]
    BY <2>1
  <2> QED
    BY <1>1, <2>2, <2>3, IsSeq
<1> QED
  BY <1>1, <1>2, <1>3

(* A sequence of elements of a set is one of elements of a larger one.     *)
LEMMA Wider ==
  ASSUME NEW S, NEW T, S \subseteq T, NEW s \in Seq(S)
  PROVE  s \in Seq(T)
<1>1. s \in [1..Len(s) -> T] /\ Len(s) \in Nat
  OBVIOUS
<1> QED
  BY <1>1, IsSeq

(* A storage account's name has 3 to 24 characters, ends with its use, and *)
(* has no dash but one of the prefix.                                      *)
LEMMA AccountFits ==
  ASSUME NEW prefix \in Seq(STRING), NEW name \in Seq(STRING)
  PROVE  LET account == Z!StorageAccountName(prefix, name)
         IN /\ Len(account) \in 3..24
            /\ Z!Dash \notin Z!ToSet(prefix) => Z!Dash \notin Z!ToSet(account)
            /\ \E n \in 1..22 : SubSeq(account, n, n + 2) = Z!Use
<1> DEFINE Char == STRING \cup {"k", "8", "s"}
           pre  == Z!Head8(prefix, 8)
           left == 24 - (Len(pre) + Len(Z!Use))
           mid  == Z!Head8(Z!Plain(name), left)
           front == pre \o mid
           account == front \o Z!Use
           p == Len(pre)
           m == Len(mid)
           a == Len(account)
<1>1. Z!Use \in Seq(Char) /\ Len(Z!Use) = 3 /\ \A i \in 1..3 : Z!Use[i] # Z!Dash
  <2>1. Z!Use \in Seq(Char) /\ Len(Z!Use) = 3
    BY DEF Z!Use
  <2>2. Z!Use[1] = "k" /\ Z!Use[2] = "8" /\ Z!Use[3] = "s"
    BY DEF Z!Use
  <2>3. "k" # "-" /\ "8" # "-" /\ "s" # "-"
    OBVIOUS
  <2>4. \A i \in 1..3 : i = 1 \/ i = 2 \/ i = 3
    OBVIOUS
  <2> QED
    BY <2>1, <2>2, <2>3, <2>4 DEF Z!Dash
<1>2. pre \in Seq(STRING) /\ p \in Nat /\ p <= 8
  BY HeadIs
<1>3. left \in Nat /\ left + p = 21
  <2>1. left = 24 - (p + 3)
    BY <1>1
  <2> HIDE DEF left, p
  <2> QED
    BY <1>2, <2>1
<1>4. mid \in Seq(STRING \ {Z!Dash}) /\ m \in Nat /\ m <= left
  <2> HIDE DEF left
  <2> QED
    BY <1>3, PlainIs, HeadIs
<1>5. Z!Dash \notin Z!ToSet(prefix) => pre \in Seq(STRING \ {Z!Dash})
  <2> SUFFICES ASSUME Z!Dash \notin Z!ToSet(prefix)
               PROVE  pre \in Seq(STRING \ {Z!Dash})
    OBVIOUS
  <2>1. \A i \in 1..Len(prefix) : prefix[i] \in STRING \ {Z!Dash}
    BY DEF Z!ToSet
  <2>2. prefix \in [1..Len(prefix) -> STRING \ {Z!Dash}] /\ Len(prefix) \in Nat
    BY <2>1
  <2>3. prefix \in Seq(STRING \ {Z!Dash})
    BY <2>2, IsSeq
  <2> QED
    BY <2>3, HeadIs
<1>6. Z!StorageAccountName(prefix, name) = account
  BY DEF Z!StorageAccountName
<1>7. pre \in Seq(Char) /\ mid \in Seq(Char)
  <2>1. STRING \subseteq Char /\ STRING \ {Z!Dash} \subseteq Char
    OBVIOUS
  <2> HIDE DEF Char, pre, mid
  <2> QED
    BY <1>2, <1>4, <2>1, Wider
<1> HIDE DEF Char, pre, left, mid
<1>8. /\ front \in Seq(Char) /\ Len(front) = p + m /\ p + m \in Nat
      /\ \A i \in 1..(p + m) : front[i] = IF i <= p THEN pre[i] ELSE mid[i - p]
  BY <1>2, <1>4, <1>7, ConcatProperties
<1> HIDE DEF front
<1>9. /\ account \in Seq(Char) /\ a = p + m + 3
      /\ \A i \in 1..(p + m + 3) :
           account[i] = IF i <= p + m THEN front[i] ELSE Z!Use[i - (p + m)]
  <2> DEFINE use == Z!Use
  <2>1. use \in Seq(Char) /\ Len(use) = 3
    BY <1>1
  <2>0. front \in Seq(Char)
    BY <1>8
  <2> HIDE DEF use
  <2>2. /\ front \o use \in Seq(Char) /\ Len(front \o use) = Len(front) + Len(use)
        /\ \A i \in 1..(Len(front) + Len(use)) :
             (front \o use)[i] = IF i <= Len(front) THEN front[i] ELSE use[i - Len(front)]
    BY <2>0, <2>1, ConcatProperties
  <2>3. account = front \o use
    BY DEF use
  <2> HIDE DEF account
  <2> QED
    BY <1>8, <2>1, <2>2, <2>3 DEF use
<1>10. DOMAIN account = 1..a
  BY <1>9
<1>11. /\ DOMAIN pre = 1..p /\ DOMAIN mid = 1..m
       /\ \A i \in 1..m : mid[i] # Z!Dash
  BY <1>2, <1>4
<1>12. Z!Dash \notin Z!ToSet(prefix) => \A i \in 1..p : pre[i] # Z!Dash
  BY <1>5
<1> HIDE DEF account, p, m, a
<1>13. a \in Nat /\ a \in 3..24
  BY <1>2, <1>3, <1>4, <1>9
<1>14. ASSUME Z!Dash \notin Z!ToSet(prefix)
       PROVE  Z!Dash \notin Z!ToSet(account)
  <2> SUFFICES ASSUME NEW i \in 1..(p + m + 3)
               PROVE  account[i] # Z!Dash
    BY <1>9, <1>10 DEF Z!ToSet
  <2>1. CASE i <= p
    <3>1. i \in 1..p /\ i \in 1..(p + m) /\ i <= p + m
      BY <1>2, <1>4, <2>1
    <3> QED
      BY <1>8, <1>9, <1>12, <1>14, <2>1, <3>1
  <2>2. CASE ~(i <= p) /\ i <= p + m
    <3>1. i - p \in 1..m /\ i \in 1..(p + m)
      BY <1>2, <1>4, <2>2
    <3> QED
      BY <1>8, <1>9, <1>11, <2>2, <3>1
  <2>3. CASE ~(i <= p + m)
    <3>1. i - (p + m) \in 1..3
      BY <1>2, <1>4, <2>3
    <3> QED
      BY <1>1, <1>9, <2>3, <3>1
  <2> QED
    BY <1>2, <1>4, <2>1, <2>2, <2>3
<1>15. \E n \in 1..22 : SubSeq(account, n, n + 2) = Z!Use
  <2> DEFINE n == p + m + 1
  <2>1. n \in 1..22 /\ n \in Int /\ n + 2 \in Int /\ n + 2 = p + m + 3 /\ n <= n + 2
        /\ (n + 2) - n + 1 = 3
    BY <1>2, <1>3, <1>4
  <2>2. \A i \in 1..3 : /\ n + i - 1 \in 1..(p + m + 3) /\ ~(n + i - 1 <= p + m)
                         /\ (n + i - 1) - (p + m) = i
    BY <1>2, <1>4
  <2>3. \A i \in 1..3 : account[n + i - 1] = Z!Use[i]
    BY <1>9, <2>2
  <2>4. \A i \in n..(n + 2) : account[i] \in Char
    <3>1. \A i \in n..(n + 2) : i \in 1..(p + m + 3)
      BY <1>2, <1>4
    <3> QED
      BY <1>9, <1>10, <3>1
  <2> HIDE DEF n
  <2>5. /\ SubSeq(account, n, n + 2) \in Seq(Char)
        /\ Len(SubSeq(account, n, n + 2)) = 3
        /\ \A i \in 1..3 : SubSeq(account, n, n + 2)[i] = account[n + i - 1]
    BY <2>1, <2>4, SubSeqProperties
  <2>6. SubSeq(account, n, n + 2) = Z!Use
    <3> DEFINE part3 == SubSeq(account, n, n + 2)
               use == Z!Use
    <3>1. /\ part3 \in Seq(Char) /\ use \in Seq(Char) /\ Len(part3) = Len(use)
          /\ \A i \in 1..Len(part3) : part3[i] = use[i]
      BY <1>1, <2>3, <2>5
    <3> HIDE DEF part3, use
    <3>2. part3 = use
      BY <3>1, SeqEqual
    <3> QED
      BY <3>2 DEF part3, use
  <2> QED
    BY <2>1, <2>6
<1> QED
  BY <1>6, <1>13, <1>14, <1>15 DEF a

(* What a document refers to is there.                                     *)
AzureLinked ==
    /\ zPhase # "idle" => zDocs.account = Z!StorageAccountName(zFile.prefix, zFile.name)
    /\ zFile.groups /\ zDocs.subnets # {} => zNsg \in Z!NamesIn(zDocs.groups)
    /\ \A n \in zDocs.interfaces :
         /\ n.subnet \in Z!NamesIn(zDocs.subnets)
         /\ n.group \in Z!NamesIn(zDocs.groups) \/ (~zFile.groups /\ n.group = None)
         /\ n.address \in zDocs.addresses \/ (~zFile.public /\ n.address = None)
    /\ \A i \in DOMAIN zDocs.machines :
         /\ zDocs.machines[i].interface \in Z!NamesIn(zDocs.interfaces)
         /\ zDocs.machines[i].set \in zDocs.sets \cup {None}
         /\ zDocs.machines[i].set \in zFile.documented \cup {None}

(* The machines of a component come after those there are.                 *)
LEMMA MachinesAdded ==
  ASSUME NEW T, NEW old \in Seq(T), NEW n \in Nat, NEW new \in [1..n -> T],
         NEW i \in DOMAIN (old \o new)
  PROVE  \/ i \in DOMAIN old /\ (old \o new)[i] = old[i]
         \/ \E k \in 1..n : (old \o new)[i] = new[k]
<1>1. new \in Seq(T) /\ Len(new) = n
  BY IsSeq
<1>2. /\ old \o new \in Seq(T) /\ Len(old \o new) = Len(old) + n
      /\ \A k \in 1..(Len(old) + n) :
           (old \o new)[k] = IF k <= Len(old) THEN old[k] ELSE new[k - Len(old)]
  BY <1>1, ConcatProperties
<1>3. i \in 1..(Len(old) + n) /\ Len(old) \in Nat /\ DOMAIN old = 1..Len(old)
  BY <1>2
<1>4. CASE i <= Len(old)
  BY <1>2, <1>3, <1>4
<1>5. CASE ~(i <= Len(old))
  <2>1. i - Len(old) \in 1..n
    BY <1>3, <1>5
  <2> QED
    BY <1>2, <1>3, <1>5, <2>1
<1> QED
  BY <1>4, <1>5

(* The component at hand refers to what it has made or what was there.     *)
LEMMA AzureBuiltLinked ==
  ASSUME AzureInv, AzureLinked, zPhase = "build", NEW c \in Z!Components,
         zDocs' = Z!Built(c), zFile' = zFile, zPhase' = zPhase,
         zNsg' = IF (~\E s \in zDocs.subnets : s.pool = Head(zFile.components[c].pools)) /\ zFile.groups
                 THEN c ELSE zNsg
  PROVE  AzureLinked'
<1> DEFINE wish   == zFile.components[c]
           pool   == Head(wish.pools)
           known  == {s \in zDocs.subnets : s.pool = pool}
           subnet == IF known = {} THEN [name |-> c, pool |-> pool] ELSE CHOOSE s \in known : TRUE
           made   == known = {} /\ zFile.groups
           new    == [name |-> c, rules |-> wish.rules]
           group  == Z!GroupInUse(c, known)
           iface(m) == [name |-> m, subnet |-> subnet.name, group |-> group,
                        address |-> IF zFile.public THEN m ELSE None]
           machine(i) == [name |-> <<c, i>>, interface |-> <<c, i>>, set |-> Z!SetOf(c),
                          distro |-> wish.distro]
           added  == [i \in 1..wish.count |-> machine(i)]
           Machine == [name : Z!MachineName, interface : Z!MachineName,
                       set : AvailabilitySets \cup {None}, distro : Distros]
<1>0. Z!TypeOK /\ AzureShape
  BY DEF AzureInv
<1>1. /\ wish.count \in Nat /\ wish.distro \in Distros
      /\ wish.set \in AvailabilitySets \cup {None} /\ zFile.documented \subseteq AvailabilitySets
  BY <1>0, AzureFile DEF Z!TypeOK, Z!InputFile
<1>2. Z!SetOf(c) \in zFile.documented \cup {None}
  BY DEF Z!SetOf
<1>3. added \in [1..wish.count -> Machine]
  <2>1. \A i \in 1..wish.count : machine(i) \in Machine
    BY <1>1, <1>2 DEF Z!MachineName
  <2> QED
    BY <2>1, Zenon
<1>4. zDocs.machines \in Seq(Machine)
  BY <1>0, Zenon DEF Z!TypeOK
<1>5. /\ zDocs'.account = zDocs.account
      /\ zDocs'.subnets = zDocs.subnets \cup {subnet}
      /\ zDocs'.groups = zDocs.groups \cup (IF made THEN {new} ELSE {})
      /\ zDocs'.sets = zDocs.sets \cup ({Z!SetOf(c)} \ {None})
      /\ zDocs'.addresses = IF zFile.public THEN zDocs.addresses \cup Z!Machines(c) ELSE zDocs.addresses
      /\ zDocs'.interfaces = zDocs.interfaces \cup {iface(m) : m \in Z!Machines(c)}
      /\ zDocs'.machines = zDocs.machines \o added
  <2>1. zDocs' = Z!Built(c) /\ AzureShape
    BY <1>0
  <2> QED
    BY <2>1, Zenon DEF Z!Built, AzureShape
<1>6. new.name = c
  OBVIOUS
<1>7. \A m : /\ iface(m).name = m /\ iface(m).subnet = subnet.name /\ iface(m).group = group
             /\ iface(m).address = IF zFile.public THEN m ELSE None
  OBVIOUS
<1>8. \A i \in 1..wish.count :
        /\ added[i].interface = <<c, i>> /\ added[i].set = Z!SetOf(c)
        /\ <<c, i>> \in Z!Machines(c)
  BY DEF Z!Machines
<1>9. group = IF ~zFile.groups THEN None ELSE IF known = {} THEN c ELSE zNsg
  BY DEF Z!GroupInUse
<1>10. known # {} => zDocs.subnets # {}
  OBVIOUS
<1>11. zNsg' = IF made THEN c ELSE zNsg
  OBVIOUS
<1> HIDE DEF wish, subnet, known, new, group, iface, machine, added, Machine
<1>12. /\ Z!NamesIn(zDocs.subnets) \subseteq Z!NamesIn(zDocs'.subnets)
       /\ Z!NamesIn(zDocs.groups) \subseteq Z!NamesIn(zDocs'.groups)
       /\ Z!NamesIn(zDocs.interfaces) \subseteq Z!NamesIn(zDocs'.interfaces)
       /\ zDocs.addresses \subseteq zDocs'.addresses /\ zDocs.sets \subseteq zDocs'.sets
  BY <1>5 DEF Z!NamesIn
<1>13. subnet.name \in Z!NamesIn(zDocs'.subnets)
  BY <1>5 DEF Z!NamesIn
<1>14. made => c \in Z!NamesIn(zDocs'.groups)
  BY <1>5, <1>6 DEF Z!NamesIn
<1>15. zFile.groups => zNsg' \in Z!NamesIn(zDocs'.groups)
  BY <1>10, <1>11, <1>12, <1>14 DEF AzureLinked
<1>16. group \in Z!NamesIn(zDocs'.groups) \/ (~zFile.groups /\ group = None)
  BY <1>9, <1>10, <1>12, <1>14 DEF AzureLinked
<1>17. ASSUME NEW n \in zDocs'.interfaces
       PROVE  /\ n.subnet \in Z!NamesIn(zDocs'.subnets)
              /\ n.group \in Z!NamesIn(zDocs'.groups) \/ (~zFile.groups /\ n.group = None)
              /\ n.address \in zDocs'.addresses \/ (~zFile.public /\ n.address = None)
  <2>1. CASE n \in zDocs.interfaces
    BY <1>12, <2>1 DEF AzureLinked
  <2>2. CASE n \notin zDocs.interfaces
    <3>1. PICK m \in Z!Machines(c) : n = iface(m)
      BY <1>5, <1>17, <2>2
    <3>2. zFile.public => m \in zDocs'.addresses
      BY <1>5, <3>1
    <3> QED
      BY <1>7, <1>13, <1>16, <3>1, <3>2
  <2> QED
    BY <2>1, <2>2
<1>18. \A m \in Z!Machines(c) : m \in Z!NamesIn(zDocs'.interfaces)
  BY <1>5, <1>7 DEF Z!NamesIn
<1>19. ASSUME NEW i \in DOMAIN zDocs'.machines
       PROVE  /\ zDocs'.machines[i].interface \in Z!NamesIn(zDocs'.interfaces)
              /\ zDocs'.machines[i].set \in zDocs'.sets \cup {None}
              /\ zDocs'.machines[i].set \in zFile.documented \cup {None}
  <2>1. \/ i \in DOMAIN zDocs.machines /\ zDocs'.machines[i] = zDocs.machines[i]
        \/ \E k \in 1..wish.count : zDocs'.machines[i] = added[k]
    <3> DEFINE old == zDocs.machines
    <3>1. old \in Seq(Machine) /\ i \in DOMAIN (old \o added)
      BY <1>4, <1>5, <1>19
    <3> HIDE DEF old
    <3>2. \/ i \in DOMAIN old /\ (old \o added)[i] = old[i]
          \/ \E k \in 1..wish.count : (old \o added)[i] = added[k]
      BY <1>1, <1>3, <3>1, MachinesAdded
    <3> QED
      BY <1>5, <3>2 DEF old
  <2>2. CASE i \in DOMAIN zDocs.machines /\ zDocs'.machines[i] = zDocs.machines[i]
    BY <1>12, <2>2 DEF AzureLinked
  <2>3. CASE \E k \in 1..wish.count : zDocs'.machines[i] = added[k]
    BY <1>2, <1>5, <1>8, <1>18, <2>3
  <2> QED
    BY <2>1, <2>2, <2>3
<1> QED
  BY <1>5, <1>15, <1>17, <1>19 DEF AzureLinked

(* So every document has what it refers to after every step,               *)
LEMMA AzureLinkedNext ==
  ASSUME AzureInv, AzureLinked, [Z!Next]_(Z!vars)
  PROVE  AzureLinked'
<1>1. CASE Z!Start
  BY <1>1 DEF Z!Start, AzureLinked, Z!NoDocs
<1>2. CASE Z!BuildComponent
  <2>1. /\ zPhase = "build" /\ zPhase' = zPhase /\ zFile' = zFile /\ Order[zIndex] \in Z!Components
    BY <1>2, AzureOrder DEF Z!BuildComponent, AzureInv, Z!TypeOK
  <2>2. CASE zFile.components[Order[zIndex]].count < 1
    BY <1>2, <2>1, <2>2 DEF Z!BuildComponent, AzureLinked
  <2>3. CASE ~(zFile.components[Order[zIndex]].count < 1)
    <3>1. /\ zDocs' = Z!Built(Order[zIndex])
          /\ zNsg' = IF (~\E s \in zDocs.subnets :
                            s.pool = Head(zFile.components[Order[zIndex]].pools)) /\ zFile.groups
                     THEN Order[zIndex] ELSE zNsg
      BY <1>2, <2>3 DEF Z!BuildComponent
    <3> QED
      BY <2>1, <3>1, AzureBuiltLinked
  <2> QED
    BY <2>2, <2>3
<1>3. CASE Z!FinishBuild
  <2>1. /\ zDocs'.account = zDocs.account /\ zDocs'.subnets = zDocs.subnets
        /\ zDocs'.groups = zDocs.groups /\ zDocs'.sets = zDocs.sets
        /\ zDocs'.addresses = zDocs.addresses /\ zDocs'.interfaces = zDocs.interfaces
        /\ zDocs'.machines = zDocs.machines
    BY <1>3 DEF Z!FinishBuild, AzureInv, AzureShape
  <2> QED
    BY <1>3, <2>1 DEF Z!FinishBuild, AzureLinked
<1>4. CASE Z!CopyFiles
  BY <1>4 DEF Z!CopyFiles, AzureLinked
<1>5. CASE Z!Fail \/ Z!Edit
  BY <1>5 DEF Z!Fail, Z!Edit, AzureLinked, Z!NoDocs
<1>6. CASE UNCHANGED Z!vars
  BY <1>6 DEF Z!vars, AzureLinked
<1> QED
  BY <1>1, <1>2, <1>3, <1>4, <1>5, <1>6 DEF Z!Next

(* and the name of the storage account is what it should be.               *)
LEMMA AzureFits == Spec => [](Z!ReferencesResolve /\ Z!AccountNameFits)
<1>1. Init => AzureInv /\ AzureLinked
  BY AzureInit DEF Init, Z!Init, AzureLinked, Z!NoDocs
<1>2. AzureInv /\ AzureLinked /\ [Next]_vars => AzureInv' /\ AzureLinked'
  BY StepOfParts, AzureNext, AzureLinkedNext
<1>3. AzureInv /\ AzureLinked => Z!ReferencesResolve
  <2> SUFFICES ASSUME AzureInv, AzureLinked, zPhase = "terraform"
               PROVE  \A s, t \in zDocs.subnets : s.name = t.name \/ s.pool = t.pool => s = t
    BY DEF Z!ReferencesResolve, Z!ToApply, AzureLinked
  <2> SUFFICES ASSUME NEW s \in zDocs.subnets, NEW t \in zDocs.subnets, s.name = t.name
               PROVE  s = t
    BY DEF AzureInv, SubnetsMade
  <2>1. PICK i \in Z!Active : s.name = Order[i] /\ s.pool = Z!Pool(i)
    BY DEF AzureInv, SubnetsMade
  <2>2. PICK j \in Z!Active : t.name = Order[j] /\ t.pool = Z!Pool(j)
    BY DEF AzureInv, SubnetsMade
  <2>3. i = j
    BY <2>1, <2>2, AzureOrder DEF Z!Active
  <2> QED
    BY <2>1, <2>2, <2>3 DEF AzureInv, SubnetsMade
<1>4. AzureInv /\ AzureLinked => Z!AccountNameFits
  <2> SUFFICES ASSUME AzureInv, AzureLinked, zPhase = "terraform"
               PROVE  /\ Len(zDocs.account) \in 3..24
                      /\ Z!Dash \notin Z!ToSet(zFile.prefix) => Z!Dash \notin Z!ToSet(zDocs.account)
                      /\ \E n \in 1..22 : SubSeq(zDocs.account, n, n + 2) = Z!Use
    BY DEF Z!AccountNameFits, Z!ToApply
  <2>1. zDocs.account = Z!StorageAccountName(zFile.prefix, zFile.name)
    BY DEF AzureLinked
  <2>2. zFile.prefix \in Seq(STRING) /\ zFile.name \in Seq(STRING)
    BY AzureFile DEF AzureInv, Z!TypeOK, Z!InputFile
  <2> QED
    BY <2>1, <2>2, AccountFits
<1> QED
  BY <1>1, <1>2, <1>3, <1>4, PTL DEF Spec

-----------------------------------------------------------------------------
(***************************************************************************)
(* AWS: the key pair.                                                      *)
(***************************************************************************)

(* The documents of a run are a record of the kinds of documents.          *)
DocsShape ==
    wDocs = [key |-> wDocs.key, subnets |-> wDocs.subnets, groups |-> wDocs.groups,
             scaling |-> wDocs.scaling, launch |-> wDocs.launch,
             targets |-> wDocs.targets, nfs |-> wDocs.nfs]

(* Without a state there are no machines, and a run at work has a key,     *)
(* that of the state if there is one.                                      *)
KeyInv ==
    /\ DocsShape
    /\ wState = [there |-> wState.there, key |-> wState.key]
    /\ wState.there \in BOOLEAN
    /\ ~wState.there => wState.key = None /\ \A c \in W!Components : wMachines[c] = None
    /\ wPhase \in {"components", "terraform"} =>
          wDocs.key # None /\ (wState.there => wDocs.key = wState.key)
    /\ W!KeyReused

(* The invariant holds to begin with,                                      *)
LEMMA KeyInit ==
  ASSUME W!Init
  PROVE  KeyInv
BY DEF W!Init, KeyInv, DocsShape, W!NoDocs, W!NoState, W!KeyReused

(* What a step that leaves state and machines alone has to keep to.        *)
LEMMA KeyStep ==
  ASSUME KeyInv, DocsShape', UNCHANGED <<wState, wMachines>>,
         wPhase' \in {"components", "terraform"} =>
            wPhase \in {"components", "terraform"} /\ wDocs'.key = wDocs.key
  PROVE  KeyInv'
BY DEF KeyInv, W!KeyReused

(* and after every step: a run draws a key only without a state.           *)
LEMMA KeyNext ==
  ASSUME KeyInv, [W!Next]_(W!vars)
  PROVE  KeyInv'
<1>1. CASE W!Start
  <2>1. PICK k : k # None /\ wDocs' = [W!NoDocs EXCEPT !.key = k] /\ (wState.there => k = wState.key)
    BY <1>1, AwsAssumption DEF W!Start, W!GetPublicKey, W!Assumption
  <2>2. wDocs'.key = k /\ DocsShape'
    BY <2>1 DEF DocsShape, W!NoDocs
  <2>3. wPhase' = "components" /\ UNCHANGED <<wState, wMachines>>
    BY <1>1 DEF W!Start
  <2> QED
    BY <2>1, <2>2, <2>3 DEF KeyInv, W!KeyReused
<1>2. CASE W!BuildNetwork
  <2>1. PICK c, definition : W!GetSubnet(c, definition)
    BY <1>2 DEF W!BuildNetwork
  <2>2. wDocs'.key = wDocs.key /\ DocsShape'
    BY <2>1 DEF W!GetSubnet, W!KnownSubnet, W!NewSubnet, KeyInv, DocsShape
  <2> QED
    BY <1>2, <2>2, KeyStep DEF W!BuildNetwork
<1>3. CASE W!BuildComponent
  <2>1. wDocs' = wDocs \/ wDocs' = W!Built(Order[wIndex])
    BY <1>3 DEF W!BuildComponent
  <2>2. wDocs'.key = wDocs.key /\ DocsShape'
    BY <2>1 DEF W!Built, KeyInv, DocsShape
  <2> QED
    BY <1>3, <2>2, KeyStep DEF W!BuildComponent
<1>4. CASE W!FinishBuild
  <2>1. wDocs'.key = wDocs.key /\ DocsShape'
    BY <1>4 DEF W!FinishBuild, KeyInv, DocsShape
  <2> QED
    BY <1>4, <2>1, KeyStep DEF W!FinishBuild
<1>5. CASE W!Fail
  <2>1. DocsShape' /\ wPhase' = "idle"
    BY <1>5 DEF W!Fail, W!NoDocs, DocsShape
  <2> QED
    BY <1>5, <2>1, KeyStep DEF W!Fail
<1>6. CASE W!TerraformApply
  <2>1. DocsShape' /\ wPhase' = "idle"
    BY <1>6 DEF W!TerraformApply, W!NoDocs, DocsShape
  <2>2. wDocs.key # None /\ (wState.there => wDocs.key = wState.key)
    BY <1>6 DEF W!TerraformApply, KeyInv
  <2>3. PICK made \in SUBSET W!Wanted, gone \in SUBSET (W!Components \ W!Wanted),
             k \in {wState.key, wDocs.key}, wrote \in BOOLEAN :
          /\ made # {} => k = wDocs.key
          /\ wrote \/ (made = {} /\ gone = {} /\ k = wState.key)
          /\ wState' = [there |-> wState.there \/ wrote, key |-> k]
          /\ wMachines' = [c \in W!Components |->
               IF c \in gone THEN None
               ELSE IF c \in made /\ wMachines[c] = None THEN wDocs.key ELSE wMachines[c]]
    BY <1>6 DEF W!TerraformApply
  <2>4. wState'.there = (wState.there \/ wrote) /\ wState'.key = k /\ wState'.there \in BOOLEAN
        /\ wState' = [there |-> wState'.there, key |-> wState'.key]
    BY <2>3 DEF KeyInv
  <2>5. ASSUME ~wState'.there
        PROVE  wState'.key = None /\ \A c \in W!Components : wMachines'[c] = None
    <3>1. ~wState.there /\ made = {} /\ gone = {} /\ k = wState.key
      BY <2>3, <2>4, <2>5
    <3> QED
      BY <2>3, <2>4, <3>1 DEF KeyInv
  <2>6. ASSUME NEW c \in W!Components, wMachines'[c] # None, wState'.key # None
        PROVE  wMachines'[c] = wState'.key
    <3>1. CASE wState.there
      <4>1. k = wState.key /\ wDocs.key = wState.key
        BY <2>2, <2>3, <3>1
      <4> QED
        BY <2>3, <2>4, <2>6, <4>1 DEF KeyInv, W!KeyReused
    <3>2. CASE ~wState.there
      <4>1. wMachines[c] = None
        BY <3>2 DEF KeyInv
      <4>2. c \in made /\ wMachines'[c] = wDocs.key
        BY <2>3, <2>6, <4>1
      <4> QED
        BY <2>3, <2>4, <4>2
    <3> QED
      BY <3>1, <3>2
  <2> QED
    BY <2>1, <2>4, <2>5, <2>6 DEF KeyInv, W!KeyReused
<1>7. CASE W!TerraformDestroy
  <2>1. PICK left \in SUBSET W!Components, k \in {wState.key, None} :
          /\ wMachines' = [c \in W!Components |-> IF c \in left THEN wMachines[c] ELSE None]
          /\ wState' = IF k = None /\ \A c \in W!Components : wMachines'[c] = None
                       THEN W!NoState ELSE [there |-> TRUE, key |-> k]
    BY <1>7 DEF W!TerraformDestroy
  <2>2. wPhase' = "idle" /\ wDocs' = wDocs
    BY <1>7 DEF W!TerraformDestroy
  <2>3. CASE wState' = W!NoState /\ \A c \in W!Components : wMachines'[c] = None
    BY <2>2, <2>3 DEF KeyInv, DocsShape, W!NoState, W!KeyReused
  <2>4. CASE wState' = [there |-> TRUE, key |-> k]
    <3>1. \A c \in W!Components : wMachines'[c] # None => wMachines'[c] = wMachines[c]
      BY <2>1
    <3>2. wState'.there = TRUE /\ wState'.key = k
      BY <2>4
    <3>3. W!KeyReused'
      BY <3>1, <3>2 DEF KeyInv, W!KeyReused
    <3> QED
      BY <2>2, <2>4, <3>2, <3>3 DEF KeyInv, DocsShape
  <2> QED
    BY <2>1, <2>3, <2>4
<1>8. CASE W!Edit
  <2>1. UNCHANGED <<wPhase, wDocs, wState, wMachines>>
    BY <1>8 DEF W!Edit
  <2> QED
    BY <2>1, KeyStep DEF KeyInv, DocsShape
<1>9. CASE UNCHANGED W!vars
  <2>1. UNCHANGED <<wPhase, wDocs, wState, wMachines>>
    BY <1>9 DEF W!vars
  <2> QED
    BY <2>1, KeyStep DEF KeyInv, DocsShape
<1> QED
  BY <1>1, <1>2, <1>3, <1>4, <1>5, <1>6, <1>7, <1>8, <1>9 DEF W!Next

(***************************************************************************)
(* Machines and Terraform's state agree on the key pair, whatever part of  *)
(* an apply or a delete was done before it failed.                         *)
(***************************************************************************)
THEOREM AwsKeyReusedCorrect == Spec => []AwsKeyReused
<1>1. Init => KeyInv
  BY KeyInit DEF Init
<1>2. KeyInv /\ [Next]_vars => KeyInv'
  BY StepOfParts, KeyNext
<1>3. KeyInv => AwsKeyReused
  BY DEF KeyInv, AwsKeyReused
<1> QED
  BY <1>1, <1>2, <1>3, PTL DEF Spec

-----------------------------------------------------------------------------
(***************************************************************************)
(* AWS: subnets, security groups and the shared storage.                   *)
(***************************************************************************)
Wish(k) == wFile.components[Order[k]]
OwnSubnet == "subnet" \in wFile.own

(* Between runs there are no documents, outside of the loop is no work, and *)
(* Terraform gets the documents of all components.                         *)
Resting ==
    /\ wPhase = "terraform" => wIndex > Len(Order)
    /\ wPhase = "idle" => wDocs = W!NoDocs /\ wIndex = 1
    /\ wPhase # "components" \/ wIndex > Len(Order) => wWork = W!NoWork

(* What the component at hand has of subnets and groups so far is there,   *)
(* and of the pools it names.                                              *)
WorkKnown ==
    /\ Len(wWork.ofSubnets) = Len(wWork.ofGroups)
    /\ \A m \in 1..Len(wWork.ofSubnets) :
         /\ wWork.ofSubnets[m] \in DOMAIN wDocs.subnets
         /\ wWork.ofGroups[m] \in DOMAIN wDocs.groups
         /\ ~OwnSubnet =>
              /\ wDocs.subnets[wWork.ofSubnets[m]].pool = Wish(wIndex).subnets[m][1]
              /\ wDocs.groups[wWork.ofGroups[m]].pool = Wish(wIndex).subnets[m][1]

(* A subnet is named after the component it was made for and the number of *)
(* subnets that were made for this before: no name is given twice.         *)
SubnetNames ==
    /\ \A i \in DOMAIN wDocs.subnets : \E k \in DOMAIN Order :
         /\ wDocs.subnets[i].name[1] = Order[k]
         /\ k < wIndex \/ (k = wIndex /\ wDocs.subnets[i].name[2] < wWork.index)
    /\ \A i, j \in DOMAIN wDocs.subnets :
         wDocs.subnets[i].name = wDocs.subnets[j].name => wDocs.subnets[i] = wDocs.subnets[j]
    /\ \A i \in DOMAIN wDocs.subnets : \E g \in DOMAIN wDocs.groups :
         wDocs.groups[g].pool = wDocs.subnets[i].pool
    /\ \A i \in DOMAIN wDocs.scaling : \A m \in DOMAIN wDocs.scaling[i].subnets :
         \E k \in DOMAIN Order : k < wIndex /\ wDocs.scaling[i].subnets[m][1] = Order[k]

(* The components before the one at hand that have machines.               *)
Done == {k \in DOMAIN Order : k < wIndex /\ Wish(k).count >= 1}
PoolsAt(k) == {Wish(k).subnets[m][1] : m \in DOMAIN Wish(k).subnets}
PoolsNamed(a) ==
    {wDocs.subnets[j].pool : j \in {j \in DOMAIN wDocs.subnets :
                                      \E m \in DOMAIN a.subnets : wDocs.subnets[j].name = a.subnets[m]}}

(* One subnet and one group for a pool, with the rules of the components   *)
(* that are done; the names of a component are those of its pools.         *)
SharedSoFar ==
    ~OwnSubnet =>
      /\ Len(wDocs.groups) = Len(wDocs.subnets)
      /\ \A i \in DOMAIN wDocs.subnets : wDocs.groups[i].pool = wDocs.subnets[i].pool
      /\ \A i, j \in DOMAIN wDocs.subnets : wDocs.subnets[i].pool = wDocs.subnets[j].pool => i = j
      /\ \A k \in Done : \A p \in PoolsAt(k) :
           \E i \in DOMAIN wDocs.subnets : wDocs.subnets[i].pool = p
      /\ \A g \in DOMAIN wDocs.groups, r \in Rules :
           r \in wDocs.groups[g].rules
             <=> \E k \in Done : wDocs.groups[g].pool \in PoolsAt(k) /\ r \in Wish(k).rules
      /\ \A i \in DOMAIN wDocs.scaling :
           \E k \in Done : wDocs.scaling[i].name = Order[k] /\ PoolsNamed(wDocs.scaling[i]) = PoolsAt(k)

(* A mount target in each zone of the machines that mount the storage.     *)
StorageSoFar ==
    /\ \A s, t \in wDocs.targets : s.zone = t.zone => s = t
    /\ \A i \in DOMAIN wDocs.scaling, j \in DOMAIN wDocs.subnets :
         /\ "mount" \in wDocs.scaling[i].efs
         /\ \E m \in DOMAIN wDocs.scaling[i].subnets :
              wDocs.subnets[j].name = wDocs.scaling[i].subnets[m]
         => \E t \in wDocs.targets : t.zone = wDocs.subnets[j].zone
    /\ wPhase = "terraform" /\ wDocs.targets # {} => wDocs.nfs = W!Nfs

NetworkInv ==
    W!TypeOK /\ Resting /\ WorkKnown /\ SubnetNames /\ SharedSoFar /\ StorageSoFar

(* What is assumed of the order of the components.                         *)
LEMMA AwsOrder ==
  /\ Order \in Seq(W!Components) /\ DOMAIN Order = 1..Len(Order) /\ Len(Order) \in Nat
  /\ \A i, j \in DOMAIN Order : Order[i] = Order[j] => i = j
  /\ \A i \in DOMAIN Order : Order[i] \in W!Components
BY AwsAssumption DEF W!Assumption, W!Components

(* What an input file says of a component.                                 *)
LEMMA AwsFile ==
  ASSUME wFile \in AwsFiles, NEW c \in W!Components
  PROVE  /\ wFile.components[c].count \in Nat
         /\ wFile.components[c].subnets \in Seq(Pools \X Zones)
         /\ wFile.components[c].rules \subseteq Rules
         /\ wFile.components[c].efs \subseteq {"mount", "authorized"}
<1>1. wFile.components[c] \in W!Component
  BY AwsAssumption DEF W!Assumption, W!InputFile
<1> QED
  BY <1>1 DEF W!Component

(* select_first() returns one of those there are.                          *)
LEMMA FirstIs ==
  ASSUME NEW S \in SUBSET Nat, S # {}
  PROVE  W!Min(S) \in S
BY Smallest DEF W!Min

(* Adding a document: a document of the user's replaces those before.      *)
LEMMA Added ==
  ASSUME NEW T, NEW documents \in Seq(T), NEW d \in T, NEW kind
  PROVE  /\ W!Add(kind, documents, d) \in Seq(T)
         /\ Len(W!Add(kind, documents, d)) = Len(documents) + 1
         /\ W!Add(kind, documents, d)[Len(documents) + 1] = d
         /\ kind \in wFile.own => \A i \in 1..Len(documents) : W!Add(kind, documents, d)[i] = d
         /\ kind \notin wFile.own =>
              \A i \in 1..Len(documents) : W!Add(kind, documents, d)[i] = documents[i]
<1> DEFINE before == IF kind \in wFile.own THEN [i \in DOMAIN documents |-> d] ELSE documents
<1>1. before \in Seq(T) /\ Len(before) = Len(documents)
      /\ \A i \in 1..Len(documents) : before[i] = IF kind \in wFile.own THEN d ELSE documents[i]
  <2>1. CASE kind \in wFile.own
    <3>1. before = [i \in 1..Len(documents) |-> d]
      BY <2>1
    <3>2. before \in Seq(T)
      BY <3>1, IsSeq
    <3> QED
      BY <2>1, <3>1, <3>2
  <2>2. CASE kind \notin wFile.own
    BY <2>2
  <2> QED
    BY <2>1, <2>2
<1> HIDE DEF before
<1>2. W!Add(kind, documents, d) = Append(before, d)
  BY DEF W!Add, before
<1> QED
  BY <1>1, <1>2, AppendProperties

(* The invariant holds to begin with,                                      *)
LEMMA NetworkInit ==
  ASSUME W!Init
  PROVE  NetworkInv
<1>1. /\ wDocs = W!NoDocs /\ wWork = W!NoWork /\ wIndex = 1 /\ wPhase = "idle"
      /\ wFile \in AwsFiles /\ wState = W!NoState /\ wDrawn = {}
      /\ wMachines = [c \in W!Components |-> None]
  BY DEF W!Init
<1>2. W!TypeOK
  BY <1>1, AwsOrder DEF W!TypeOK, W!NoDocs, W!NoWork, W!NoState
<1>3. \A k \in Done : FALSE
  BY <1>1, AwsOrder DEF Done
<1> QED
  BY <1>1, <1>2, <1>3
  DEF NetworkInv, Resting, WorkKnown, SubnetNames, SharedSoFar, StorageSoFar, W!NoDocs, W!NoWork

(* A list that is one longer has what it had, and what was appended.       *)
LEMMA Longer ==
  ASSUME NEW T, NEW list \in Seq(T), NEW last \in T, NEW n, n = Len(list)
  PROVE  /\ Len(Append(list, last)) = n + 1 /\ Append(list, last)[n + 1] = last
         /\ \A m \in 1..n : Append(list, last)[m] = list[m]
BY AppendProperties

(* The subnet and the group that are there for a pool come to the work.    *)
LEMMA KnownSubnetNext ==
  ASSUME NetworkInv, wPhase = "components", wIndex <= Len(Order), NEW definition,
         Len(wWork.ofSubnets) < Len(Wish(wIndex).subnets),
         definition = Wish(wIndex).subnets[Len(wWork.ofSubnets) + 1],
         W!WithPool(wDocs.subnets, definition[1]) # {}, W!KnownSubnet(definition[1]),
         UNCHANGED <<wFile, wPhase, wIndex, wState, wMachines, wDrawn>>
  PROVE  NetworkInv'
<1> DEFINE pool == definition[1]
           n    == Len(wWork.ofSubnets)
           s    == W!Min(W!WithPool(wDocs.subnets, pool))
           g    == W!Min(W!WithPool(wDocs.groups, pool))
<1>0. W!TypeOK /\ Resting /\ WorkKnown /\ SubnetNames /\ SharedSoFar /\ StorageSoFar
  BY DEF NetworkInv
<1>1. /\ wWork.ofSubnets \in Seq(Nat) /\ wWork.ofGroups \in Seq(Nat) /\ wWork.index \in Nat
      /\ n \in Nat /\ Len(wWork.ofGroups) = n
      /\ wWork = [ofSubnets |-> wWork.ofSubnets, ofGroups |-> wWork.ofGroups, index |-> wWork.index]
  BY <1>0 DEF W!TypeOK, WorkKnown
<1>2. DOMAIN wDocs.subnets \subseteq Nat /\ DOMAIN wDocs.groups \subseteq Nat
  <2>1. /\ wDocs.subnets \in Seq([name : W!Name, pool : Pools, zone : Zones])
        /\ wDocs.groups \in Seq([name : W!Name, pool : Pools, rules : SUBSET Rules])
    <3>1. W!TypeOK
      BY <1>0
    <3> QED
      BY <3>1 DEF W!TypeOK
  <2> QED
    BY <2>1
<1>3. s \in DOMAIN wDocs.subnets /\ wDocs.subnets[s].pool = pool
  <2>1. s \in W!WithPool(wDocs.subnets, pool)
    BY <1>2, FirstIs, Zenon DEF W!WithPool
  <2> QED
    BY <2>1, Zenon DEF W!WithPool
<1>4. g \in DOMAIN wDocs.groups /\ wDocs.groups[g].pool = pool
  <2>1. W!WithPool(wDocs.groups, pool) # {}
    BY <1>0, <1>3 DEF SubnetNames, W!WithPool
  <2>2. g \in W!WithPool(wDocs.groups, pool)
    BY <1>2, <2>1, FirstIs DEF W!WithPool
  <2> QED
    BY <2>2, Zenon DEF W!WithPool
<1>5. /\ wWork'.ofSubnets = Append(wWork.ofSubnets, s)
      /\ wWork'.ofGroups = Append(wWork.ofGroups, g)
      /\ wWork'.index = wWork.index /\ wDocs' = wDocs
      /\ wWork' = [ofSubnets |-> wWork'.ofSubnets, ofGroups |-> wWork'.ofGroups, index |-> wWork'.index]
  BY <1>1 DEF W!KnownSubnet
<1> HIDE DEF s, g
<1>6. W!TypeOK'
  <2>1. wWork'.ofSubnets \in Seq(Nat) /\ wWork'.ofGroups \in Seq(Nat)
    BY <1>1, <1>2, <1>3, <1>4, <1>5, AppendProperties
  <2>2. wWork' \in [ofSubnets : Seq(Nat), ofGroups : Seq(Nat), index : Nat]
    BY <1>1, <1>5, <2>1
  <2> QED
    BY <1>0, <1>5, <2>2 DEF W!TypeOK
<1>7. Resting'
  BY <1>0, AwsOrder DEF Resting, W!TypeOK
<1>8. WorkKnown'
  <2>1. /\ Len(wWork'.ofSubnets) = n + 1 /\ Len(wWork'.ofGroups) = n + 1
        /\ wWork'.ofSubnets[n + 1] = s /\ wWork'.ofGroups[n + 1] = g
        /\ \A m \in 1..n : wWork'.ofSubnets[m] = wWork.ofSubnets[m]
                           /\ wWork'.ofGroups[m] = wWork.ofGroups[m]
    BY <1>1, <1>2, <1>3, <1>4, <1>5
  <2>2. \A m \in 1..(n + 1) : m \in 1..n \/ m = n + 1
    <3>1. n \in Nat
      BY <1>1
    <3> HIDE DEF n
    <3> QED
      BY <3>1
  <2>3. Wish(wIndex)' = Wish(wIndex) /\ OwnSubnet' = OwnSubnet
    BY DEF Wish, OwnSubnet
  <2>4. ASSUME NEW m \in 1..(n + 1)
        PROVE  /\ wWork'.ofSubnets[m] \in DOMAIN wDocs.subnets
               /\ wWork'.ofGroups[m] \in DOMAIN wDocs.groups
               /\ ~OwnSubnet =>
                    /\ wDocs.subnets[wWork'.ofSubnets[m]].pool = Wish(wIndex).subnets[m][1]
                    /\ wDocs.groups[wWork'.ofGroups[m]].pool = Wish(wIndex).subnets[m][1]
    BY <1>0, <1>3, <1>4, <2>1, <2>2, <2>4 DEF WorkKnown
  <2> QED
    BY <1>5, <2>1, <2>3, <2>4 DEF WorkKnown
<1>9. SubnetNames' /\ StorageSoFar'
  BY <1>0, <1>5 DEF SubnetNames, StorageSoFar, W!Nfs, W!Authorized
<1>10. SharedSoFar'
  <2>1. Done' = Done /\ OwnSubnet' = OwnSubnet
    <3>1. OwnSubnet' = OwnSubnet
      BY Zenon DEF OwnSubnet
    <3>2. Done' = Done
      BY DEF Done, Wish
    <3> QED
      BY <3>1, <3>2
  <2>2. \A k \in Done : PoolsAt(k)' = PoolsAt(k) /\ Wish(k)' = Wish(k)
    BY DEF PoolsAt, Wish
  <2>3. \A i \in DOMAIN wDocs.scaling :
           PoolsNamed(wDocs.scaling[i])' = PoolsNamed(wDocs.scaling[i])
    BY <1>5 DEF PoolsNamed
  <2>4. \A i \in DOMAIN wDocs.scaling :
          (\E k \in Done : wDocs.scaling[i].name = Order[k]
                            /\ PoolsNamed(wDocs.scaling[i]) = PoolsAt(k))
          => \E k \in Done' : wDocs'.scaling[i].name = Order[k]
                               /\ PoolsNamed(wDocs.scaling[i])' = PoolsAt(k)'
    BY <1>5, <2>1, <2>2, <2>3
  <2>5. \A m \in DOMAIN wDocs.groups, r \in Rules :
          (\E k \in Done : wDocs.groups[m].pool \in PoolsAt(k) /\ r \in Wish(k).rules)
          <=> \E k \in Done' : wDocs.groups[m].pool \in PoolsAt(k)' /\ r \in Wish(k)'.rules
    BY <2>1, <2>2
  <2>6. (\A k \in Done : \A p \in PoolsAt(k) :
           \E i \in DOMAIN wDocs.subnets : wDocs.subnets[i].pool = p)
        => \A k \in Done' : \A p \in PoolsAt(k)' :
             \E i \in DOMAIN wDocs'.subnets : wDocs'.subnets[i].pool = p
    BY <1>5, <2>1, <2>2
  <2> HIDE DEF Done, OwnSubnet, PoolsAt, Wish, PoolsNamed
  <2> QED
    BY <1>0, <1>5, <2>1, <2>4, <2>5, <2>6, Zenon DEF SharedSoFar
<1> QED
  BY <1>6, <1>7, <1>8, <1>9, <1>10 DEF NetworkInv

(* A subnet and a group are made for a pool that has none.                 *)
LEMMA NewSubnetNext ==
  ASSUME NetworkInv, DocsShape, wPhase = "components", wIndex <= Len(Order), NEW definition,
         Len(wWork.ofSubnets) < Len(Wish(wIndex).subnets),
         definition = Wish(wIndex).subnets[Len(wWork.ofSubnets) + 1],
         W!WithPool(wDocs.subnets, definition[1]) = {},
         W!NewSubnet(Order[wIndex], definition),
         UNCHANGED <<wFile, wPhase, wIndex, wState, wMachines, wDrawn>>
  PROVE  NetworkInv'
<1> DEFINE c    == Order[wIndex]
           pool == definition[1]
           n    == Len(wWork.ofSubnets)
           s    == Len(wDocs.subnets) + 1
           g    == Len(wDocs.groups) + 1
           name == <<c, wWork.index>>
           new  == [name |-> name, pool |-> pool, zone |-> definition[2]]
           group == [name |-> name, pool |-> pool, rules |-> {}]
           Subnet == [name : W!Name, pool : Pools, zone : Zones]
           Group == [name : W!Name, pool : Pools, rules : SUBSET Rules]
<1>0. W!TypeOK /\ Resting /\ WorkKnown /\ SubnetNames /\ SharedSoFar /\ StorageSoFar
  BY DEF NetworkInv
<1>w. /\ wWork.ofSubnets \in Seq(Nat) /\ wWork.ofGroups \in Seq(Nat)
      /\ Len(wWork.ofGroups) = n
  BY <1>0 DEF W!TypeOK, WorkKnown
<1>1. /\ wWork.index \in Nat /\ n \in Nat /\ wIndex \in DOMAIN Order /\ wIndex \in Nat
      /\ c \in W!Components
  BY <1>0, AwsOrder DEF W!TypeOK
<1>2. definition \in Pools \X Zones
  <2>1. Wish(wIndex).subnets \in Seq(Pools \X Zones)
    BY <1>0, <1>1, AwsFile DEF W!TypeOK, Wish
  <2> HIDE DEF n
  <2>2. n + 1 \in 1..Len(Wish(wIndex).subnets)
    BY <1>1, <2>1 DEF n
  <2> QED
    BY <2>1, <2>2 DEF n
<1>3. new \in Subnet /\ group \in Group
  BY <1>1, <1>2 DEF W!Name
<1>d. wDocs.subnets \in Seq(Subnet) /\ wDocs.groups \in Seq(Group)
  BY <1>0 DEF W!TypeOK
<1> HIDE DEF Subnet, Group
<1>4. /\ Len(wDocs.subnets) \in Nat /\ Len(wDocs.groups) \in Nat
      /\ DOMAIN wDocs.subnets = 1..Len(wDocs.subnets) /\ DOMAIN wDocs.groups = 1..Len(wDocs.groups)
  BY <1>d
<1>15. /\ s \in Nat /\ g \in Nat /\ DOMAIN wDocs.subnets \subseteq 1..s
       /\ DOMAIN wDocs.groups \subseteq 1..g /\ s \in 1..s /\ g \in 1..g
  BY <1>4
<1>13. /\ \A i \in 1..s : i \in DOMAIN wDocs.subnets \/ i = s
       /\ \A i \in 1..g : i \in DOMAIN wDocs.groups \/ i = g
  <2>1. \A k \in Nat : \A i \in 1..(k + 1) : i \in 1..k \/ i = k + 1
    OBVIOUS
  <2> QED
    BY <1>4, <2>1
<1> HIDE DEF s, g
<1>5. /\ wWork'.ofSubnets = Append(wWork.ofSubnets, s)
      /\ wWork'.ofGroups = Append(wWork.ofGroups, g)
      /\ wWork'.index = wWork.index + 1
      /\ wWork' = [ofSubnets |-> wWork'.ofSubnets, ofGroups |-> wWork'.ofGroups, index |-> wWork'.index]
  BY DEF W!NewSubnet, s, g
<1>6. /\ wDocs'.subnets = W!Add("subnet", wDocs.subnets, new)
      /\ wDocs'.groups = Append(wDocs.groups, group)
      /\ wDocs'.key = wDocs.key /\ wDocs'.scaling = wDocs.scaling /\ wDocs'.launch = wDocs.launch
      /\ wDocs'.targets = wDocs.targets /\ wDocs'.nfs = wDocs.nfs
  BY DEF W!NewSubnet, DocsShape
<1> HIDE DEF new, group
<1>7. /\ wDocs'.subnets \in Seq(Subnet) /\ DOMAIN wDocs'.subnets = 1..s
      /\ wDocs'.subnets[s] = new
      /\ \A i \in DOMAIN wDocs.subnets :
           wDocs'.subnets[i] = IF OwnSubnet THEN new ELSE wDocs.subnets[i]
  <2>1. /\ W!Add("subnet", wDocs.subnets, new) \in Seq(Subnet)
        /\ Len(W!Add("subnet", wDocs.subnets, new)) = s
        /\ W!Add("subnet", wDocs.subnets, new)[s] = new
        /\ "subnet" \in wFile.own =>
             \A i \in 1..Len(wDocs.subnets) : W!Add("subnet", wDocs.subnets, new)[i] = new
        /\ "subnet" \notin wFile.own =>
             \A i \in 1..Len(wDocs.subnets) :
               W!Add("subnet", wDocs.subnets, new)[i] = wDocs.subnets[i]
    <3> DEFINE old == wDocs.subnets
    <3>1. new \in Subnet /\ old \in Seq(Subnet)
      BY <1>3, <1>d
    <3>2. s = Len(old) + 1
      BY DEF s
    <3> HIDE DEF old
    <3>3. /\ W!Add("subnet", old, new) \in Seq(Subnet)
          /\ Len(W!Add("subnet", old, new)) = s /\ W!Add("subnet", old, new)[s] = new
          /\ "subnet" \in wFile.own =>
               \A i \in 1..Len(old) : W!Add("subnet", old, new)[i] = new
          /\ "subnet" \notin wFile.own =>
               \A i \in 1..Len(old) : W!Add("subnet", old, new)[i] = old[i]
      BY <3>1, <3>2, Added
    <3> QED
      BY <3>3 DEF old
  <2> QED
    BY <1>4, <1>6, <2>1 DEF OwnSubnet
<1>8. /\ wDocs'.groups \in Seq(Group) /\ DOMAIN wDocs'.groups = 1..g
      /\ wDocs'.groups[g] = group
      /\ \A i \in DOMAIN wDocs.groups : wDocs'.groups[i] = wDocs.groups[i]
  BY <1>3, <1>4, <1>d, <1>6, AppendProperties DEF g
<1>a. wDocs'.subnets \in Seq(Subnet) /\ wDocs'.groups \in Seq(Group)
  BY <1>7, <1>8
<1>b. /\ DOMAIN wDocs'.subnets = 1..s /\ wDocs'.subnets[s] = new
      /\ \A i \in DOMAIN wDocs.subnets :
           wDocs'.subnets[i] = IF OwnSubnet THEN new ELSE wDocs.subnets[i]
      /\ DOMAIN wDocs'.groups = 1..g /\ wDocs'.groups[g] = group
      /\ \A i \in DOMAIN wDocs.groups : wDocs'.groups[i] = wDocs.groups[i]
  BY <1>7, <1>8
<1>9. new.name = name /\ new.pool = pool /\ new.zone = definition[2]
      /\ group.pool = pool /\ group.rules = {}
  BY DEF new, group
<1>10. \A i \in DOMAIN wDocs.subnets : wDocs.subnets[i].pool # pool
  BY DEF W!WithPool
<1>11. \A i \in DOMAIN wDocs.subnets : wDocs.subnets[i].name # name
  <2> SUFFICES ASSUME NEW i \in DOMAIN wDocs.subnets, wDocs.subnets[i].name = name
               PROVE  FALSE
    OBVIOUS
  <2>1. PICK k \in DOMAIN Order :
          /\ name[1] = Order[k]
          /\ k < wIndex \/ (k = wIndex /\ name[2] < wWork.index)
    BY <1>0 DEF SubnetNames
  <2> QED
    BY <1>1, <2>1, AwsOrder
<1>12. \A i \in DOMAIN wDocs.scaling : \A m \in DOMAIN wDocs.scaling[i].subnets :
          wDocs.scaling[i].subnets[m] # name
  <2> SUFFICES ASSUME NEW i \in DOMAIN wDocs.scaling, NEW m \in DOMAIN wDocs.scaling[i].subnets,
                      wDocs.scaling[i].subnets[m] = name
               PROVE  FALSE
    OBVIOUS
  <2>1. PICK k \in DOMAIN Order : k < wIndex /\ name[1] = Order[k]
    BY <1>0 DEF SubnetNames
  <2> QED
    BY <1>1, <2>1, AwsOrder
<1>16. /\ Done' = Done /\ (OwnSubnet' <=> OwnSubnet) /\ Wish(wIndex)' = Wish(wIndex)
       /\ \A k \in Done : PoolsAt(k)' = PoolsAt(k) /\ Wish(k)' = Wish(k)
  BY DEF Done, Wish, OwnSubnet, PoolsAt
<1> HIDE DEF name, pool, n, c
<1>20. W!TypeOK'
  <2>1. wWork'.ofSubnets \in Seq(Nat) /\ wWork'.ofGroups \in Seq(Nat)
    BY <1>w, <1>5, <1>15, AppendProperties
  <2>2. wWork'.index \in Nat
    BY <1>1, <1>5
  <2>3. wWork' \in [ofSubnets : Seq(Nat), ofGroups : Seq(Nat), index : Nat]
    BY <1>5, <2>1, <2>2, Zenon
  <2> QED
    BY <1>0, <1>6, <1>a, <2>3 DEF W!TypeOK, Subnet, Group
<1>21. Resting'
  BY <1>0, <1>1, AwsOrder DEF Resting
<1>22. WorkKnown'
  <2>1. /\ Len(wWork'.ofSubnets) = n + 1 /\ Len(wWork'.ofGroups) = n + 1
        /\ wWork'.ofSubnets[n + 1] = s /\ wWork'.ofGroups[n + 1] = g
        /\ \A m \in 1..n : wWork'.ofSubnets[m] = wWork.ofSubnets[m]
                           /\ wWork'.ofGroups[m] = wWork.ofGroups[m]
    <3>1. Len(wWork.ofSubnets) = n
      BY DEF n
    <3>2. /\ Len(wWork'.ofSubnets) = n + 1 /\ wWork'.ofSubnets[n + 1] = s
          /\ \A m \in 1..n : wWork'.ofSubnets[m] = wWork.ofSubnets[m]
      BY <1>w, <1>5, <1>15, <3>1, Longer
    <3>3. /\ Len(wWork'.ofGroups) = n + 1 /\ wWork'.ofGroups[n + 1] = g
          /\ \A m \in 1..n : wWork'.ofGroups[m] = wWork.ofGroups[m]
      BY <1>w, <1>5, <1>15, Longer
    <3> QED
      BY <3>2, <3>3
  <2>2. \A m \in 1..(n + 1) : m \in 1..n \/ m = n + 1
    BY <1>1
  <2>3. Wish(wIndex).subnets[n + 1][1] = pool
    BY DEF pool, n
  <2>4. ASSUME NEW m \in 1..(n + 1)
        PROVE  /\ wWork'.ofSubnets[m] \in 1..s
               /\ wWork'.ofGroups[m] \in 1..g
               /\ ~OwnSubnet =>
                    /\ wDocs'.subnets[wWork'.ofSubnets[m]].pool = Wish(wIndex).subnets[m][1]
                    /\ wDocs'.groups[wWork'.ofGroups[m]].pool = Wish(wIndex).subnets[m][1]
    <3>1. CASE m \in 1..n
      <4>1. /\ wWork.ofSubnets[m] \in DOMAIN wDocs.subnets
            /\ wWork.ofGroups[m] \in DOMAIN wDocs.groups
            /\ ~OwnSubnet =>
                 /\ wDocs.subnets[wWork.ofSubnets[m]].pool = Wish(wIndex).subnets[m][1]
                 /\ wDocs.groups[wWork.ofGroups[m]].pool = Wish(wIndex).subnets[m][1]
        BY <1>0, <3>1 DEF WorkKnown, n
      <4>2. /\ wDocs'.groups[wWork.ofGroups[m]] = wDocs.groups[wWork.ofGroups[m]]
            /\ ~OwnSubnet =>
                 wDocs'.subnets[wWork.ofSubnets[m]] = wDocs.subnets[wWork.ofSubnets[m]]
        BY <1>b, <4>1
      <4>3. wWork.ofSubnets[m] \in 1..s /\ wWork.ofGroups[m] \in 1..g
        BY <1>15, <4>1
      <4> QED
        BY <2>1, <3>1, <4>1, <4>2, <4>3
    <3>2. CASE m = n + 1
      BY <1>b, <1>9, <1>15, <2>1, <2>3, <3>2
    <3> QED
      BY <2>2, <3>1, <3>2
  <2>5. Wish(wIndex') = Wish(wIndex)
    OBVIOUS
  <2> QED
    BY <1>b, <1>16, <2>1, <2>4 DEF WorkKnown
<1>23. SubnetNames'
  <2>1. ASSUME NEW i \in 1..s
        PROVE  \E k \in DOMAIN Order :
                  /\ wDocs'.subnets[i].name[1] = Order[k]
                  /\ k < wIndex \/ (k = wIndex /\ wDocs'.subnets[i].name[2] < wWork'.index)
    <3>1. CASE wDocs'.subnets[i] = new
      <4>1. wDocs'.subnets[i].name = name
        BY <1>9, <3>1
      <4>2. name[1] = Order[wIndex] /\ name[2] < wWork'.index
        BY <1>1, <1>5 DEF name, c
      <4> QED
        BY <1>1, <4>1, <4>2
    <3>2. CASE i \in DOMAIN wDocs.subnets /\ wDocs'.subnets[i] = wDocs.subnets[i]
      <4>1. PICK k \in DOMAIN Order :
              /\ wDocs.subnets[i].name[1] = Order[k]
              /\ k < wIndex \/ (k = wIndex /\ wDocs.subnets[i].name[2] < wWork.index)
        BY <1>0, <3>2 DEF SubnetNames
      <4>2. wDocs.subnets[i].name[2] \in Nat
        <5>1. wDocs.subnets[i] \in Subnet
          BY <1>d, <3>2
        <5> QED
          BY <5>1 DEF Subnet, W!Name
      <4> QED
        BY <1>1, <1>5, <3>2, <4>1, <4>2
    <3> QED
      BY <1>b, <1>13, <3>1, <3>2
  <2>2. ASSUME NEW i \in 1..s, NEW j \in 1..s, wDocs'.subnets[i].name = wDocs'.subnets[j].name
        PROVE  wDocs'.subnets[i] = wDocs'.subnets[j]
    <3>1. CASE OwnSubnet
      BY <1>b, <1>13, <3>1
    <3>2. CASE ~OwnSubnet
      BY <1>0, <1>b, <1>9, <1>11, <1>13, <2>2, <3>2 DEF SubnetNames
    <3> QED
      BY <3>1, <3>2
  <2>3. ASSUME NEW i \in 1..s
        PROVE  \E h \in 1..g : wDocs'.groups[h].pool = wDocs'.subnets[i].pool
    <3>1. CASE wDocs'.subnets[i] = new
      BY <1>b, <1>9, <1>15, <3>1
    <3>2. CASE i \in DOMAIN wDocs.subnets /\ wDocs'.subnets[i] = wDocs.subnets[i]
      <4>1. PICK h \in DOMAIN wDocs.groups : wDocs.groups[h].pool = wDocs.subnets[i].pool
        BY <1>0, <3>2 DEF SubnetNames
      <4>2. wDocs'.groups[h] = wDocs.groups[h] /\ h \in 1..g
        BY <1>b, <1>15
      <4> QED
        BY <3>2, <4>1, <4>2
    <3> QED
      BY <1>b, <1>13, <3>1, <3>2
  <2>4. \A i \in DOMAIN wDocs'.scaling : \A m \in DOMAIN wDocs'.scaling[i].subnets :
          \E k \in DOMAIN Order : k < wIndex /\ wDocs'.scaling[i].subnets[m][1] = Order[k]
    BY <1>0, <1>6 DEF SubnetNames
  <2> QED
    BY <1>b, <2>1, <2>2, <2>3, <2>4, Zenon DEF SubnetNames
<1>24. SharedSoFar'
  <2> SUFFICES ASSUME ~OwnSubnet PROVE SharedSoFar'
    BY <1>16 DEF SharedSoFar
  <2>1. s = g
    BY <1>0 DEF SharedSoFar, s, g
  <2>2. \A i \in DOMAIN wDocs.subnets : wDocs'.subnets[i] = wDocs.subnets[i]
    BY <1>b
  <2>3. \A i \in 1..s : wDocs'.groups[i].pool = wDocs'.subnets[i].pool
    BY <1>0, <1>b, <1>9, <1>13, <2>1, <2>2 DEF SharedSoFar
  <2>4. ASSUME NEW i \in 1..s, NEW j \in 1..s, wDocs'.subnets[i].pool = wDocs'.subnets[j].pool
        PROVE  i = j
    <3>1. wDocs'.subnets[s].pool = pool
      BY <1>b, <1>9
    <3>2. CASE i \in DOMAIN wDocs.subnets /\ j \in DOMAIN wDocs.subnets
      BY <1>0, <2>2, <2>4, <3>2 DEF SharedSoFar
    <3>3. CASE i = s \/ j = s
      BY <1>10, <1>13, <2>2, <2>4, <3>1, <3>3
    <3> QED
      BY <1>13, <3>2, <3>3
  <2>5. \A k \in Done : \A p \in PoolsAt(k) : \E i \in 1..s : wDocs'.subnets[i].pool = p
    BY <1>0, <1>15, <2>2 DEF SharedSoFar
  <2>6. ASSUME NEW h \in 1..g, NEW r \in Rules
        PROVE  r \in wDocs'.groups[h].rules
                 <=> \E k \in Done : wDocs'.groups[h].pool \in PoolsAt(k) /\ r \in Wish(k).rules
    <3>1. CASE h \in DOMAIN wDocs.groups
      <4>1. wDocs'.groups[h] = wDocs.groups[h]
        BY <1>b, <3>1
      <4> QED
        BY <1>0, <3>1, <4>1 DEF SharedSoFar
    <3>2. CASE h = g
      <4>1. \A k \in Done : pool \notin PoolsAt(k)
        BY <1>0, <1>10 DEF SharedSoFar
      <4> QED
        BY <1>b, <1>9, <3>2, <4>1
    <3> QED
      BY <1>13, <3>1, <3>2
  <2>7. \A i \in DOMAIN wDocs.scaling :
           PoolsNamed(wDocs.scaling[i])' = PoolsNamed(wDocs.scaling[i])
    <3> SUFFICES ASSUME NEW i \in DOMAIN wDocs.scaling
                 PROVE  PoolsNamed(wDocs.scaling[i])' = PoolsNamed(wDocs.scaling[i])
      OBVIOUS
    <3> DEFINE a == wDocs.scaling[i]
    <3>1. {j \in 1..s : \E m \in DOMAIN a.subnets : wDocs'.subnets[j].name = a.subnets[m]}
          = {j \in DOMAIN wDocs.subnets : \E m \in DOMAIN a.subnets : wDocs.subnets[j].name = a.subnets[m]}
      BY <1>b, <1>9, <1>12, <1>13, <1>15, <2>2
    <3>2. wDocs'.scaling[i] = a
      BY <1>6
    <3> HIDE DEF a
    <3> QED
      BY <1>b, <2>2, <3>1, <3>2 DEF PoolsNamed, a
  <2>8. \A i \in DOMAIN wDocs.scaling :
          \E k \in Done : wDocs.scaling[i].name = Order[k] /\ PoolsNamed(wDocs.scaling[i])' = PoolsAt(k)
    BY <1>0, <2>7 DEF SharedSoFar
  <2> QED
    <3>1. Len(wDocs'.groups) = Len(wDocs'.subnets)
      BY <1>b, <1>15, <1>a, <2>1
    <3>2. \A k \in Done' : \A p \in PoolsAt(k)' :
            \E i \in DOMAIN wDocs'.subnets : wDocs'.subnets[i].pool = p
      BY <1>b, <1>16, <2>5
    <3>3. \A h \in DOMAIN wDocs'.groups, r \in Rules :
             r \in wDocs'.groups[h].rules
               <=> \E k \in Done' : wDocs'.groups[h].pool \in PoolsAt(k)' /\ r \in Wish(k)'.rules
      BY <1>b, <1>16, <2>6
    <3>4. \A i \in DOMAIN wDocs'.scaling :
             \E k \in Done' : /\ wDocs'.scaling[i].name = Order[k]
                              /\ PoolsNamed(wDocs.scaling[i])' = PoolsAt(k)'
      BY <1>6, <1>16, <2>8
    <3> QED
      BY <1>6, <1>b, <2>3, <2>4, <3>1, <3>2, <3>3, <3>4 DEF SharedSoFar
<1>25. StorageSoFar'
  <2>1. ASSUME NEW i \in DOMAIN wDocs.scaling, NEW j \in 1..s, "mount" \in wDocs.scaling[i].efs,
               NEW m \in DOMAIN wDocs.scaling[i].subnets,
               wDocs'.subnets[j].name = wDocs.scaling[i].subnets[m]
        PROVE  \E t \in wDocs.targets : t.zone = wDocs'.subnets[j].zone
    <3>1. wDocs'.subnets[j] # new
      BY <1>9, <1>12, <2>1
    <3>2. j \in DOMAIN wDocs.subnets /\ wDocs'.subnets[j] = wDocs.subnets[j]
      BY <1>b, <1>13, <3>1
    <3> QED
      BY <1>0, <2>1, <3>2 DEF StorageSoFar
  <2> QED
    <3>1. \A i \in DOMAIN wDocs'.scaling, j \in DOMAIN wDocs'.subnets :
             /\ "mount" \in wDocs'.scaling[i].efs
             /\ \E m \in DOMAIN wDocs'.scaling[i].subnets :
                  wDocs'.subnets[j].name = wDocs'.scaling[i].subnets[m]
             => \E t \in wDocs'.targets : t.zone = wDocs'.subnets[j].zone
      <4>1. wDocs'.scaling = wDocs.scaling /\ wDocs'.targets = wDocs.targets
            /\ DOMAIN wDocs'.subnets = 1..s
        BY <1>6, <1>b
      <4> QED
        BY <2>1, <4>1
    <3>2. wPhase' # "terraform"
      OBVIOUS
    <3> QED
      BY <1>0, <1>6, <3>1, <3>2 DEF StorageSoFar
<1> QED
  BY <1>20, <1>21, <1>22, <1>23, <1>24, <1>25 DEF NetworkInv

(* A mount target in each zone of a component's subnets, one in a zone.    *)
LEMMA TargetsAdded ==
  ASSUME NEW targets, NEW subnets, NEW chosen, NEW n \in Nat, DOMAIN chosen = 1..n,
         \A s, t \in targets : s.zone = t.zone => s = t
  PROVE  LET after == W!AddTarget(targets, subnets, chosen)
         IN /\ targets \subseteq after
            /\ \A s, t \in after : s.zone = t.zone => s = t
            /\ \A j \in 1..n : \E t \in after : t.zone = subnets[chosen[j]].zone
            /\ \A t \in after : t \in targets \/ \E j \in 1..n :
                  t = [zone |-> subnets[chosen[j]].zone, subnet |-> subnets[chosen[j]].name]
<1> DEFINE zone(j)  == subnets[chosen[j]].zone
           at(j)    == [zone |-> zone(j), subnet |-> subnets[chosen[j]].name]
           first(j) == /\ \A t \in targets : t.zone # zone(j)
                       /\ \A k \in 1..(j - 1) : zone(k) # zone(j)
           new      == {at(j) : j \in {j \in 1..n : first(j)}}
           after    == targets \cup new
<1>1. W!AddTarget(targets, subnets, chosen) = after
  BY DEF W!AddTarget, W!Targets
<1>2. \A j \in 1..n : at(j).zone = zone(j)
  OBVIOUS
<1>3. \A t \in new : \E j \in 1..n : first(j) /\ t = at(j) /\ t.zone = zone(j)
  OBVIOUS
<1>4. \A j \in 1..n : first(j) => at(j) \in new
  OBVIOUS
<1> HIDE DEF at, new
<1>5. ASSUME NEW i \in 1..n, NEW j \in 1..n, first(i), first(j), zone(i) = zone(j)
      PROVE  i = j
  <2>1. ~(i < j) /\ ~(j < i)
    BY <1>5
  <2> QED
    BY <1>5, <2>1
<1> HIDE DEF zone
<1>6. ASSUME NEW s \in after, NEW t \in after, s.zone = t.zone
      PROVE  s = t
  <2>1. CASE s \in targets /\ t \in targets
    BY <2>1, <1>6
  <2>2. CASE s \in targets /\ t \in new
    BY <1>3, <1>6, <2>2
  <2>3. CASE s \in new /\ t \in targets
    BY <1>3, <1>6, <2>3
  <2>4. CASE s \in new /\ t \in new
    <3>1. PICK i \in 1..n : first(i) /\ s = at(i) /\ s.zone = zone(i)
      BY <1>3, <2>4
    <3>2. PICK j \in 1..n : first(j) /\ t = at(j) /\ t.zone = zone(j)
      BY <1>3, <2>4
    <3>3. i = j
      BY <1>5, <1>6, <3>1, <3>2
    <3> QED
      BY <3>1, <3>2, <3>3
  <2> QED
    BY <2>1, <2>2, <2>3, <2>4
<1>7. ASSUME NEW j \in 1..n
      PROVE  \E t \in after : t.zone = zone(j)
  <2> DEFINE same == {k \in 1..n : zone(k) = zone(j)}
  <2>1. CASE \E t \in targets : t.zone = zone(j)
    BY <2>1
  <2>2. CASE \A t \in targets : t.zone # zone(j)
    <3>1. same \in SUBSET Nat /\ same # {}
      OBVIOUS
    <3>2. PICK k \in same : \A i \in same : k <= i
      BY <3>1, Smallest
    <3>3. \A i \in 1..(k - 1) : zone(i) # zone(k)
      <4> SUFFICES ASSUME NEW i \in 1..(k - 1), zone(i) = zone(k)
                   PROVE  FALSE
        OBVIOUS
      <4>1. i \in same /\ i < k
        OBVIOUS
      <4> QED
        BY <3>2, <4>1
    <3>4. first(k)
      BY <2>2, <3>2, <3>3
    <3> QED
      BY <1>2, <1>4, <3>2, <3>4
  <2> QED
    BY <2>1, <2>2
<1> QED
  BY <1>1, <1>3, <1>6, <1>7 DEF at, zone

(* A component whose networks are there gets its rules, its machines and   *)
(* its mount targets.                                                      *)
LEMMA BuiltNext ==
  ASSUME NetworkInv, DocsShape, wDocs.key \in KeyNames,
         wPhase = "components", wIndex <= Len(Order), Wish(wIndex).count >= 1,
         Len(wWork.ofSubnets) = Len(Wish(wIndex).subnets),
         wDocs' = W!Built(Order[wIndex]), wIndex' = wIndex + 1, wWork' = W!NoWork,
         UNCHANGED <<wFile, wPhase, wState, wMachines, wDrawn>>
  PROVE  NetworkInv'
<1> DEFINE c     == Order[wIndex]
           wish  == wFile.components[c]
           n     == Len(wWork.ofSubnets)
           names == W!Names(wDocs.subnets, wWork.ofSubnets)
           a     == [name |-> c, count |-> wish.count, efs |-> wish.efs, launch |-> c,
                     subnets |-> names]
           l     == [name |-> c, key |-> wDocs.key,
                     groups |-> W!Names(wDocs.groups, wWork.ofGroups)]
           z     == Len(wDocs.scaling) + 1
           mine(g) == \E j \in 1..n : wWork.ofGroups[j] = g
           Subnet == [name : W!Name, pool : Pools, zone : Zones]
           Group == [name : W!Name, pool : Pools, rules : SUBSET Rules]
           Scaling == [name : W!Components, count : Nat, efs : SUBSET {"mount", "authorized"},
                       launch : W!Components, subnets : Seq(W!Name)]
           Launch == [name : W!Components, key : KeyNames, groups : Seq(W!Name)]
<1>0. W!TypeOK /\ Resting /\ WorkKnown /\ SubnetNames /\ SharedSoFar /\ StorageSoFar
  BY DEF NetworkInv
<1>1. /\ wIndex \in DOMAIN Order /\ wIndex \in Nat /\ c \in W!Components
      /\ wIndex' \in 1..Len(Order) + 1 /\ wIndex \in 1..Len(Order)
  BY <1>0, AwsOrder DEF W!TypeOK
<1>2. /\ wish.count \in Nat /\ wish.subnets \in Seq(Pools \X Zones)
      /\ wish.rules \subseteq Rules /\ wish.efs \subseteq {"mount", "authorized"}
  BY <1>0, <1>1, AwsFile DEF W!TypeOK
<1>3. /\ n \in Nat /\ DOMAIN wWork.ofSubnets = 1..n /\ DOMAIN wWork.ofGroups = 1..n
      /\ DOMAIN Wish(wIndex).subnets = 1..n
  <2>1. wWork.ofSubnets \in Seq(Nat) /\ wWork.ofGroups \in Seq(Nat)
        /\ Len(wWork.ofGroups) = Len(wWork.ofSubnets)
    BY <1>0 DEF W!TypeOK, WorkKnown
  <2>2. Wish(wIndex).subnets \in Seq(Pools \X Zones)
    BY <1>2 DEF Wish
  <2> QED
    BY <2>1, <2>2
<1>4. /\ wDocs.subnets \in Seq(Subnet) /\ wDocs.groups \in Seq(Group)
      /\ wDocs.scaling \in Seq(Scaling) /\ wDocs.launch \in Seq(Launch)
  BY <1>0 DEF W!TypeOK
<1>5. \A m \in 1..n : /\ wWork.ofSubnets[m] \in DOMAIN wDocs.subnets
                      /\ wWork.ofGroups[m] \in DOMAIN wDocs.groups
  BY <1>0 DEF WorkKnown
<1>6. /\ DOMAIN names = 1..n /\ names \in Seq(W!Name)
      /\ \A m \in 1..n : names[m] = wDocs.subnets[wWork.ofSubnets[m]].name
      /\ W!Names(wDocs.groups, wWork.ofGroups) \in Seq(W!Name)
  <2>1. names = [m \in 1..n |-> wDocs.subnets[wWork.ofSubnets[m]].name]
    BY <1>3 DEF W!Names
  <2>2. W!Names(wDocs.groups, wWork.ofGroups) = [m \in 1..n |-> wDocs.groups[wWork.ofGroups[m]].name]
    BY <1>3 DEF W!Names
  <2> HIDE DEF names, n, Subnet, Group
  <2>3. \A i \in DOMAIN wDocs.subnets : wDocs.subnets[i].name \in W!Name
    <3>1. \A i \in DOMAIN wDocs.subnets : wDocs.subnets[i] \in Subnet
      BY <1>4
    <3> QED
      BY <3>1 DEF Subnet
  <2>4. \A i \in DOMAIN wDocs.groups : wDocs.groups[i].name \in W!Name
    <3>1. \A i \in DOMAIN wDocs.groups : wDocs.groups[i] \in Group
      BY <1>4
    <3> QED
      BY <3>1 DEF Group
  <2>5. names \in [1..n -> W!Name]
    BY <1>5, <2>1, <2>3
  <2>6. W!Names(wDocs.groups, wWork.ofGroups) \in [1..n -> W!Name]
    BY <1>5, <2>2, <2>4
  <2> QED
    BY <1>3, <2>1, <2>5, <2>6, IsSeq
<1>7. /\ wDocs'.subnets = wDocs.subnets /\ wDocs'.key = wDocs.key /\ wDocs'.nfs = wDocs.nfs
      /\ wDocs'.scaling = Append(wDocs.scaling, a)
      /\ wDocs'.launch = W!Add("launch-configuration", wDocs.launch, l)
      /\ wDocs'.groups = W!AddRules(wDocs.groups, wWork.ofGroups, wish.rules)
      /\ wDocs'.targets = IF "mount" \in wish.efs
                          THEN W!AddTarget(wDocs.targets, wDocs.subnets, wWork.ofSubnets)
                          ELSE wDocs.targets
  BY DEF W!Built, DocsShape
<1>8. /\ a \in Scaling /\ l \in Launch
      /\ a.name = c /\ a.efs = wish.efs /\ a.subnets = names
  BY <1>1, <1>2, <1>6
<1> HIDE DEF a, l, names, Subnet, Group, Scaling, Launch
<1>9. wDocs'.scaling \in Seq(Scaling) /\ wDocs'.launch \in Seq(Launch)
  <2>1. wDocs'.scaling \in Seq(Scaling)
    BY <1>4, <1>7, <1>8, AppendProperties
  <2> DEFINE old == wDocs.launch
  <2>2. old \in Seq(Launch) /\ l \in Launch
    BY <1>4, <1>8
  <2> HIDE DEF old
  <2>3. W!Add("launch-configuration", old, l) \in Seq(Launch)
    BY <2>2, Added
  <2> QED
    BY <1>7, <2>1, <2>3 DEF old
<1>10. /\ DOMAIN wDocs'.scaling = 1..z /\ z \in Nat /\ wDocs'.scaling[z] = a
       /\ \A i \in DOMAIN wDocs.scaling : wDocs'.scaling[i] = wDocs.scaling[i]
       /\ \A i \in 1..z : i \in DOMAIN wDocs.scaling \/ i = z
  BY <1>4, <1>7, <1>8, AppendProperties
<1>11. /\ DOMAIN wDocs'.groups = DOMAIN wDocs.groups
       /\ \A g \in DOMAIN wDocs.groups :
            wDocs'.groups[g] = IF mine(g) THEN [wDocs.groups[g] EXCEPT !.rules = @ \cup wish.rules]
                               ELSE wDocs.groups[g]
  BY <1>3, <1>7 DEF W!AddRules
<1>12. \A g \in DOMAIN wDocs.groups :
          /\ wDocs'.groups[g] \in Group /\ wDocs'.groups[g].pool = wDocs.groups[g].pool
          /\ mine(g) => wDocs'.groups[g].rules = wDocs.groups[g].rules \cup wish.rules
          /\ ~mine(g) => wDocs'.groups[g].rules = wDocs.groups[g].rules
  <2> SUFFICES ASSUME NEW g \in DOMAIN wDocs.groups
               PROVE  /\ wDocs'.groups[g] \in Group /\ wDocs'.groups[g].pool = wDocs.groups[g].pool
                      /\ mine(g) => wDocs'.groups[g].rules = wDocs.groups[g].rules \cup wish.rules
                      /\ ~mine(g) => wDocs'.groups[g].rules = wDocs.groups[g].rules
    OBVIOUS
  <2>1. wDocs.groups[g] \in Group
    BY <1>4
  <2> HIDE DEF mine, wish
  <2> QED
    BY <1>2, <1>11, <2>1, Zenon DEF Group
<1>13. Len(wDocs'.groups) = Len(wDocs.groups) /\ wDocs'.groups \in Seq(Group)
  <2>1. Len(wDocs.groups) \in Nat /\ DOMAIN wDocs.groups = 1..Len(wDocs.groups)
    BY <1>4
  <2>2. wDocs'.groups = [g \in 1..Len(wDocs.groups) |-> wDocs'.groups[g]]
    BY <1>3, <1>7, <2>1 DEF W!AddRules
  <2>3. wDocs'.groups \in [1..Len(wDocs.groups) -> Group]
    BY <1>12, <2>1, <2>2
  <2> DEFINE G == [g \in 1..Len(wDocs.groups) |-> wDocs'.groups[g]]
  <2>4. G \in Seq(Group) /\ Len(G) = Len(wDocs.groups)
    <3>1. \A g \in 1..Len(wDocs.groups) : wDocs'.groups[g] \in Group
      BY <1>12, <2>1
    <3> QED
      BY <2>1, <3>1
  <2> QED
    BY <2>2, <2>4
<1>14. /\ wDocs.targets \subseteq wDocs'.targets
       /\ \A s, t \in wDocs'.targets : s.zone = t.zone => s = t
       /\ "mount" \in wish.efs => \A j \in 1..n : \E t \in wDocs'.targets :
            t.zone = wDocs.subnets[wWork.ofSubnets[j]].zone
       /\ \A t \in wDocs'.targets : t \in wDocs.targets \/ \E j \in 1..n :
            t = [zone |-> wDocs.subnets[wWork.ofSubnets[j]].zone,
                 subnet |-> wDocs.subnets[wWork.ofSubnets[j]].name]
  <2>1. \A s, t \in wDocs.targets : s.zone = t.zone => s = t
    BY <1>0 DEF StorageSoFar
  <2> HIDE DEF n
  <2>2. CASE "mount" \in wish.efs
    <3> DEFINE targets == wDocs.targets
               subnets == wDocs.subnets
               chosen == wWork.ofSubnets
               after == W!AddTarget(targets, subnets, chosen)
    <3>1. \A s, t \in targets : s.zone = t.zone => s = t
      BY <2>1
    <3>2. n \in Nat /\ DOMAIN chosen = 1..n /\ wDocs'.targets = after
      BY <1>3, <1>7, <2>2
    <3> HIDE DEF targets, subnets, chosen
    <3>3. /\ targets \subseteq after
          /\ \A s, t \in after : s.zone = t.zone => s = t
          /\ \A j \in 1..n : \E t \in after : t.zone = subnets[chosen[j]].zone
          /\ \A t \in after : t \in targets \/ \E j \in 1..n :
               t = [zone |-> subnets[chosen[j]].zone, subnet |-> subnets[chosen[j]].name]
      BY <3>1, <3>2, TargetsAdded
    <3> QED
      BY <3>2, <3>3 DEF targets, subnets, chosen
  <2>3. CASE "mount" \notin wish.efs
    BY <1>7, <2>1, <2>3
  <2> QED
    BY <2>2, <2>3
<1>15. /\ wish = Wish(wIndex) /\ n = Len(Wish(wIndex).subnets) /\ c = Order[wIndex]
       /\ PoolsAt(wIndex) = {Wish(wIndex).subnets[m][1] : m \in 1..n}
  BY <1>3 DEF Wish, PoolsAt
<1>16. /\ Done' = Done \cup {wIndex} /\ (OwnSubnet' <=> OwnSubnet)
       /\ \A k \in DOMAIN Order : Wish(k)' = Wish(k) /\ PoolsAt(k)' = PoolsAt(k)
       /\ \A k \in Done : k \in DOMAIN Order
  <2>1. \A k \in DOMAIN Order : Wish(k)' = Wish(k) /\ PoolsAt(k)' = PoolsAt(k)
    BY DEF Wish, PoolsAt
  <2>2. \A k \in DOMAIN Order : k < wIndex' <=> k < wIndex \/ k = wIndex
    BY <1>1, AwsOrder
  <2>3. Done' = {k \in DOMAIN Order : k < wIndex' /\ Wish(k).count >= 1}
    BY <2>1 DEF Done
  <2> QED
    BY <1>1, <2>1, <2>2, <2>3 DEF Done, OwnSubnet
<1> HIDE DEF z, mine, c, wish, n
<1>20. W!TypeOK'
  <2>1. \A t \in wDocs'.targets : t \in [zone : Zones, subnet : W!Name]
    <3>1. \A i \in DOMAIN wDocs.subnets : wDocs.subnets[i] \in Subnet
      BY <1>4
    <3>2. \A i \in DOMAIN wDocs.subnets :
             wDocs.subnets[i].zone \in Zones /\ wDocs.subnets[i].name \in W!Name
      BY <3>1 DEF Subnet
    <3>3. wDocs.targets \subseteq [zone : Zones, subnet : W!Name]
      BY <1>0 DEF W!TypeOK
    <3> QED
      BY <1>5, <1>14, <3>2, <3>3
  <2>2. W!NoWork \in [ofSubnets : Seq(Nat), ofGroups : Seq(Nat), index : Nat]
    BY DEF W!NoWork
  <2>3. wDocs'.targets \subseteq [zone : Zones, subnet : W!Name]
    BY <2>1
  <2> QED
    BY <1>0, <1>1, <1>7, <1>9, <1>13, <2>2, <2>3 DEF W!TypeOK, Group, Scaling, Launch
<1>21. Resting'
  BY DEF Resting
<1>22. WorkKnown'
  BY DEF WorkKnown, W!NoWork
<1>23. SubnetNames'
  <2>1. \A i \in DOMAIN wDocs.subnets : \E k \in DOMAIN Order :
           wDocs.subnets[i].name[1] = Order[k] /\ k < wIndex'
    <3> SUFFICES ASSUME NEW i \in DOMAIN wDocs.subnets
                 PROVE  \E k \in DOMAIN Order : wDocs.subnets[i].name[1] = Order[k] /\ k < wIndex'
      OBVIOUS
    <3>1. PICK k \in DOMAIN Order : wDocs.subnets[i].name[1] = Order[k] /\ (k < wIndex \/ k = wIndex)
      BY <1>0 DEF SubnetNames
    <3> QED
      BY <1>1, <3>1, AwsOrder
  <2>2. \A i \in DOMAIN wDocs.subnets : \E g \in DOMAIN wDocs.groups :
           wDocs'.groups[g].pool = wDocs.subnets[i].pool
    BY <1>0, <1>12 DEF SubnetNames
  <2>3. ASSUME NEW i \in 1..z, NEW m \in DOMAIN wDocs'.scaling[i].subnets
        PROVE  \E k \in DOMAIN Order : k < wIndex' /\ wDocs'.scaling[i].subnets[m][1] = Order[k]
    <3>1. CASE i \in DOMAIN wDocs.scaling
      <4>1. PICK k \in DOMAIN Order : k < wIndex /\ wDocs.scaling[i].subnets[m][1] = Order[k]
        BY <1>0, <1>10, <2>3, <3>1 DEF SubnetNames
      <4> QED
        BY <1>1, <1>10, <3>1, <4>1, AwsOrder
    <3>2. CASE i = z
      <4>1. m \in 1..n /\ wDocs'.scaling[i].subnets[m] = wDocs.subnets[wWork.ofSubnets[m]].name
        BY <1>6, <1>8, <1>10, <2>3, <3>2
      <4> QED
        BY <1>5, <2>1, <4>1
    <3> QED
      BY <1>10, <3>1, <3>2
  <2>4. \A i, j \in DOMAIN wDocs.subnets :
           wDocs.subnets[i].name = wDocs.subnets[j].name => wDocs.subnets[i] = wDocs.subnets[j]
    BY <1>0 DEF SubnetNames
  <2>5. \A i \in DOMAIN wDocs'.scaling : \A m \in DOMAIN wDocs'.scaling[i].subnets :
           \E k \in DOMAIN Order : k < wIndex' /\ wDocs'.scaling[i].subnets[m][1] = Order[k]
    BY <1>10, <2>3
  <2>6. \A i \in DOMAIN wDocs'.subnets : \E g \in DOMAIN wDocs'.groups :
           wDocs'.groups[g].pool = wDocs'.subnets[i].pool
    BY <1>7, <1>11, <2>2
  <2> QED
    BY <1>7, <2>1, <2>4, <2>5, <2>6 DEF SubnetNames
<1>24. \A j \in DOMAIN wDocs.subnets, m \in 1..n :
          wDocs.subnets[j].name = names[m] => wDocs.subnets[j] = wDocs.subnets[wWork.ofSubnets[m]]
  <2>1. \A i, j \in DOMAIN wDocs.subnets :
           wDocs.subnets[i].name = wDocs.subnets[j].name => wDocs.subnets[i] = wDocs.subnets[j]
    BY <1>0 DEF SubnetNames
  <2>2. \A m \in 1..n : names[m] = wDocs.subnets[wWork.ofSubnets[m]].name
    BY <1>6
  <2> QED
    BY <1>5, <2>1, <2>2
<1>25. SharedSoFar'
  <2> SUFFICES ASSUME ~OwnSubnet PROVE SharedSoFar'
    BY <1>16 DEF SharedSoFar
  <2>1. \A m \in 1..n : /\ wDocs.subnets[wWork.ofSubnets[m]].pool = Wish(wIndex).subnets[m][1]
                        /\ wDocs.groups[wWork.ofGroups[m]].pool = Wish(wIndex).subnets[m][1]
    BY <1>0 DEF WorkKnown, n
  <2>2. /\ Len(wDocs.groups) = Len(wDocs.subnets)
        /\ DOMAIN wDocs.groups = DOMAIN wDocs.subnets
        /\ \A i \in DOMAIN wDocs.subnets : wDocs.groups[i].pool = wDocs.subnets[i].pool
        /\ \A i, j \in DOMAIN wDocs.subnets : wDocs.subnets[i].pool = wDocs.subnets[j].pool => i = j
    <3>1. DOMAIN wDocs.groups = 1..Len(wDocs.groups) /\ DOMAIN wDocs.subnets = 1..Len(wDocs.subnets)
      BY <1>4
    <3> QED
      BY <1>0, <3>1 DEF SharedSoFar
  <2>3. \A k \in Done' : \A p \in PoolsAt(k) :
          \E i \in DOMAIN wDocs.subnets : wDocs.subnets[i].pool = p
    <3>1. \A p \in PoolsAt(wIndex) : \E i \in DOMAIN wDocs.subnets : wDocs.subnets[i].pool = p
      BY <1>5, <1>15, <2>1
    <3> QED
      BY <1>0, <1>16, <3>1 DEF SharedSoFar
  <2>4. \A g \in DOMAIN wDocs.groups : mine(g) <=> wDocs.groups[g].pool \in PoolsAt(wIndex)
    <3> SUFFICES ASSUME NEW g \in DOMAIN wDocs.groups
                 PROVE  mine(g) <=> wDocs.groups[g].pool \in PoolsAt(wIndex)
      OBVIOUS
    <3>1. ASSUME mine(g) PROVE wDocs.groups[g].pool \in PoolsAt(wIndex)
      BY <1>15, <2>1, <3>1 DEF mine
    <3>2. ASSUME wDocs.groups[g].pool \in PoolsAt(wIndex) PROVE mine(g)
      <4>1. PICK m \in 1..n : wDocs.groups[g].pool = Wish(wIndex).subnets[m][1]
        BY <1>15, <3>2
      <4>2. wDocs.groups[wWork.ofGroups[m]].pool = wDocs.groups[g].pool
            /\ wWork.ofGroups[m] \in DOMAIN wDocs.subnets /\ g \in DOMAIN wDocs.subnets
        BY <1>5, <2>1, <2>2, <4>1
      <4>3. wWork.ofGroups[m] = g
        BY <2>2, <4>2
      <4> QED
        BY <4>3 DEF mine
    <3> QED
      BY <3>1, <3>2
  <2>5. ASSUME NEW g \in DOMAIN wDocs.groups, NEW r \in Rules
        PROVE  r \in wDocs'.groups[g].rules
                 <=> \E k \in Done' : wDocs.groups[g].pool \in PoolsAt(k) /\ r \in Wish(k).rules
    <3>1. r \in wDocs.groups[g].rules
            <=> \E k \in Done : wDocs.groups[g].pool \in PoolsAt(k) /\ r \in Wish(k).rules
      BY <1>0 DEF SharedSoFar
    <3>2. CASE mine(g)
      BY <1>12, <1>15, <1>16, <2>4, <3>1, <3>2
    <3>3. CASE ~mine(g)
      BY <1>12, <1>16, <2>4, <3>1, <3>3
    <3> QED
      BY <3>2, <3>3
  <2>6. PoolsNamed(a) = PoolsAt(wIndex)
    <3>1. PoolsNamed(a) = {wDocs.subnets[j].pool : j \in {j \in DOMAIN wDocs.subnets :
                             \E m \in 1..n : wDocs.subnets[j].name = names[m]}}
      BY <1>6, <1>8 DEF PoolsNamed
    <3>2. ASSUME NEW j \in DOMAIN wDocs.subnets, NEW m \in 1..n, wDocs.subnets[j].name = names[m]
          PROVE  wDocs.subnets[j].pool \in PoolsAt(wIndex)
      BY <1>15, <1>24, <2>1, <3>2
    <3>3. ASSUME NEW m \in 1..n
          PROVE  Wish(wIndex).subnets[m][1] \in PoolsNamed(a)
      BY <1>5, <1>6, <2>1, <3>1
    <3>4. PoolsNamed(a) \subseteq PoolsAt(wIndex)
      BY <3>1, <3>2
    <3>5. PoolsAt(wIndex) \subseteq PoolsNamed(a)
      BY <1>15, <3>3
    <3> QED
      BY <3>4, <3>5
  <2>8. ASSUME NEW i \in 1..z
        PROVE  \E k \in Done' : /\ wDocs'.scaling[i].name = Order[k]
                                /\ PoolsNamed(wDocs'.scaling[i]) = PoolsAt(k)
    <3>1. CASE i \in DOMAIN wDocs.scaling
      BY <1>0, <1>10, <1>16, <3>1 DEF SharedSoFar
    <3>2. CASE i = z
      BY <1>8, <1>10, <1>15, <1>16, <2>6, <3>2
    <3> QED
      BY <1>10, <3>1, <3>2
  <2>9. \A i \in 1..z : \E k \in Done' : /\ wDocs'.scaling[i].name = Order[k]
                                         /\ PoolsNamed(wDocs.scaling[i])' = PoolsAt(k)'
    <3>1. \A i \in 1..z : PoolsNamed(wDocs.scaling[i])' = PoolsNamed(wDocs'.scaling[i])
      BY <1>7 DEF PoolsNamed
    <3> QED
      BY <1>1, <1>16, <2>8, <3>1
  <2>10. \A k \in Done' : \A p \in PoolsAt(k)' :
            \E i \in DOMAIN wDocs'.subnets : wDocs'.subnets[i].pool = p
    BY <1>1, <1>7, <1>16, <2>3
  <2>11. \A g \in DOMAIN wDocs'.groups, r \in Rules :
            r \in wDocs'.groups[g].rules
              <=> \E k \in Done' : wDocs'.groups[g].pool \in PoolsAt(k)' /\ r \in Wish(k)'.rules
    BY <1>1, <1>11, <1>12, <1>16, <2>5
  <2>12. \A i \in DOMAIN wDocs'.subnets : wDocs'.groups[i].pool = wDocs'.subnets[i].pool
    BY <1>7, <1>12, <2>2
  <2>13. Len(wDocs'.groups) = Len(wDocs'.subnets)
    BY <1>7, <1>13, <2>2
  <2>14. \A i, j \in DOMAIN wDocs'.subnets :
            wDocs'.subnets[i].pool = wDocs'.subnets[j].pool => i = j
    BY <1>7, <2>2
  <2>15. \A i \in DOMAIN wDocs'.scaling :
            \E k \in Done' : /\ wDocs'.scaling[i].name = Order[k]
                             /\ PoolsNamed(wDocs.scaling[i])' = PoolsAt(k)'
    BY <1>10, <2>9
  <2> QED
    BY <2>10, <2>11, <2>12, <2>13, <2>14, <2>15 DEF SharedSoFar
<1>26. StorageSoFar'
  <2>1. ASSUME NEW i \in 1..z, NEW j \in DOMAIN wDocs.subnets, "mount" \in wDocs'.scaling[i].efs,
               NEW m \in DOMAIN wDocs'.scaling[i].subnets,
               wDocs.subnets[j].name = wDocs'.scaling[i].subnets[m]
        PROVE  \E t \in wDocs'.targets : t.zone = wDocs.subnets[j].zone
    <3>1. CASE i \in DOMAIN wDocs.scaling
      <4>1. \E t \in wDocs.targets : t.zone = wDocs.subnets[j].zone
        BY <1>0, <1>10, <2>1, <3>1 DEF StorageSoFar
      <4> QED
        BY <1>14, <4>1
    <3>2. CASE i = z
      <4>1. m \in 1..n /\ wDocs.subnets[j].name = names[m] /\ "mount" \in wish.efs
        BY <1>6, <1>8, <1>10, <2>1, <3>2
      <4>2. wDocs.subnets[j] = wDocs.subnets[wWork.ofSubnets[m]]
        BY <1>24, <4>1
      <4> QED
        BY <1>14, <4>1, <4>2
    <3> QED
      BY <1>10, <3>1, <3>2
  <2>2. \A i \in DOMAIN wDocs'.scaling, j \in DOMAIN wDocs'.subnets :
           /\ "mount" \in wDocs'.scaling[i].efs
           /\ \E m \in DOMAIN wDocs'.scaling[i].subnets :
                wDocs'.subnets[j].name = wDocs'.scaling[i].subnets[m]
           => \E t \in wDocs'.targets : t.zone = wDocs'.subnets[j].zone
    <3> SUFFICES ASSUME NEW i \in DOMAIN wDocs'.scaling, NEW j \in DOMAIN wDocs'.subnets,
                        "mount" \in wDocs'.scaling[i].efs,
                        NEW m \in DOMAIN wDocs'.scaling[i].subnets,
                        wDocs'.subnets[j].name = wDocs'.scaling[i].subnets[m]
                 PROVE  \E t \in wDocs'.targets : t.zone = wDocs'.subnets[j].zone
      OBVIOUS
    <3>1. i \in 1..z /\ wDocs'.subnets = wDocs.subnets
      BY <1>7, <1>10
    <3> QED
      BY <2>1, <3>1
  <2> QED
    BY <1>14, <2>2 DEF StorageSoFar
<1> QED
  BY <1>20, <1>21, <1>22, <1>23, <1>25, <1>26 DEF NetworkInv

(* What holds with no documents.                                           *)
LEMMA NoNetworkYet ==
  ASSUME W!TypeOK', Resting', wIndex' = 1, wWork' = W!NoWork,
         wDocs'.subnets = <<>>, wDocs'.groups = <<>>, wDocs'.scaling = <<>>, wDocs'.targets = {}
  PROVE  NetworkInv'
<1>1. \A k \in Done' : FALSE
  BY AwsOrder DEF Done
<1>2. WorkKnown'
  BY DEF WorkKnown, W!NoWork
<1>3. SubnetNames'
  BY DEF SubnetNames
<1>4. SharedSoFar'
  BY <1>1 DEF SharedSoFar
<1>5. StorageSoFar'
  BY DEF StorageSoFar
<1> QED
  BY <1>2, <1>3, <1>4, <1>5 DEF NetworkInv

(* A run starts without documents and without work.                        *)
LEMMA NoDocsAre ==
  /\ W!NoDocs.key = None /\ W!NoDocs.subnets = <<>> /\ W!NoDocs.groups = <<>>
  /\ W!NoDocs.scaling = <<>> /\ W!NoDocs.launch = <<>> /\ W!NoDocs.targets = {} /\ W!NoDocs.nfs = {}
  /\ \A T : <<>> \in Seq(T)
  /\ W!NoWork \in [ofSubnets : Seq(Nat), ofGroups : Seq(Nat), index : Nat]
BY DEF W!NoDocs, W!NoWork

(* A component without machines is passed over.                            *)
LEMMA SkippedNext ==
  ASSUME NetworkInv, wPhase = "components", wIndex <= Len(Order), Wish(wIndex).count < 1,
         UNCHANGED wDocs, wIndex' = wIndex + 1, wWork' = W!NoWork,
         UNCHANGED <<wFile, wPhase, wState, wMachines, wDrawn>>
  PROVE  NetworkInv'
<1>0. W!TypeOK /\ Resting /\ WorkKnown /\ SubnetNames /\ SharedSoFar /\ StorageSoFar
  BY DEF NetworkInv
<1>1. /\ wIndex \in DOMAIN Order /\ wIndex \in Nat /\ Order[wIndex] \in W!Components
      /\ wIndex' \in 1..Len(Order) + 1
  BY <1>0, AwsOrder DEF W!TypeOK
<1>2. \A k \in DOMAIN Order : k < wIndex' <=> k < wIndex \/ k = wIndex
  BY <1>1, AwsOrder
<1>3. ~(Wish(wIndex).count >= 1)
  BY <1>0, <1>1, AwsFile DEF W!TypeOK, Wish
<1>4. Done' = Done /\ (OwnSubnet' <=> OwnSubnet)
      /\ \A k \in Done : Wish(k)' = Wish(k) /\ PoolsAt(k)' = PoolsAt(k)
  <2>1. Done' = {k \in DOMAIN Order : k < wIndex' /\ Wish(k).count >= 1}
    BY DEF Done, Wish
  <2> QED
    BY <1>2, <1>3, <2>1 DEF Done, OwnSubnet, Wish, PoolsAt
<1>5. W!TypeOK'
  BY <1>0, <1>1, NoDocsAre DEF W!TypeOK
<1>6. Resting'
  BY DEF Resting
<1>7. WorkKnown'
  BY DEF WorkKnown, W!NoWork
<1>8. SubnetNames'
  <2>1. \A i \in DOMAIN wDocs.subnets : \E k \in DOMAIN Order :
           wDocs.subnets[i].name[1] = Order[k] /\ k < wIndex'
    BY <1>0, <1>2 DEF SubnetNames
  <2>2. \A i \in DOMAIN wDocs.scaling : \A m \in DOMAIN wDocs.scaling[i].subnets :
           \E k \in DOMAIN Order : k < wIndex' /\ wDocs.scaling[i].subnets[m][1] = Order[k]
    BY <1>0, <1>2 DEF SubnetNames
  <2> QED
    BY <1>0, <2>1, <2>2 DEF SubnetNames
<1>9. SharedSoFar'
  <2>1. \A i \in DOMAIN wDocs.scaling :
           PoolsNamed(wDocs.scaling[i])' = PoolsNamed(wDocs.scaling[i])
    BY DEF PoolsNamed
  <2> QED
    BY <1>0, <1>4, <2>1 DEF SharedSoFar
<1>10. StorageSoFar'
  BY <1>0 DEF StorageSoFar
<1> QED
  BY <1>5, <1>6, <1>7, <1>8, <1>9, <1>10 DEF NetworkInv

(* and after every step of a run.                                          *)
LEMMA NetworkNext ==
  ASSUME NetworkInv, KeyInv, [W!Next]_(W!vars)
  PROVE  NetworkInv'
<1>0. W!TypeOK /\ Resting /\ WorkKnown /\ SubnetNames /\ SharedSoFar /\ StorageSoFar
      /\ DocsShape
  BY DEF NetworkInv, KeyInv
<1>1. CASE W!Start
  <2>1. /\ wPhase = "idle" /\ wPhase' = "components" /\ wIndex' = 1
        /\ UNCHANGED <<wFile, wWork, wState, wMachines>>
    BY <1>1 DEF W!Start
  <2>2. PICK k \in KeyNames \cup {None} : wDocs' = [W!NoDocs EXCEPT !.key = k] /\ wDrawn' \subseteq KeyNames
    <3>1. W!GetPublicKey /\ wDrawn \subseteq KeyNames /\ wState.key \in KeyNames \cup {None}
      BY <1>0, <1>1 DEF W!Start, W!TypeOK
    <3>2. CASE wState.there
      BY <3>1, <3>2 DEF W!GetPublicKey
    <3>3. CASE ~wState.there
      <4>1. PICK k \in KeyNames \ wDrawn : wDrawn' = wDrawn \cup {k}
                                         /\ wDocs' = [W!NoDocs EXCEPT !.key = k]
        BY <3>1, <3>3 DEF W!GetPublicKey
      <4> QED
        BY <3>1, <4>1
    <3> QED
      BY <3>2, <3>3
  <2>3. /\ wDocs'.key = k /\ wDocs'.subnets = <<>> /\ wDocs'.groups = <<>> /\ wDocs'.scaling = <<>>
        /\ wDocs'.launch = <<>> /\ wDocs'.targets = {} /\ wDocs'.nfs = {}
    BY <2>2 DEF W!NoDocs
  <2>4. wWork = W!NoWork
    BY <1>0, <2>1 DEF Resting
  <2>5. W!TypeOK'
    <3>1. wIndex' \in 1..Len(Order) + 1
      BY <2>1, AwsOrder
    <3> QED
      BY <1>0, <2>1, <2>2, <2>3, <3>1, NoDocsAre, Zenon DEF W!TypeOK
  <2>6. Resting'
    BY <2>1, <2>4 DEF Resting
  <2> QED
    BY <2>1, <2>3, <2>4, <2>5, <2>6, NoNetworkYet
<1>2. CASE W!BuildNetwork
  <2> DEFINE definition == Wish(wIndex).subnets[Len(wWork.ofSubnets) + 1]
  <2>1. /\ wPhase = "components" /\ wIndex <= Len(Order)
        /\ Len(wWork.ofSubnets) < Len(Wish(wIndex).subnets)
        /\ W!GetSubnet(Order[wIndex], definition)
        /\ UNCHANGED <<wFile, wPhase, wIndex, wState, wMachines, wDrawn>>
    BY <1>2 DEF W!BuildNetwork, Wish
  <2>2. CASE W!WithPool(wDocs.subnets, definition[1]) # {}
    <3>1. W!KnownSubnet(definition[1])
      BY <2>1, <2>2 DEF W!GetSubnet
    <3> QED
      BY <2>1, <2>2, <3>1, KnownSubnetNext
  <2>3. CASE W!WithPool(wDocs.subnets, definition[1]) = {}
    <3>1. W!NewSubnet(Order[wIndex], definition)
      BY <2>1, <2>3 DEF W!GetSubnet
    <3> QED
      BY <1>0, <2>1, <2>3, <3>1, NewSubnetNext
  <2> QED
    BY <2>2, <2>3
<1>3. CASE W!BuildComponent
  <2>1. /\ wPhase = "components" /\ wIndex <= Len(Order)
        /\ IF Wish(wIndex).count < 1 THEN UNCHANGED wDocs
           ELSE /\ Len(wWork.ofSubnets) = Len(Wish(wIndex).subnets)
                /\ wDocs' = W!Built(Order[wIndex])
        /\ wIndex' = wIndex + 1 /\ wWork' = W!NoWork
        /\ UNCHANGED <<wFile, wPhase, wState, wMachines, wDrawn>>
    BY <1>3 DEF W!BuildComponent, Wish
  <2>2. wDocs.key \in KeyNames
    BY <1>0, <2>1 DEF KeyInv, W!TypeOK
  <2>3. Wish(wIndex).count \in Nat
    BY <1>0, <2>1, AwsOrder, AwsFile DEF W!TypeOK, Wish
  <2>4. CASE Wish(wIndex).count < 1
    BY <2>1, <2>4, SkippedNext
  <2>5. CASE ~(Wish(wIndex).count < 1)
    <3>1. Wish(wIndex).count >= 1
      BY <2>3, <2>5
    <3> QED
      BY <1>0, <2>1, <2>2, <2>5, <3>1, BuiltNext
  <2> QED
    BY <2>4, <2>5
<1>4. CASE W!FinishBuild
  <2>1. /\ wPhase = "components" /\ wIndex > Len(Order) /\ wPhase' = "terraform"
        /\ wDocs' = wDocs \/ wDocs' = [wDocs EXCEPT !.nfs = W!Nfs]
        /\ wDocs.targets # {} => wDocs' = [wDocs EXCEPT !.nfs = W!Nfs]
        /\ UNCHANGED <<wFile, wIndex, wWork, wState, wMachines, wDrawn>>
    BY <1>4 DEF W!FinishBuild
  <2>2. /\ wDocs'.key = wDocs.key /\ wDocs'.subnets = wDocs.subnets /\ wDocs'.groups = wDocs.groups
        /\ wDocs'.scaling = wDocs.scaling /\ wDocs'.launch = wDocs.launch
        /\ wDocs'.targets = wDocs.targets
        /\ wDocs'.nfs \in {wDocs.nfs, W!Nfs}
        /\ wDocs.targets # {} => wDocs'.nfs = W!Nfs
    BY <1>0, <2>1 DEF DocsShape
  <2>3. W!Nfs' = W!Nfs
    BY <2>2 DEF W!Nfs, W!Authorized
  <2>4. W!Nfs \subseteq Pools
    <3> DEFINE Subnet == [name : W!Name, pool : Pools, zone : Zones]
    <3>1. wDocs.subnets \in Seq(Subnet)
      BY <1>0 DEF W!TypeOK
    <3> HIDE DEF Subnet
    <3>2. \A i \in DOMAIN wDocs.subnets : wDocs.subnets[i] \in Subnet
      BY <3>1
    <3>3. \A i \in DOMAIN wDocs.subnets : wDocs.subnets[i].pool \in Pools
      BY <3>2 DEF Subnet
    <3> QED
      BY <3>3 DEF W!Nfs
  <2>5. W!TypeOK'
    BY <1>0, <2>1, <2>2, <2>4 DEF W!TypeOK
  <2>6. Resting'
    BY <1>0, <2>1 DEF Resting
  <2>7. WorkKnown' /\ SubnetNames'
    BY <1>0, <2>1, <2>2 DEF WorkKnown, SubnetNames, Wish, OwnSubnet
  <2>8. SharedSoFar'
    <3>1. \A i \in DOMAIN wDocs.scaling :
             PoolsNamed(wDocs.scaling[i])' = PoolsNamed(wDocs.scaling[i])
      BY <2>2 DEF PoolsNamed
    <3>2. Done' = Done /\ (OwnSubnet' <=> OwnSubnet)
          /\ \A k \in Done : Wish(k)' = Wish(k) /\ PoolsAt(k)' = PoolsAt(k)
      BY <2>1 DEF Done, Wish, OwnSubnet, PoolsAt
    <3> QED
      BY <1>0, <2>2, <3>1, <3>2 DEF SharedSoFar
  <2>9. StorageSoFar'
    BY <1>0, <2>1, <2>2, <2>3 DEF StorageSoFar
  <2> QED
    BY <2>5, <2>6, <2>7, <2>8, <2>9 DEF NetworkInv
<1>5. CASE W!Fail \/ W!TerraformApply \/ W!TerraformDestroy \/ W!Edit
  <2>1. /\ wPhase' = "idle" /\ wDocs' = W!NoDocs /\ wIndex' = 1 /\ wWork' = W!NoWork
        /\ wFile' \in AwsFiles /\ wDrawn' = wDrawn
    BY <1>0, <1>5 DEF W!Fail, W!TerraformApply, W!TerraformDestroy, W!Edit, Resting, W!TypeOK
  <2>2. /\ wState' \in [there : BOOLEAN, key : KeyNames \cup {None}]
        /\ wMachines' \in [W!Components -> KeyNames \cup {None}]
    <3>1. CASE W!Fail \/ W!Edit
      BY <1>0, <3>1 DEF W!Fail, W!Edit, W!TypeOK
    <3>2. CASE W!TerraformApply
      <4>1. PICK made \in SUBSET W!Wanted, gone \in SUBSET (W!Components \ W!Wanted),
                 k \in {wState.key, wDocs.key}, wrote \in BOOLEAN :
              /\ wState' = [there |-> wState.there \/ wrote, key |-> k]
              /\ wMachines' = [c \in W!Components |->
                   IF c \in gone THEN None
                   ELSE IF c \in made /\ wMachines[c] = None THEN wDocs.key ELSE wMachines[c]]
        BY <3>2 DEF W!TerraformApply
      <4>2. k \in KeyNames \cup {None} /\ wDocs.key \in KeyNames \cup {None}
            /\ (wState.there \/ wrote) \in BOOLEAN
            /\ \A c \in W!Components : wMachines[c] \in KeyNames \cup {None}
        BY <1>0 DEF W!TypeOK
      <4> QED
        BY <4>1, <4>2
    <3>3. CASE W!TerraformDestroy
      <4>1. PICK left \in SUBSET W!Components, k \in {wState.key, None} :
              /\ wMachines' = [c \in W!Components |-> IF c \in left THEN wMachines[c] ELSE None]
              /\ wState' = W!NoState \/ wState' = [there |-> TRUE, key |-> k]
        BY <3>3 DEF W!TerraformDestroy
      <4>2. k \in KeyNames \cup {None}
            /\ \A c \in W!Components : wMachines[c] \in KeyNames \cup {None}
        BY <1>0 DEF W!TypeOK
      <4>3. wMachines' \in [W!Components -> KeyNames \cup {None}]
        BY <4>1, <4>2
      <4>4. W!NoState \in [there : BOOLEAN, key : KeyNames \cup {None}]
        BY DEF W!NoState
      <4>5. [there |-> TRUE, key |-> k] \in [there : BOOLEAN, key : KeyNames \cup {None}]
        BY <4>2
      <4> QED
        BY <4>1, <4>3, <4>4, <4>5, Zenon
    <3> QED
      BY <1>5, <3>1, <3>2, <3>3
  <2>3. W!TypeOK'
    <3>1. wIndex' \in 1..Len(Order) + 1
      BY <2>1, AwsOrder
    <3> QED
      BY <1>0, <2>1, <2>2, <3>1, NoDocsAre DEF W!TypeOK
  <2>4. Resting'
    BY <2>1 DEF Resting
  <2> QED
    BY <2>1, <2>3, <2>4, NoDocsAre, NoNetworkYet
<1>6. CASE UNCHANGED W!vars
  <2>1. UNCHANGED <<wFile, wPhase, wIndex, wDocs, wWork, wState, wMachines, wDrawn>>
    BY <1>6 DEF W!vars
  <2>2. W!TypeOK'
    BY <1>0, <2>1 DEF W!TypeOK
  <2>3. Resting'
    BY <1>0, <2>1 DEF Resting
  <2>4. WorkKnown'
    BY <1>0, <2>1 DEF WorkKnown, Wish, OwnSubnet
  <2>5. SubnetNames'
    BY <1>0, <2>1 DEF SubnetNames
  <2>6. SharedSoFar'
    <3>1. \A i \in DOMAIN wDocs.scaling :
             PoolsNamed(wDocs.scaling[i])' = PoolsNamed(wDocs.scaling[i])
      BY <2>1 DEF PoolsNamed
    <3>2. Done' = Done /\ (OwnSubnet' <=> OwnSubnet)
          /\ \A k \in Done : Wish(k)' = Wish(k) /\ PoolsAt(k)' = PoolsAt(k)
      BY <2>1 DEF Done, Wish, OwnSubnet, PoolsAt
    <3> QED
      BY <1>0, <2>1, <3>1, <3>2 DEF SharedSoFar
  <2>7. StorageSoFar'
    BY <1>0, <2>1 DEF StorageSoFar, W!Nfs, W!Authorized
  <2> QED
    BY <2>2, <2>3, <2>4, <2>5, <2>6, <2>7 DEF NetworkInv
<1> QED
  BY <1>1, <1>2, <1>3, <1>4, <1>5, <1>6 DEF W!Next

(* So both hold in every behaviour of the whole.                           *)
LEMMA NetworkInvHolds == Spec => []NetworkInv
<1>1. Init => KeyInv /\ NetworkInv
  BY KeyInit, NetworkInit DEF Init
<1>2. KeyInv /\ NetworkInv /\ [Next]_vars => KeyInv' /\ NetworkInv'
  BY StepOfParts, KeyNext, NetworkNext
<1> QED
  BY <1>1, <1>2, PTL DEF Spec

(* With all components done, those that have machines are the done ones.   *)
LEMMA AllDone ==
  ASSUME NetworkInv, wPhase = "terraform"
  PROVE  /\ \A c \in W!Active : \E k \in Done :
              /\ c = Order[k] /\ wFile.components[c].rules = Wish(k).rules
              /\ W!PoolsOf(c) = PoolsAt(k)
         /\ \A k \in Done :
              /\ Order[k] \in W!Active /\ wFile.components[Order[k]].rules = Wish(k).rules
              /\ W!PoolsOf(Order[k]) = PoolsAt(k)
<1>1. wIndex > Len(Order) /\ wIndex \in Nat
  BY AwsOrder DEF NetworkInv, Resting, W!TypeOK
<1>2. \A k \in DOMAIN Order : k < wIndex
  BY <1>1, AwsOrder
<1>3. \A k \in DOMAIN Order : W!PoolsOf(Order[k]) = PoolsAt(k)
  BY DEF W!PoolsOf, W!ToSet, PoolsAt, Wish
<1> QED
  BY <1>2, <1>3 DEF W!Active, W!Components, Done, Wish

(* The documents that component a refers to by name.                       *)
LEMMA NamedIs ==
  ASSUME NEW a
  PROVE  UNION {W!Named(n) : n \in W!ToSet(a.subnets)}
         = {j \in DOMAIN wDocs.subnets : \E m \in DOMAIN a.subnets : wDocs.subnets[j].name = a.subnets[m]}
BY DEF W!Named, W!ToSet

(* The instance's Cardinality is that of FiniteSets.                       *)
LEMMA SingleIs ==
  ASSUME NEW x
  PROVE  W!Cardinality({x}) = 1
<1>1. W!Cardinality({x}) = Cardinality({x})
  BY DEF W!Cardinality, Cardinality
<1> QED
  BY <1>1, FS_Singleton

(***************************************************************************)
(* On AWS an address pool becomes one subnet and one group however many    *)
(* components name it, the machines of each component are in its pools,    *)
(* and a group has the rules of the components of its pool and no other.   *)
(***************************************************************************)
THEOREM AwsNetworksCorrect == Spec => []AwsNetworks
<1>1. NetworkInv => AwsNetworks
  <2> SUFFICES ASSUME NetworkInv PROVE AwsNetworks
    OBVIOUS
  <2>1. W!TypeOK /\ SharedSoFar
    BY DEF NetworkInv
  <2>2. W!PoolsShared
    <3> SUFFICES ASSUME wPhase = "terraform", ~OwnSubnet
                 PROVE  /\ \A p \in UNION {W!PoolsOf(c) : c \in W!Active} :
                             /\ W!Cardinality(W!WithPool(wDocs.subnets, p)) = 1
                             /\ W!Cardinality(W!WithPool(wDocs.groups, p)) = 1
                        /\ \A i \in DOMAIN wDocs.scaling :
                             {wDocs.subnets[j].pool :
                                j \in UNION {W!Named(n) : n \in W!ToSet(wDocs.scaling[i].subnets)}}
                               = W!PoolsOf(wDocs.scaling[i].name)
      <4>1. W!ToApply /\ "subnet" \notin wFile.own => wPhase = "terraform" /\ ~OwnSubnet
        BY DEF W!ToApply, OwnSubnet
      <4> QED
        BY <4>1 DEF W!PoolsShared
    <3>1. DOMAIN wDocs.groups = DOMAIN wDocs.subnets
      BY <2>1 DEF SharedSoFar, W!TypeOK
    <3>2. ASSUME NEW c \in W!Active, NEW p \in W!PoolsOf(c)
          PROVE  /\ W!Cardinality(W!WithPool(wDocs.subnets, p)) = 1
                 /\ W!Cardinality(W!WithPool(wDocs.groups, p)) = 1
      <4>1. PICK k \in Done : p \in PoolsAt(k)
        BY <3>2, AllDone
      <4>2. PICK i \in DOMAIN wDocs.subnets : wDocs.subnets[i].pool = p
        BY <2>1, <4>1 DEF SharedSoFar
      <4>3. W!WithPool(wDocs.subnets, p) = {i}
        BY <2>1, <4>2 DEF SharedSoFar, W!WithPool
      <4>4. W!WithPool(wDocs.groups, p) = {i}
        BY <2>1, <3>1, <4>2 DEF SharedSoFar, W!WithPool
      <4> QED
        BY <4>3, <4>4, SingleIs
    <3>3. ASSUME NEW i \in DOMAIN wDocs.scaling
          PROVE  {wDocs.subnets[j].pool :
                    j \in UNION {W!Named(n) : n \in W!ToSet(wDocs.scaling[i].subnets)}}
                   = W!PoolsOf(wDocs.scaling[i].name)
      <4>1. PICK k \in Done : wDocs.scaling[i].name = Order[k]
                              /\ PoolsNamed(wDocs.scaling[i]) = PoolsAt(k)
        BY <2>1 DEF SharedSoFar
      <4>2. W!PoolsOf(Order[k]) = PoolsAt(k)
        BY AllDone
      <4> QED
        BY <4>1, <4>2, NamedIs DEF PoolsNamed
    <3> QED
      BY <3>2, <3>3
  <2>3. W!RulesExact
    <3> SUFFICES ASSUME wPhase = "terraform", ~OwnSubnet, NEW g \in DOMAIN wDocs.groups
                 PROVE  wDocs.groups[g].rules =
                          UNION {wFile.components[c].rules :
                                   c \in {c \in W!Active : wDocs.groups[g].pool \in W!PoolsOf(c)}}
      BY DEF W!RulesExact, W!ToApply, OwnSubnet
    <3> DEFINE wanted == UNION {wFile.components[c].rules :
                                  c \in {c \in W!Active : wDocs.groups[g].pool \in W!PoolsOf(c)}}
    <3>1. \A r \in Rules : r \in wDocs.groups[g].rules <=>
             \E k \in Done : wDocs.groups[g].pool \in PoolsAt(k) /\ r \in Wish(k).rules
      BY <2>1 DEF SharedSoFar
    <3>2. wDocs.groups[g].rules \subseteq Rules
      <4> DEFINE Group == [name : W!Name, pool : Pools, rules : SUBSET Rules]
      <4>1. wDocs.groups \in Seq(Group)
        BY <2>1 DEF W!TypeOK
      <4> HIDE DEF Group
      <4>2. wDocs.groups[g] \in Group
        BY <4>1
      <4> QED
        BY <4>2 DEF Group
    <3>3. ASSUME NEW r \in wDocs.groups[g].rules
          PROVE  r \in wanted
      BY <3>1, <3>2, AllDone
    <3>4. ASSUME NEW r \in wanted
          PROVE  r \in wDocs.groups[g].rules
      <4>1. PICK c \in W!Active : wDocs.groups[g].pool \in W!PoolsOf(c) /\ r \in wFile.components[c].rules
        OBVIOUS
      <4>2. r \in Rules
        BY <2>1, <4>1, AwsFile DEF W!Active, W!TypeOK
      <4>3. \E k \in Done : wDocs.groups[g].pool \in PoolsAt(k) /\ r \in Wish(k).rules
        BY <4>1, AllDone
      <4> QED
        BY <3>1, <4>2, <4>3
    <3> QED
      BY <3>3, <3>4
  <2> QED
    BY <2>1, <2>2, <2>3 DEF AwsNetworks
<1> QED
  BY <1>1, NetworkInvHolds, PTL

(***************************************************************************)
(* Machines reach the storage they mount in their zone, with the subnets   *)
(* of those that may let in, on AWS; and find the cloud-config.yml of      *)
(* their distribution, on Azure.                                           *)
(***************************************************************************)
THEOREM MachinesServedCorrect == Spec => []MachinesServed
<1>1. NetworkInv => W!StorageReachable
  <2> SUFFICES ASSUME NetworkInv, wPhase = "terraform", wDocs.targets # {}
               PROVE  /\ \A s, t \in wDocs.targets : s.zone = t.zone => s = t
                      /\ \A i \in DOMAIN wDocs.scaling : LET a == wDocs.scaling[i] IN
                           /\ "mount" \in a.efs =>
                                \A j \in UNION {W!Named(n) : n \in W!ToSet(a.subnets)} :
                                  \E t \in wDocs.targets : t.zone = wDocs.subnets[j].zone
                           /\ "authorized" \in a.efs =>
                                {wDocs.subnets[j].pool :
                                   j \in UNION {W!Named(n) : n \in W!ToSet(a.subnets)}} \subseteq wDocs.nfs
    BY DEF W!StorageReachable, W!ToApply
  <2>1. StorageSoFar /\ wDocs.nfs = W!Nfs
    BY DEF NetworkInv, StorageSoFar
  <2>2. ASSUME NEW i \in DOMAIN wDocs.scaling, "mount" \in wDocs.scaling[i].efs,
               NEW j \in UNION {W!Named(n) : n \in W!ToSet(wDocs.scaling[i].subnets)}
        PROVE  \E t \in wDocs.targets : t.zone = wDocs.subnets[j].zone
    <3>1. j \in DOMAIN wDocs.subnets /\ \E m \in DOMAIN wDocs.scaling[i].subnets :
            wDocs.subnets[j].name = wDocs.scaling[i].subnets[m]
      BY NamedIs
    <3> QED
      BY <2>1, <2>2, <3>1 DEF StorageSoFar
  <2>3. ASSUME NEW i \in DOMAIN wDocs.scaling, "authorized" \in wDocs.scaling[i].efs,
               NEW j \in UNION {W!Named(n) : n \in W!ToSet(wDocs.scaling[i].subnets)}
        PROVE  wDocs.subnets[j].pool \in wDocs.nfs
    <3>1. PICK n \in W!ToSet(wDocs.scaling[i].subnets) : j \in W!Named(n)
      OBVIOUS
    <3>2. j \in DOMAIN wDocs.subnets /\ wDocs.subnets[j].name = n
      BY <3>1 DEF W!Named
    <3>3. n \in W!Authorized
      BY <2>3, <3>1 DEF W!Authorized
    <3> QED
      BY <2>1, <3>2, <3>3 DEF W!Nfs
  <2> QED
    BY <2>1, <2>2, <2>3 DEF StorageSoFar
<1>2. AzureInv => Z!CustomDataThere
  BY DEF AzureInv, CustomOfFirst
<1>3. NetworkInv /\ AzureInv => MachinesServed
  BY <1>1, <1>2 DEF MachinesServed
<1> QED
  BY <1>3, NetworkInvHolds, AzureInvHolds, PTL

(***************************************************************************)
(* AWS: what documents refer to.                                           *)
(***************************************************************************)
OwnLaunch == "launch-configuration" \in wFile.own

(* No group and no launch configuration has the name of another.           *)
GroupNames ==
    /\ \A i \in DOMAIN wDocs.groups : \E k \in DOMAIN Order :
         /\ wDocs.groups[i].name[1] = Order[k]
         /\ k < wIndex \/ (k = wIndex /\ wDocs.groups[i].name[2] < wWork.index)
    /\ \A i, j \in DOMAIN wDocs.groups : wDocs.groups[i].name = wDocs.groups[j].name => i = j

LaunchNames ==
    ~OwnLaunch =>
      /\ DOMAIN wDocs.launch = DOMAIN wDocs.scaling
      /\ \A i \in DOMAIN wDocs.launch :
           /\ wDocs.launch[i].name = wDocs.scaling[i].launch
           /\ \E k \in DOMAIN Order : k < wIndex /\ wDocs.launch[i].name = Order[k]
      /\ \A i, j \in DOMAIN wDocs.launch : wDocs.launch[i].name = wDocs.launch[j].name => i = j

(* What is named has been made.                                            *)
AwsLinked ==
    /\ \A i \in DOMAIN wDocs.launch : \A m \in DOMAIN wDocs.launch[i].groups :
         \E g \in DOMAIN wDocs.groups : wDocs.groups[g].name = wDocs.launch[i].groups[m]
    /\ ~OwnSubnet =>
         /\ \A i \in DOMAIN wDocs.scaling : \A m \in DOMAIN wDocs.scaling[i].subnets :
              \E j \in DOMAIN wDocs.subnets : wDocs.subnets[j].name = wDocs.scaling[i].subnets[m]
         /\ \A t \in wDocs.targets : \E j \in DOMAIN wDocs.subnets : wDocs.subnets[j].name = t.subnet

ReferencesInv == GroupNames /\ LaunchNames /\ AwsLinked

(* A new group has a name of its own.                                      *)
LEMMA NewSubnetLinked ==
  ASSUME NetworkInv, DocsShape, ReferencesInv, wPhase = "components", wIndex <= Len(Order),
         NEW definition, W!NewSubnet(Order[wIndex], definition), UNCHANGED <<wFile, wIndex>>,
         definition[1] \in Pools, definition[2] \in Zones
  PROVE  ReferencesInv'
<1> DEFINE c    == Order[wIndex]
           g    == Len(wDocs.groups) + 1
           s    == Len(wDocs.subnets) + 1
           name == <<c, wWork.index>>
           new  == [name |-> name, pool |-> definition[1], zone |-> definition[2]]
           group == [name |-> name, pool |-> definition[1], rules |-> {}]
           Subnet == [name : W!Name, pool : Pools, zone : Zones]
           Group == [name : W!Name, pool : Pools, rules : SUBSET Rules]
<1>0. W!TypeOK /\ GroupNames /\ LaunchNames /\ AwsLinked
  BY DEF NetworkInv, ReferencesInv
<1>1. /\ wWork.index \in Nat /\ wIndex \in DOMAIN Order /\ wIndex \in Nat /\ c \in W!Components
  BY <1>0, AwsOrder DEF W!TypeOK
<1>2. new \in Subnet /\ group \in Group /\ group.name = name
  BY <1>1 DEF W!Name
<1>3. /\ wDocs.subnets \in Seq(Subnet) /\ wDocs.groups \in Seq(Group)
  BY <1>0 DEF W!TypeOK
<1>4. /\ wDocs'.subnets = W!Add("subnet", wDocs.subnets, new)
      /\ wDocs'.groups = Append(wDocs.groups, group)
      /\ wDocs'.scaling = wDocs.scaling /\ wDocs'.launch = wDocs.launch
      /\ wDocs'.targets = wDocs.targets /\ wWork'.index = wWork.index + 1
  BY DEF W!NewSubnet, DocsShape
<1> HIDE DEF Subnet, Group, new, group
<1>5. /\ DOMAIN wDocs'.groups = 1..g /\ wDocs'.groups[g] = group /\ g \in 1..g
      /\ \A i \in DOMAIN wDocs.groups : wDocs'.groups[i] = wDocs.groups[i] /\ i \in 1..g
      /\ \A i \in 1..g : i \in DOMAIN wDocs.groups \/ i = g
  BY <1>2, <1>3, <1>4, AppendProperties
<1>6. ~OwnSubnet => \A j \in DOMAIN wDocs.subnets :
         j \in DOMAIN wDocs'.subnets /\ wDocs'.subnets[j] = wDocs.subnets[j]
  <2> DEFINE old == wDocs.subnets
  <2>1. old \in Seq(Subnet)
    BY <1>3
  <2> HIDE DEF old
  <2>2. /\ W!Add("subnet", old, new) \in Seq(Subnet)
        /\ Len(W!Add("subnet", old, new)) = Len(old) + 1
        /\ "subnet" \notin wFile.own =>
             \A i \in 1..Len(old) : W!Add("subnet", old, new)[i] = old[i]
    <3>1. new \in Subnet
      BY <1>2
    <3> HIDE DEF new, Subnet
    <3>2. \A T : \A list \in Seq(T) : \A d \in T :
            /\ W!Add("subnet", list, d) \in Seq(T)
            /\ Len(W!Add("subnet", list, d)) = Len(list) + 1
            /\ "subnet" \notin wFile.own => \A i \in 1..Len(list) : W!Add("subnet", list, d)[i] = list[i]
      BY Added
    <3> QED
      BY <2>1, <3>1, <3>2
  <2>3. \A j \in DOMAIN old : j \in 1..Len(old) /\ j \in DOMAIN W!Add("subnet", old, new)
    BY <2>1, <2>2
  <2> QED
    BY <1>4, <2>2, <2>3 DEF old, OwnSubnet
<1>7. \A i \in DOMAIN wDocs.groups : wDocs.groups[i].name # name
  <2> SUFFICES ASSUME NEW i \in DOMAIN wDocs.groups, wDocs.groups[i].name = name
               PROVE  FALSE
    OBVIOUS
  <2>1. PICK k \in DOMAIN Order :
          /\ name[1] = Order[k]
          /\ k < wIndex \/ (k = wIndex /\ name[2] < wWork.index)
    BY <1>0 DEF GroupNames
  <2> QED
    BY <1>1, <2>1, AwsOrder
<1>8. GroupNames'
  <2>1. ASSUME NEW i \in 1..g
        PROVE  \E k \in DOMAIN Order :
                  /\ wDocs'.groups[i].name[1] = Order[k]
                  /\ k < wIndex \/ (k = wIndex /\ wDocs'.groups[i].name[2] < wWork'.index)
    <3>1. CASE i \in DOMAIN wDocs.groups
      <4>1. PICK k \in DOMAIN Order :
              /\ wDocs.groups[i].name[1] = Order[k]
              /\ k < wIndex \/ (k = wIndex /\ wDocs.groups[i].name[2] < wWork.index)
        BY <1>0, <3>1 DEF GroupNames
      <4>2. wDocs.groups[i].name[2] \in Nat
        <5>1. wDocs.groups[i] \in Group
          BY <1>3, <3>1
        <5> QED
          BY <5>1 DEF Group, W!Name
      <4>3. wDocs.groups[i].name[2] < wWork.index => wDocs.groups[i].name[2] < wWork'.index
        <5>1. wWork.index \in Nat /\ wWork'.index = wWork.index + 1
          BY <1>1, <1>4
        <5>2. \A x, y \in Nat : x < y => x < y + 1
          OBVIOUS
        <5> QED
          BY <4>2, <5>1, <5>2
      <4> QED
        BY <1>5, <3>1, <4>1, <4>3
    <3>2. CASE i = g
      <4>1. wDocs'.groups[i].name = name /\ name[1] = Order[wIndex] /\ name[2] = wWork.index
        BY <1>2, <1>5, <3>2
      <4>2. wWork.index < wWork'.index
        BY <1>1, <1>4
      <4> HIDE DEF name, g
      <4> QED
        BY <1>1, <4>1, <4>2
    <3> QED
      BY <1>5, <3>1, <3>2
  <2>2. \A i, j \in 1..g : wDocs'.groups[i].name = wDocs'.groups[j].name => i = j
    <3> HIDE DEF g, name
    <3> QED
      BY <1>0, <1>2, <1>5, <1>7 DEF GroupNames
  <2> HIDE DEF g
  <2>3. DOMAIN wDocs'.groups = 1..g /\ wIndex' = wIndex
    BY <1>5
  <2> QED
    BY <2>1, <2>2, <2>3 DEF GroupNames
<1> HIDE DEF g, name, c
<1>9. LaunchNames'
  BY <1>0, <1>4 DEF LaunchNames, OwnLaunch
<1>10. AwsLinked'
  <2>1. ASSUME NEW i \in DOMAIN wDocs.launch, NEW m \in DOMAIN wDocs.launch[i].groups
        PROVE  \E h \in DOMAIN wDocs'.groups : wDocs'.groups[h].name = wDocs.launch[i].groups[m]
    <3>1. PICK h \in DOMAIN wDocs.groups : wDocs.groups[h].name = wDocs.launch[i].groups[m]
      BY <1>0 DEF AwsLinked
    <3> QED
      BY <1>5, <3>1
  <2>2. ASSUME ~OwnSubnet, NEW i \in DOMAIN wDocs.scaling, NEW m \in DOMAIN wDocs.scaling[i].subnets
        PROVE  \E j \in DOMAIN wDocs'.subnets : wDocs'.subnets[j].name = wDocs.scaling[i].subnets[m]
    <3>1. PICK j \in DOMAIN wDocs.subnets : wDocs.subnets[j].name = wDocs.scaling[i].subnets[m]
      BY <1>0, <2>2 DEF AwsLinked
    <3> QED
      BY <1>6, <2>2, <3>1
  <2>3. ASSUME ~OwnSubnet, NEW t \in wDocs.targets
        PROVE  \E j \in DOMAIN wDocs'.subnets : wDocs'.subnets[j].name = t.subnet
    <3>1. PICK j \in DOMAIN wDocs.subnets : wDocs.subnets[j].name = t.subnet
      BY <1>0, <2>3 DEF AwsLinked
    <3> QED
      BY <1>6, <2>3, <3>1
  <2>4. OwnSubnet' <=> OwnSubnet
    BY DEF OwnSubnet
  <2> QED
    BY <1>4, <2>1, <2>2, <2>3, <2>4 DEF AwsLinked
<1> QED
  BY <1>8, <1>9, <1>10 DEF ReferencesInv

(* A component's documents name what was made for it.                      *)
LEMMA BuiltLinked ==
  ASSUME NetworkInv, DocsShape, ReferencesInv, wDocs.key \in KeyNames,
         wPhase = "components", wIndex <= Len(Order),
         wDocs' = W!Built(Order[wIndex]), wIndex' = wIndex + 1, wWork' = W!NoWork, wFile' = wFile
  PROVE  ReferencesInv'
<1> DEFINE c     == Order[wIndex]
           wish  == wFile.components[c]
           n     == Len(wWork.ofSubnets)
           names == W!Names(wDocs.subnets, wWork.ofSubnets)
           groupNames == W!Names(wDocs.groups, wWork.ofGroups)
           a     == [name |-> c, count |-> wish.count, efs |-> wish.efs, launch |-> c,
                     subnets |-> names]
           l     == [name |-> c, key |-> wDocs.key, groups |-> groupNames]
           z     == Len(wDocs.scaling) + 1
           y     == Len(wDocs.launch) + 1
           Scaling == [name : W!Components, count : Nat, efs : SUBSET {"mount", "authorized"},
                       launch : W!Components, subnets : Seq(W!Name)]
           Launch == [name : W!Components, key : KeyNames, groups : Seq(W!Name)]
<1>0. W!TypeOK /\ WorkKnown /\ StorageSoFar /\ GroupNames /\ LaunchNames /\ AwsLinked
  BY DEF NetworkInv, ReferencesInv
<1>1. /\ wIndex \in DOMAIN Order /\ wIndex \in Nat /\ c \in W!Components
  BY <1>0, AwsOrder DEF W!TypeOK
<1>2. wish.count \in Nat /\ wish.efs \subseteq {"mount", "authorized"}
  BY <1>0, <1>1, AwsFile DEF W!TypeOK
<1>3. /\ n \in Nat /\ DOMAIN wWork.ofSubnets = 1..n /\ DOMAIN wWork.ofGroups = 1..n
  BY <1>0 DEF W!TypeOK, WorkKnown
<1>4. \A m \in 1..n : /\ wWork.ofSubnets[m] \in DOMAIN wDocs.subnets
                      /\ wWork.ofGroups[m] \in DOMAIN wDocs.groups
  BY <1>0 DEF WorkKnown
<1>5. /\ wDocs.scaling \in Seq(Scaling) /\ wDocs.launch \in Seq(Launch)
  BY <1>0 DEF W!TypeOK
<1>6. /\ names = [m \in 1..n |-> wDocs.subnets[wWork.ofSubnets[m]].name]
      /\ groupNames = [m \in 1..n |-> wDocs.groups[wWork.ofGroups[m]].name]
  BY <1>3 DEF W!Names
<1>7. names \in Seq(W!Name) /\ groupNames \in Seq(W!Name)
  <2> DEFINE Subnet == [name : W!Name, pool : Pools, zone : Zones]
             Group == [name : W!Name, pool : Pools, rules : SUBSET Rules]
  <2>1. wDocs.subnets \in Seq(Subnet) /\ wDocs.groups \in Seq(Group)
    BY <1>0 DEF W!TypeOK
  <2> HIDE DEF Subnet, Group, names, groupNames, n
  <2>2. /\ \A i \in DOMAIN wDocs.subnets : wDocs.subnets[i] \in Subnet
        /\ \A i \in DOMAIN wDocs.groups : wDocs.groups[i] \in Group
    BY <2>1
  <2>3. /\ \A i \in DOMAIN wDocs.subnets : wDocs.subnets[i].name \in W!Name
        /\ \A i \in DOMAIN wDocs.groups : wDocs.groups[i].name \in W!Name
    BY <2>2 DEF Subnet, Group
  <2>4. names \in [1..n -> W!Name] /\ groupNames \in [1..n -> W!Name]
    BY <1>4, <1>6, <2>3
  <2> QED
    BY <1>3, <2>4, IsSeq
<1>8. /\ wDocs'.subnets = wDocs.subnets
      /\ wDocs'.scaling = Append(wDocs.scaling, a)
      /\ wDocs'.launch = W!Add("launch-configuration", wDocs.launch, l)
      /\ wDocs'.groups = W!AddRules(wDocs.groups, wWork.ofGroups, wish.rules)
      /\ wDocs'.targets = IF "mount" \in wish.efs
                          THEN W!AddTarget(wDocs.targets, wDocs.subnets, wWork.ofSubnets)
                          ELSE wDocs.targets
  BY DEF W!Built, DocsShape
<1>9. /\ DOMAIN wDocs'.groups = DOMAIN wDocs.groups
      /\ \A g \in DOMAIN wDocs.groups : wDocs'.groups[g].name = wDocs.groups[g].name
  <2> DEFINE Group == [name : W!Name, pool : Pools, rules : SUBSET Rules]
  <2>1. wDocs.groups \in Seq(Group)
    BY <1>0 DEF W!TypeOK
  <2> HIDE DEF Group, wish
  <2>2. \A g \in DOMAIN wDocs.groups : wDocs.groups[g] \in Group
    BY <2>1
  <2> QED
    BY <1>8, <2>2 DEF W!AddRules, Group
<1>10. a \in Scaling /\ l \in Launch
  BY <1>1, <1>2, <1>7
<1>11. a.launch = c /\ a.subnets = names /\ l.name = c /\ l.groups = groupNames
  OBVIOUS
<1> HIDE DEF a, l, names, groupNames, Scaling, Launch
<1>12. /\ DOMAIN wDocs'.scaling = 1..z /\ z \in Nat /\ wDocs'.scaling[z] = a
       /\ \A i \in DOMAIN wDocs.scaling : wDocs'.scaling[i] = wDocs.scaling[i]
       /\ \A i \in 1..z : i \in DOMAIN wDocs.scaling \/ i = z
       /\ DOMAIN wDocs.scaling = 1..(z - 1)
  BY <1>5, <1>8, <1>10, AppendProperties
<1>13. /\ DOMAIN wDocs'.launch = 1..y /\ y \in Nat /\ wDocs'.launch[y] = l
       /\ \A i \in DOMAIN wDocs.launch :
            wDocs'.launch[i] = IF OwnLaunch THEN l ELSE wDocs.launch[i]
       /\ \A i \in 1..y : i \in DOMAIN wDocs.launch \/ i = y
       /\ DOMAIN wDocs.launch = 1..(y - 1)
  <2> DEFINE old == wDocs.launch
             new == W!Add("launch-configuration", old, l)
  <2>1. old \in Seq(Launch)
    BY <1>5
  <2>2. y = Len(old) + 1 /\ l \in Launch
    BY <1>10
  <2> HIDE DEF old
  <2>3. /\ new \in Seq(Launch) /\ Len(new) = Len(old) + 1 /\ new[Len(old) + 1] = l
        /\ "launch-configuration" \in wFile.own => \A i \in 1..Len(old) : new[i] = l
        /\ "launch-configuration" \notin wFile.own => \A i \in 1..Len(old) : new[i] = old[i]
    BY <2>1, <2>2, Added
  <2> HIDE DEF new, y
  <2>4. /\ DOMAIN new = 1..y /\ y \in Nat /\ new[y] = l
        /\ \A i \in DOMAIN old : new[i] = IF OwnLaunch THEN l ELSE old[i]
        /\ \A i \in 1..y : i \in DOMAIN old \/ i = y
        /\ DOMAIN old = 1..(y - 1)
    BY <2>1, <2>2, <2>3 DEF OwnLaunch
  <2> QED
    BY <1>8, <2>4 DEF old, new
<1>14. \A t \in wDocs'.targets : t \in wDocs.targets \/ \E j \in 1..n :
            t = [zone |-> wDocs.subnets[wWork.ofSubnets[j]].zone,
                 subnet |-> wDocs.subnets[wWork.ofSubnets[j]].name]
  <2> HIDE DEF n, wish
  <2>1. CASE "mount" \in wish.efs
    <3> DEFINE targets == wDocs.targets
               subnets == wDocs.subnets
               chosen == wWork.ofSubnets
               after == W!AddTarget(targets, subnets, chosen)
    <3>1. \A s, t \in targets : s.zone = t.zone => s = t
      BY <1>0 DEF StorageSoFar
    <3>2. n \in Nat /\ DOMAIN chosen = 1..n /\ wDocs'.targets = after
      BY <1>3, <1>8, <2>1
    <3> HIDE DEF targets, subnets, chosen
    <3>3. \A t \in after : t \in targets \/ \E j \in 1..n :
             t = [zone |-> subnets[chosen[j]].zone, subnet |-> subnets[chosen[j]].name]
      BY <3>1, <3>2, TargetsAdded
    <3> QED
      BY <3>2, <3>3 DEF targets, subnets, chosen
  <2>2. CASE "mount" \notin wish.efs
    BY <1>8, <2>2
  <2> QED
    BY <2>1, <2>2
<1>15. \A k \in DOMAIN Order : k < wIndex \/ k = wIndex => k < wIndex'
  BY <1>1, AwsOrder
<1>16. (OwnSubnet' <=> OwnSubnet) /\ (OwnLaunch' <=> OwnLaunch)
  BY DEF OwnSubnet, OwnLaunch
<1> HIDE DEF z, y, n, wish
<1>17. GroupNames'
  <2>1. ASSUME NEW i \in DOMAIN wDocs.groups
        PROVE  \E k \in DOMAIN Order : wDocs'.groups[i].name[1] = Order[k] /\ k < wIndex'
    <3>1. PICK k \in DOMAIN Order : wDocs.groups[i].name[1] = Order[k] /\ (k < wIndex \/ k = wIndex)
      BY <1>0 DEF GroupNames
    <3> QED
      BY <1>9, <1>15, <3>1
  <2> QED
    BY <1>0, <1>9, <2>1 DEF GroupNames
<1>18. LaunchNames'
  <2> SUFFICES ASSUME ~OwnLaunch PROVE LaunchNames'
    BY <1>16 DEF LaunchNames
  <2>1. y = z
    <3>1. 1..(y - 1) = 1..(z - 1) /\ y \in Nat /\ z \in Nat /\ y >= 1 /\ z >= 1
      BY <1>0, <1>12, <1>13 DEF LaunchNames, y, z
    <3>2. y - 1 \in Nat /\ z - 1 \in Nat
      BY <3>1
    <3>3. y - 1 = z - 1
      <4>1. CASE y - 1 < z - 1
        <5>1. z - 1 \in 1..(z - 1) /\ z - 1 \notin 1..(y - 1)
          BY <3>2, <4>1
        <5> QED
          BY <3>1, <5>1
      <4>2. CASE z - 1 < y - 1
        <5>1. y - 1 \in 1..(y - 1) /\ y - 1 \notin 1..(z - 1)
          BY <3>2, <4>2
        <5> QED
          BY <3>1, <5>1
      <4> QED
        BY <3>2, <4>1, <4>2
    <3> QED
      BY <3>1, <3>3
  <2>2. \A i \in DOMAIN wDocs.launch :
           wDocs'.launch[i] = wDocs.launch[i] /\ wDocs'.scaling[i] = wDocs.scaling[i]
    BY <1>0, <1>12, <1>13 DEF LaunchNames
  <2>3. \A i \in DOMAIN wDocs.launch :
           /\ wDocs.launch[i].name = wDocs.scaling[i].launch
           /\ \E k \in DOMAIN Order : k < wIndex /\ wDocs.launch[i].name = Order[k]
    BY <1>0 DEF LaunchNames
  <2>4. \A i \in DOMAIN wDocs.launch : wDocs.launch[i].name # c
    BY <1>1, <2>3, AwsOrder
  <2>5. ASSUME NEW i \in 1..y
        PROVE  /\ wDocs'.launch[i].name = wDocs'.scaling[i].launch
               /\ \E k \in DOMAIN Order : k < wIndex' /\ wDocs'.launch[i].name = Order[k]
    <3>1. CASE i \in DOMAIN wDocs.launch
      BY <1>15, <2>2, <2>3, <3>1
    <3>2. CASE i = y
      BY <1>1, <1>11, <1>12, <1>13, <1>15, <2>1, <3>2
    <3> QED
      BY <1>13, <3>1, <3>2
  <2>6. ASSUME NEW i \in 1..y, NEW j \in 1..y, wDocs'.launch[i].name = wDocs'.launch[j].name
        PROVE  i = j
    <3>1. \A h \in DOMAIN wDocs.launch : wDocs'.launch[h].name # c
      BY <2>2, <2>4
    <3>2. wDocs'.launch[y].name = c
      BY <1>11, <1>13
    <3>3. CASE i \in DOMAIN wDocs.launch /\ j \in DOMAIN wDocs.launch
      BY <1>0, <2>2, <2>6, <3>3 DEF LaunchNames
    <3> QED
      BY <1>13, <2>6, <3>1, <3>2, <3>3
  <2> QED
    BY <1>12, <1>13, <2>1, <2>5, <2>6 DEF LaunchNames
<1>19. AwsLinked'
  <2>1. \A m \in DOMAIN groupNames :
           \E g \in DOMAIN wDocs.groups : wDocs.groups[g].name = groupNames[m]
    BY <1>4, <1>6
  <2>2. ASSUME NEW i \in 1..y, NEW m \in DOMAIN wDocs'.launch[i].groups
        PROVE  \E g \in DOMAIN wDocs.groups : wDocs.groups[g].name = wDocs'.launch[i].groups[m]
    <3>1. CASE wDocs'.launch[i] = l
      BY <1>11, <2>1, <2>2, <3>1
    <3>2. CASE i \in DOMAIN wDocs.launch /\ wDocs'.launch[i] = wDocs.launch[i]
      BY <1>0, <2>2, <3>2 DEF AwsLinked
    <3> QED
      BY <1>13, <3>1, <3>2
  <2>3. ASSUME ~OwnSubnet, NEW i \in 1..z, NEW m \in DOMAIN wDocs'.scaling[i].subnets
        PROVE  \E j \in DOMAIN wDocs.subnets : wDocs.subnets[j].name = wDocs'.scaling[i].subnets[m]
    <3>1. CASE i \in DOMAIN wDocs.scaling
      BY <1>0, <1>12, <2>3, <3>1 DEF AwsLinked
    <3>2. CASE i = z
      <4>1. m \in DOMAIN names /\ wDocs'.scaling[i].subnets[m] = names[m]
        BY <1>11, <1>12, <2>3, <3>2
      <4>2. m \in 1..n /\ names[m] = wDocs.subnets[wWork.ofSubnets[m]].name
        BY <1>6, <4>1
      <4> QED
        BY <1>4, <4>1, <4>2
    <3> QED
      BY <1>12, <3>1, <3>2
  <2>4. ASSUME ~OwnSubnet, NEW t \in wDocs'.targets
        PROVE  \E j \in DOMAIN wDocs.subnets : wDocs.subnets[j].name = t.subnet
    <3>1. CASE t \in wDocs.targets
      BY <1>0, <2>4, <3>1 DEF AwsLinked
    <3>2. CASE t \notin wDocs.targets
      <4>1. PICK j \in 1..n : t = [zone |-> wDocs.subnets[wWork.ofSubnets[j]].zone,
                                   subnet |-> wDocs.subnets[wWork.ofSubnets[j]].name]
        BY <1>14, <2>4, <3>2
      <4> QED
        BY <1>4, <4>1
    <3> QED
      BY <3>1, <3>2
  <2>5. \A i \in 1..y : \A m \in DOMAIN wDocs'.launch[i].groups :
           \E g \in DOMAIN wDocs'.groups : wDocs'.groups[g].name = wDocs'.launch[i].groups[m]
    BY <1>9, <2>2
  <2> QED
    BY <1>8, <1>12, <1>13, <1>16, <2>3, <2>4, <2>5 DEF AwsLinked
<1> QED
  BY <1>17, <1>18, <1>19 DEF ReferencesInv

(* So everything that is named has been made, after every step,            *)
LEMMA ReferencesNext ==
  ASSUME KeyInv, NetworkInv, ReferencesInv, [W!Next]_(W!vars)
  PROVE  ReferencesInv'
<1>0. W!TypeOK /\ Resting /\ DocsShape /\ wFile \in AwsFiles
  BY DEF NetworkInv, KeyInv, W!TypeOK
<1>1. CASE W!Start
  <2>1. /\ wDocs'.subnets = <<>> /\ wDocs'.groups = <<>> /\ wDocs'.scaling = <<>>
        /\ wDocs'.launch = <<>> /\ wDocs'.targets = {}
    BY <1>1 DEF W!Start, W!GetPublicKey, W!NoDocs
  <2> QED
    BY <2>1 DEF ReferencesInv, GroupNames, LaunchNames, AwsLinked
<1>2. CASE W!BuildNetwork
  <2> DEFINE definition == Wish(wIndex).subnets[Len(wWork.ofSubnets) + 1]
  <2>1. /\ wPhase = "components" /\ wIndex <= Len(Order)
        /\ Len(wWork.ofSubnets) < Len(Wish(wIndex).subnets)
        /\ W!GetSubnet(Order[wIndex], definition) /\ UNCHANGED <<wFile, wIndex>>
    BY <1>2 DEF W!BuildNetwork, Wish
  <2>2. definition \in Pools \X Zones
    <3>1. Order[wIndex] \in W!Components
      BY <1>0, <2>1, AwsOrder DEF W!TypeOK
    <3>2. Wish(wIndex).subnets \in Seq(Pools \X Zones)
      BY <1>0, <3>1, AwsFile DEF Wish
    <3> DEFINE k == Len(wWork.ofSubnets)
    <3>3. k \in Nat /\ k < Len(Wish(wIndex).subnets)
      BY <1>0, <2>1 DEF W!TypeOK
    <3> HIDE DEF k
    <3>4. k + 1 \in 1..Len(Wish(wIndex).subnets)
      BY <3>2, <3>3
    <3> QED
      BY <3>2, <3>4 DEF k
  <2> HIDE DEF definition
  <2>3. CASE W!KnownSubnet(definition[1])
    <3>1. wWork'.index = wWork.index /\ wDocs' = wDocs
      BY <1>0, <2>3 DEF W!KnownSubnet, W!TypeOK
    <3> QED
      BY <2>1, <3>1 DEF ReferencesInv, GroupNames, LaunchNames, AwsLinked, OwnLaunch, OwnSubnet
  <2>4. CASE W!NewSubnet(Order[wIndex], definition)
    <3>1. definition[1] \in Pools /\ definition[2] \in Zones
      BY <2>2
    <3> QED
      BY <1>0, <2>1, <2>4, <3>1, NewSubnetLinked
  <2> QED
    BY <2>1, <2>3, <2>4 DEF W!GetSubnet
<1>3. CASE W!BuildComponent
  <2>1. /\ wPhase = "components" /\ wIndex <= Len(Order)
        /\ wDocs' = wDocs \/ wDocs' = W!Built(Order[wIndex])
        /\ wIndex' = wIndex + 1 /\ wWork' = W!NoWork /\ wFile' = wFile
    BY <1>3 DEF W!BuildComponent
  <2>2. CASE wDocs' = W!Built(Order[wIndex])
    <3>1. wDocs.key \in KeyNames
      BY <1>0, <2>1 DEF KeyInv, W!TypeOK
    <3> QED
      BY <1>0, <2>1, <2>2, <3>1, BuiltLinked
  <2>3. CASE wDocs' = wDocs
    <3>1. \A k \in DOMAIN Order : k < wIndex \/ k = wIndex => k < wIndex'
      BY <1>0, <2>1, AwsOrder DEF W!TypeOK
    <3>2. GroupNames' /\ LaunchNames'
      BY <2>1, <2>3, <3>1 DEF ReferencesInv, GroupNames, LaunchNames, OwnLaunch
    <3> QED
      BY <2>1, <2>3, <3>2 DEF ReferencesInv, AwsLinked, OwnSubnet
  <2> QED
    BY <2>1, <2>2, <2>3
<1>4. CASE W!FinishBuild
  <2>1. /\ wDocs'.subnets = wDocs.subnets /\ wDocs'.groups = wDocs.groups
        /\ wDocs'.scaling = wDocs.scaling /\ wDocs'.launch = wDocs.launch
        /\ wDocs'.targets = wDocs.targets /\ UNCHANGED <<wFile, wIndex, wWork>>
    BY <1>0, <1>4 DEF W!FinishBuild, DocsShape
  <2> QED
    BY <2>1 DEF ReferencesInv, GroupNames, LaunchNames, AwsLinked, OwnLaunch, OwnSubnet
<1>5. CASE W!Fail \/ W!TerraformApply \/ W!TerraformDestroy \/ W!Edit
  <2>1. wDocs' = W!NoDocs
    BY <1>0, <1>5 DEF W!Fail, W!TerraformApply, W!TerraformDestroy, W!Edit, Resting
  <2> QED
    BY <2>1 DEF ReferencesInv, GroupNames, LaunchNames, AwsLinked, W!NoDocs
<1>6. CASE UNCHANGED W!vars
  BY <1>6 DEF W!vars, ReferencesInv, GroupNames, LaunchNames, AwsLinked, OwnLaunch, OwnSubnet
<1> QED
  BY <1>1, <1>2, <1>3, <1>4, <1>5, <1>6 DEF W!Next

(* A document is there once if it is there and no two have its name.       *)
LEMMA OnceIs ==
  ASSUME NEW documents, NEW n, NEW i \in DOMAIN documents, documents[i].name = n,
         \A j \in DOMAIN documents : documents[j].name = documents[i].name => j = i
  PROVE  W!Once(documents, n)
<1>1. {j \in DOMAIN documents : documents[j].name = n} = {i}
  OBVIOUS
<1> QED
  BY <1>1, SingleIs DEF W!Once

(***************************************************************************)
(* What a document refers to by name is built, and on AWS once; and on     *)
(* Azure the name of the storage account has 3 to 24 characters, no dash   *)
(* but one of the prefix, and its use at the end.                          *)
(***************************************************************************)
THEOREM ResourcesFitCorrect == Spec => []ResourcesFit
<1>1. Init => KeyInv /\ NetworkInv /\ ReferencesInv
  BY KeyInit, NetworkInit
  DEF Init, W!Init, W!NoDocs, ReferencesInv, GroupNames, LaunchNames, AwsLinked
<1>2. KeyInv /\ NetworkInv /\ ReferencesInv /\ [Next]_vars
        => KeyInv' /\ NetworkInv' /\ ReferencesInv'
  BY StepOfParts, KeyNext, NetworkNext, ReferencesNext
<1>3. NetworkInv /\ ReferencesInv => W!ReferencesResolve
  <2> SUFFICES ASSUME NetworkInv, ReferencesInv, wPhase = "terraform"
               PROVE  W!ReferencesResolve
    BY DEF W!ReferencesResolve, W!ToApply
  <2>0. GroupNames /\ LaunchNames /\ AwsLinked /\ SubnetNames /\ SharedSoFar
    BY DEF NetworkInv, ReferencesInv
  <2>1. ASSUME ~OwnSubnet, NEW j \in DOMAIN wDocs.subnets
        PROVE  W!Once(wDocs.subnets, wDocs.subnets[j].name)
    <3>1. \A i \in DOMAIN wDocs.subnets : wDocs.subnets[i].name = wDocs.subnets[j].name => i = j
      BY <2>0, <2>1 DEF SubnetNames, SharedSoFar
    <3> QED
      BY <3>1, OnceIs
  <2>2. ASSUME NEW i \in DOMAIN wDocs.scaling, ~OwnSubnet, NEW n \in W!ToSet(wDocs.scaling[i].subnets)
        PROVE  W!Once(wDocs.subnets, n)
    <3>1. PICK m \in DOMAIN wDocs.scaling[i].subnets : n = wDocs.scaling[i].subnets[m]
      BY <2>2 DEF W!ToSet
    <3>2. PICK j \in DOMAIN wDocs.subnets : wDocs.subnets[j].name = n
      BY <2>0, <2>2, <3>1 DEF AwsLinked
    <3> QED
      BY <2>1, <2>2, <3>2
  <2>3. ASSUME NEW i \in DOMAIN wDocs.scaling, ~OwnLaunch
        PROVE  W!Once(wDocs.launch, wDocs.scaling[i].launch)
    <3>1. /\ i \in DOMAIN wDocs.launch /\ wDocs.launch[i].name = wDocs.scaling[i].launch
          /\ \A j \in DOMAIN wDocs.launch : wDocs.launch[j].name = wDocs.launch[i].name => j = i
      BY <2>0, <2>3 DEF LaunchNames
    <3> QED
      BY <3>1, OnceIs
  <2>4. ASSUME NEW i \in DOMAIN wDocs.launch, NEW n \in W!ToSet(wDocs.launch[i].groups)
        PROVE  W!Once(wDocs.groups, n)
    <3>1. PICK m \in DOMAIN wDocs.launch[i].groups : n = wDocs.launch[i].groups[m]
      BY <2>4 DEF W!ToSet
    <3>2. PICK g \in DOMAIN wDocs.groups : wDocs.groups[g].name = n
      BY <2>0, <3>1 DEF AwsLinked
    <3>3. \A j \in DOMAIN wDocs.groups : wDocs.groups[j].name = wDocs.groups[g].name => j = g
      BY <2>0 DEF GroupNames
    <3> QED
      BY <3>2, <3>3, OnceIs
  <2>5. ASSUME ~OwnSubnet, NEW t \in wDocs.targets
        PROVE  W!Once(wDocs.subnets, t.subnet)
    <3>1. PICK j \in DOMAIN wDocs.subnets : wDocs.subnets[j].name = t.subnet
      BY <2>0, <2>5 DEF AwsLinked
    <3> QED
      BY <2>1, <2>5, <3>1
  <2> QED
    BY <2>2, <2>3, <2>4, <2>5 DEF W!ReferencesResolve, OwnSubnet, OwnLaunch
<1> QED
  BY <1>1, <1>2, <1>3, AzureFits, PTL DEF Spec, ResourcesFit

-----------------------------------------------------------------------------
(***************************************************************************)
(* The configuration: the documents that the appender has collected, the   *)
(* vars and the inventory made of them, and what is saved of each command. *)
(***************************************************************************)
(* The phases of an apply, and those of an upgrade.                        *)
Applying == {"terraform", "append", "resources", "roles", "playbooks"}
Upgrading == {"inventory", "upgrade roles", "upgrade playbooks"}

(* The first is the shared configuration, all others a component selected. *)
SelectedOnly ==
    /\ 1 \in DOMAIN cConf /\ cConf[1].kind = shared
    /\ \A i \in DOMAIN cConf : i # 1 =>
         \E c \in C!Mapped(cConf[i].kind) : cConf[i].name = C!Component(c).configuration

(* The features that are done have a document,                             *)
FeaturesDone ==
    \A k \in DOMAIN ConfiguredOrder : \A j \in DOMAIN C!Features(ConfiguredOrder[k]) :
      k < cIndex \/ (k = cIndex /\ j < cFeature)
        => C!At(C!Features(ConfiguredOrder[k])[j], cConf) # {}

(* in the end all roles that are mapped to, the masters with the storage.  *)
AllSelected ==
    /\ \A kind \in Roles : C!Mapped(kind) # {} => C!At(kind, cConf) # {}
    /\ C!At(masterRole, cConf) # {} => C!First(masterRole, cConf).storage = cFile.storage
    /\ cManifest = [docs |-> cConf, of |-> cRuns]

(* A role that is not to come any more has got its document, if it has one.*)
RolesWritten ==
    /\ cInventory = C!Grouped
    /\ \A kind \in DOMAIN cVars.main :
         C!At(kind, cConf) # {} /\ cVars.main[kind] = C!First(kind, cConf)
    /\ \A i \in DOMAIN cFile.enabled :
         \/ cFile.enabled[i] \in C!ToSet(cTodo) \/ C!At(cFile.enabled[i], cConf) = {}
         \/ cFile.enabled[i] \in DOMAIN cVars.main

(* The documents of a manifest say what Ansible ran with, if they are of   *)
(* the apply that ran last.                                                *)
SaysWhatRan(saved) ==
    cRan # None /\ saved.of = cRan.of =>
      /\ \E i \in DOMAIN saved.docs :
           C!At(shared, saved.docs) = {i} /\ saved.docs[i] = cRan.vars.shared
      /\ \A kind \in DOMAIN cRan.vars.main :
           /\ C!At(kind, saved.docs) # {}
           /\ cRan.vars.main[kind] = C!First(kind, saved.docs)

(* A manifest that was saved, by an earlier command or this one.           *)
Saved(saved) ==
    /\ saved.docs \in Seq(C!Document) /\ saved.of \in Nat /\ saved.of <= cRuns
    /\ SaysWhatRan(saved)

(* An upgrade that runs has backed up the build directory.                 *)
BackupThere == cBackup # None \/ cPhase \in Upgrading

(* What is saved, and the apply that ran, are no later than this command;  *)
(* until its playbooks have run, nothing has run from what it saves.       *)
SavedInv ==
    /\ cManifest # None => Saved(cManifest)
    /\ cRan # None => cRan.of \in Nat /\ cRan.of <= cRuns /\ (cPhase \in Applying => cRan.of # cRuns)
    /\ BackupThere =>
         /\ Saved(cBackup.manifest)
         /\ cBackup.inventory = None \/ C!Grouping(cBackup.inventory)
         /\ cPhase \in Applying => cBackup.manifest.of # cRuns

(* All of it, with what is known at each step of the two commands.         *)
ConfigurationInv ==
    /\ C!TypeOK
    /\ cPhase \in {"idle"} \cup Applying \cup Upgrading
    /\ cPhase \in Applying => cFile \in ApplyFiles
    /\ cVars = [main |-> cVars.main, manifest |-> cVars.manifest,
                shared |-> cVars.shared, listed |-> cVars.listed]
    /\ cVars.listed = DOMAIN cVars.main
    /\ cPhase \in {"append", "resources", "roles", "playbooks"} => SelectedOnly
    /\ cPhase = "append" => FeaturesDone
    /\ cPhase \in {"resources", "roles", "playbooks"} => AllSelected
    /\ cPhase \in {"roles", "playbooks"} => RolesWritten
    /\ cPhase = "playbooks" => cTodo = <<>> /\ cVars.shared = cConf[1]
    /\ SavedInv
    /\ cPhase = "upgrade playbooks" =>
         /\ cVars.manifest = [kind \in C!ToSet(ManifestRoles) |-> C!ManifestDoc(kind)]
         /\ cVars.shared = C!SharedInManifest

-----------------------------------------------------------------------------
(* What the input files are, and how a list of documents is read.          *)
LEMMA ApplyFileIs ==
  ASSUME cFile \in ApplyFiles
  PROVE  /\ cFile.docs \in Seq(C!Document) /\ cFile.storage \in Storages
         /\ cFile.enabled \in Seq(Roles)
         /\ \A c \in C!ToSet(ConfiguredOrder) :
              cFile.mapping[c] \in Seq(Roles) /\ C!Component(c).configuration \in DocumentNames
  BY ConfigurationAssumption DEF C!Assumption, C!InputFile, C!Component

(* shared-config is no role's kind.                                        *)
LEMMA KindsAre == /\ shared \notin Roles /\ masterRole \in Roles /\ repository \in Roles
                  /\ imageRegistry \in Roles
                  /\ ConfiguredOrder \in Seq(C!ToSet(ConfiguredOrder))
                  /\ UpgradeRoles \in Seq(Roles) /\ UpgradeFiles \subseteq Seq(C!Document)
                  /\ MaxRuns \in Nat
  BY ConfigurationAssumption DEF C!Assumption

(* A document that LambdaStack ships is a document.                        *)
LEMMA ShippedIs ==
  ASSUME NEW kind \in Roles \cup {shared}
  PROVE  C!Shipped(kind) \in C!Document /\ C!Shipped(kind).kind = kind /\ C!Shipped(kind).name = "default"
  BY ConfigurationAssumption DEF C!Assumption, C!Shipped, C!Document

(* select_first() returns one of those there are.                          *)
LEMMA LeastIs ==
  ASSUME NEW S \in SUBSET Nat, S # {}
  PROVE  C!Min(S) \in S
BY Smallest DEF C!Min

(* So the first document of a kind is in the list, and of that kind.       *)
LEMMA FirstOfKind ==
  ASSUME NEW documents \in Seq(C!Document), NEW kind, C!At(kind, documents) # {}
  PROVE  /\ C!Min(C!At(kind, documents)) \in C!At(kind, documents)
         /\ C!First(kind, documents) \in C!Document /\ C!First(kind, documents).kind = kind
<1>1. C!At(kind, documents) \in SUBSET Nat
  BY DEF C!At
<1>2. C!Min(C!At(kind, documents)) \in C!At(kind, documents)
  BY <1>1, LeastIs
<1> QED
  BY <1>2 DEF C!At, C!First

(* A document of the user or a shipped one is a document either way.       *)
LEMMA FirstOrIs ==
  ASSUME NEW documents \in Seq(C!Document), NEW kind \in Roles \cup {shared}
  PROVE  LET d == C!FirstOr(C!At(kind, documents), documents, C!Shipped(kind))
         IN d \in C!Document /\ d.kind = kind
<1>1. CASE C!At(kind, documents) = {}
  BY <1>1, ShippedIs DEF C!FirstOr
<1>2. CASE C!At(kind, documents) # {}
  BY <1>2, FirstOfKind DEF C!FirstOr, C!First
<1> QED
  BY <1>1, <1>2

(* The features of an active component are the kinds it maps to.           *)
LEMMA FeaturesAre ==
  ASSUME cFile \in ApplyFiles, NEW c \in C!ToSet(ConfiguredOrder)
  PROVE  /\ C!Features(c) \in Seq(Roles)
         /\ \A j \in DOMAIN C!Features(c) : c \in C!Mapped(C!Features(c)[j])
<1>1. cFile.mapping[c] \in Seq(Roles)
  BY ApplyFileIs
<1>2. CASE c \in C!Active
  BY <1>1, <1>2 DEF C!Features, C!Mapped, C!ToSet
<1>3. CASE c \notin C!Active
  BY <1>3 DEF C!Features
<1> QED
  BY <1>2, <1>3

(* A kind is mapped to when it is a feature of an active component.        *)
LEMMA MappedIs ==
  ASSUME cFile \in ApplyFiles, NEW kind, NEW c \in C!Mapped(kind)
  PROVE  /\ kind \in Roles
         /\ \E k \in DOMAIN ConfiguredOrder : \E j \in DOMAIN C!Features(ConfiguredOrder[k]) :
              c = ConfiguredOrder[k] /\ C!Features(c)[j] = kind
<1>1. c \in C!Active /\ c \in C!ToSet(ConfiguredOrder) /\ kind \in C!ToSet(cFile.mapping[c])
  BY DEF C!Mapped, C!Active
<1>2. cFile.mapping[c] \in Seq(Roles)
  BY <1>1, ApplyFileIs
<1>3. PICK k \in DOMAIN ConfiguredOrder : c = ConfiguredOrder[k]
  BY <1>1 DEF C!ToSet
<1>4. PICK j \in DOMAIN cFile.mapping[c] : kind = cFile.mapping[c][j]
  BY <1>1 DEF C!ToSet
<1> QED
  BY <1>1, <1>2, <1>3, <1>4 DEF C!Features

(* There is one shared configuration, the first of all documents.          *)
LEMMA SharedFirst ==
  ASSUME cFile \in ApplyFiles, SelectedOnly
  PROVE  C!At(shared, cConf) = {1} /\ C!First(shared, cConf) = cConf[1]
<1>1. ASSUME NEW i \in DOMAIN cConf, i # 1
      PROVE  cConf[i].kind # shared
  BY <1>1, MappedIs, KindsAre DEF SelectedOnly
<1>2. C!At(shared, cConf) = {1}
  BY <1>1 DEF SelectedOnly, C!At
<1>3. C!Min({1}) \in {1}
  BY LeastIs
<1> QED
  BY <1>2, <1>3 DEF C!First

-----------------------------------------------------------------------------
(* What is saved is what it was while nothing is saved or run.             *)
LEMMA SavedKept ==
  ASSUME SavedInv, UNCHANGED <<cManifest, cBackup, cRan, cRuns>>,
         cPhase' \in Applying => cPhase \in Applying,
         cPhase' \in Upgrading => cPhase \in Upgrading
  PROVE  SavedInv'
  BY DEF SavedInv, Saved, SaysWhatRan, BackupThere

(* The steps of the appender: the first document is the shared one, ...    *)
LEMMA AppendRequiredNext ==
  ASSUME ConfigurationInv, C!AppendRequired
  PROVE  ConfigurationInv'
<1>1. /\ cPhase = "terraform" /\ cPhase' = "append" /\ cIndex' = 1 /\ cFeature' = 1
      /\ cConf' = <<C!FirstOr(C!At(shared, cFile.docs), cFile.docs, C!Shipped(shared))>>
      /\ UNCHANGED <<cFile, cManifest, cInventory, cBackup, cVars, cTodo, cRuns, cRan>>
  BY DEF C!AppendRequired, C!Goto
<1>2. C!TypeOK /\ SavedInv /\ cFile \in ApplyFiles
  BY <1>1 DEF ConfigurationInv, Applying
<1>3. PICK d \in C!Document : cConf' = <<d>> /\ d.kind = shared
  BY <1>1, <1>2, ApplyFileIs, FirstOrIs
<1>4. C!TypeOK'
  <2>1. cConf' \in Seq(C!Document)
    BY <1>3
  <2>2. 1 \in 1..(Len(ConfiguredOrder) + 1)
    BY KindsAre
  <2> QED
    BY <1>1, <1>2, <2>1, <2>2 DEF C!TypeOK, C!Grouping
<1>5. SelectedOnly'
  BY <1>3 DEF SelectedOnly
<1>6. FeaturesDone'
  <2> SUFFICES ASSUME NEW k \in DOMAIN ConfiguredOrder,
                      NEW j \in DOMAIN C!Features(ConfiguredOrder[k])'
               PROVE  ~(k < cIndex' \/ (k = cIndex' /\ j < cFeature'))
    BY DEF FeaturesDone
  <2>1. C!Features(ConfiguredOrder[k])' = C!Features(ConfiguredOrder[k])
    BY <1>1 DEF C!Features, C!Active, C!Component
  <2>2. ConfiguredOrder[k] \in C!ToSet(ConfiguredOrder)
    BY DEF C!ToSet
  <2>3. C!Features(ConfiguredOrder[k]) \in Seq(Roles)
    BY <1>2, <2>2, FeaturesAre
  <2>4. k \in 1..Len(ConfiguredOrder) /\ j \in 1..Len(C!Features(ConfiguredOrder[k]))
    BY <2>1, <2>3, KindsAre
  <2> QED
    BY <1>1, <2>4
<1>7. SavedInv'
  BY <1>1, <1>2, SavedKept DEF Applying, Upgrading
<1> QED
  BY <1>1, <1>4, <1>5, <1>6, <1>7 DEF ConfigurationInv, Applying, Upgrading

(* ... the next one is of the kind and the name the component selected, or *)
(* such a document is there, ...                                           *)
LEMMA Appended ==
  ASSUME C!TypeOK, cFile \in ApplyFiles, NEW c \in C!ToSet(ConfiguredOrder), NEW kind \in Roles,
         C!AppendConfig(c, kind)
  PROVE  \/ cConf' = cConf /\ C!At(kind, cConf) # {}
         \/ \E d \in C!Document :
              cConf' = Append(cConf, d) /\ d.kind = kind /\ d.name = C!Component(c).configuration
<1> DEFINE selector == C!Component(c).configuration
           own == C!Named(kind, selector, cFile.docs)
<1>1. cFile.docs \in Seq(C!Document)
  BY ApplyFileIs
<1>2. CASE own # {} /\ cConf' = Append(cConf, cFile.docs[C!Min(own)])
  <2>1. own \in SUBSET Nat
    BY <1>1 DEF C!Named, C!At
  <2>2. C!Min(own) \in own
    BY <1>2, <2>1, LeastIs
  <2>3. C!Min(own) \in DOMAIN cFile.docs /\ cFile.docs[C!Min(own)].kind = kind
        /\ cFile.docs[C!Min(own)].name = selector
    BY <2>2 DEF C!Named, C!At
  <2>4. cFile.docs[C!Min(own)] \in C!Document
    BY <1>1, <2>3
  <2> QED
    BY <1>2, <2>3, <2>4
<1>3. CASE C!Named(kind, selector, cConf) # {} /\ cConf' = cConf
  BY <1>3 DEF C!Named
<1>4. CASE selector = "default" /\ cConf' = Append(cConf, C!Shipped(kind))
  BY <1>4, ShippedIs
<1> QED
  BY <1>2, <1>3, <1>4 DEF C!AppendConfig

(* ... which keeps the invariant, feature by feature, ...                  *)
LEMMA AppendFeatureNext ==
  ASSUME ConfigurationInv, C!AppendFeature
  PROVE  ConfigurationInv'
<1> DEFINE c == ConfiguredOrder[cIndex]
           kind == C!Features(c)[cFeature]
<1>1. /\ cPhase = "append" /\ cPhase' = "append" /\ cIndex <= Len(ConfiguredOrder)
      /\ cFeature <= Len(C!Features(c)) /\ C!AppendConfig(c, kind)
      /\ cFeature' = cFeature + 1 /\ cIndex' = cIndex
      /\ UNCHANGED <<cFile, cManifest, cInventory, cBackup, cVars, cTodo, cRuns, cRan>>
  BY DEF C!AppendFeature
<1>2. /\ C!TypeOK /\ SavedInv /\ cFile \in ApplyFiles /\ SelectedOnly /\ FeaturesDone
      /\ cIndex \in Nat \ {0} /\ cFeature \in Nat \ {0} /\ cConf \in Seq(C!Document)
  BY <1>1, KindsAre DEF ConfigurationInv, Applying, C!TypeOK
<1>3. c \in C!ToSet(ConfiguredOrder) /\ cIndex \in DOMAIN ConfiguredOrder
  BY <1>1, <1>2, KindsAre DEF C!ToSet
<1>4. /\ cFeature \in DOMAIN C!Features(c) /\ kind \in Roles /\ c \in C!Mapped(kind)
  <2>1. C!Features(c) \in Seq(Roles)
    BY <1>2, <1>3, FeaturesAre
  <2>2. cFeature \in DOMAIN C!Features(c)
    BY <1>1, <1>2, <2>1
  <2> QED
    BY <1>2, <1>3, <2>1, <2>2, FeaturesAre
<1>5. /\ \A k : C!Features(k)' = C!Features(k)
      /\ \A k : C!Mapped(k)' = C!Mapped(k) /\ C!Component(k)' = C!Component(k)
  BY <1>1 DEF C!Features, C!Active, C!Component, C!Mapped
<1>6. \/ cConf' = cConf /\ C!At(kind, cConf) # {}
      \/ \E d \in C!Document :
              cConf' = Append(cConf, d) /\ d.kind = kind /\ d.name = C!Component(c).configuration
  BY <1>1, <1>2, <1>3, <1>4, Appended
<1> HIDE DEF c, kind
<1>7. ASSUME cConf' = cConf, C!At(kind, cConf) # {}
      PROVE  SelectedOnly' /\ C!TypeOK'
             /\ C!At(kind, cConf') # {} /\ \A k : C!At(k, cConf) # {} => C!At(k, cConf') # {}
  <2>1. SelectedOnly'
    BY <1>2, <1>5, <1>7 DEF SelectedOnly
  <2>2. C!TypeOK'
    BY <1>1, <1>2, <1>7 DEF C!TypeOK, C!Grouping
  <2>3. C!At(kind, cConf') # {} /\ \A k : C!At(k, cConf) # {} => C!At(k, cConf') # {}
    BY <1>7
  <2> QED
    BY <2>1, <2>2, <2>3
<1>8. ASSUME \E d \in C!Document :
               cConf' = Append(cConf, d) /\ d.kind = kind /\ d.name = C!Component(c).configuration
      PROVE  SelectedOnly' /\ C!TypeOK'
             /\ C!At(kind, cConf') # {} /\ \A k : C!At(k, cConf) # {} => C!At(k, cConf') # {}
  <2>1. PICK d \in C!Document :
             cConf' = Append(cConf, d) /\ d.kind = kind /\ d.name = C!Component(c).configuration
    BY <1>8
  <2> DEFINE n == Len(cConf)
  <2>2. /\ cConf' \in Seq(C!Document) /\ n \in Nat /\ DOMAIN cConf = 1..n /\ DOMAIN cConf' = 1..(n + 1)
        /\ cConf'[n + 1] = d /\ \A i \in 1..n : cConf'[i] = cConf[i]
    BY <1>2, <2>1
  <2> HIDE DEF n
  <2>3. SelectedOnly'
    <3>1. 1 \in DOMAIN cConf' /\ cConf'[1].kind = shared
      BY <1>2, <2>2 DEF SelectedOnly
    <3>2. ASSUME NEW i \in DOMAIN cConf', i # 1
          PROVE  \E k \in C!Mapped(cConf'[i].kind) : cConf'[i].name = C!Component(k).configuration
      <4>1. CASE i = n + 1
        BY <1>4, <2>1, <2>2, <4>1
      <4>2. CASE i \in 1..n
        BY <1>2, <2>2, <3>2, <4>2 DEF SelectedOnly
      <4> QED
        BY <2>2, <4>1, <4>2
    <3> QED
      BY <1>5, <3>1, <3>2 DEF SelectedOnly
  <2>4. C!TypeOK'
    BY <1>1, <1>2, <2>2 DEF C!TypeOK, C!Grouping
  <2>5. C!At(kind, cConf') # {} /\ \A k : C!At(k, cConf) # {} => C!At(k, cConf') # {}
    <3>1. n + 1 \in C!At(kind, cConf')
      BY <2>1, <2>2 DEF C!At
    <3>2. ASSUME NEW k, NEW i \in C!At(k, cConf)
          PROVE  i \in C!At(k, cConf')
      BY <2>2, <3>2 DEF C!At
    <3> QED
      BY <3>1, <3>2
  <2> QED
    BY <2>3, <2>4, <2>5
<1>9. SelectedOnly' /\ C!TypeOK'
      /\ C!At(kind, cConf') # {} /\ \A k : C!At(k, cConf) # {} => C!At(k, cConf') # {}
  BY <1>6, <1>7, <1>8
<1>10. FeaturesDone'
  <2> SUFFICES ASSUME NEW k \in DOMAIN ConfiguredOrder, NEW j \in DOMAIN C!Features(ConfiguredOrder[k]),
                      k < cIndex \/ (k = cIndex /\ j < cFeature + 1)
               PROVE  C!At(C!Features(ConfiguredOrder[k])[j], cConf') # {}
    BY <1>1, <1>5 DEF FeaturesDone
  <2>1. CASE k < cIndex \/ (k = cIndex /\ j < cFeature)
    BY <1>2, <1>9, <2>1 DEF FeaturesDone
  <2>2. CASE k = cIndex /\ j = cFeature
    BY <1>9, <2>2 DEF c, kind
  <2>3. j \in Nat
    <3>1. ConfiguredOrder[k] \in C!ToSet(ConfiguredOrder)
      BY DEF C!ToSet
    <3> QED
      BY <1>2, <3>1, FeaturesAre
  <2> QED
    BY <1>2, <2>1, <2>2, <2>3
<1>11. SavedInv'
  BY <1>1, <1>2, SavedKept DEF Applying, Upgrading
<1> QED
  BY <1>1, <1>2, <1>9, <1>10, <1>11 DEF ConfigurationInv, Applying, Upgrading

(* ... until a component has no more features.                             *)
LEMMA NextComponentNext ==
  ASSUME ConfigurationInv, C!NextComponent
  PROVE  ConfigurationInv'
<1>1. /\ cPhase = "append" /\ cPhase' = "append" /\ cIndex <= Len(ConfiguredOrder)
      /\ cFeature > Len(C!Features(ConfiguredOrder[cIndex]))
      /\ cFeature' = 1 /\ cIndex' = cIndex + 1
      /\ UNCHANGED <<cFile, cConf, cManifest, cInventory, cBackup, cVars, cTodo, cRuns, cRan>>
  BY DEF C!NextComponent
<1>2. /\ C!TypeOK /\ SavedInv /\ cFile \in ApplyFiles /\ SelectedOnly /\ FeaturesDone
      /\ cIndex \in Nat \ {0} /\ cFeature \in Nat \ {0}
  BY <1>1, KindsAre DEF ConfigurationInv, Applying, C!TypeOK
<1>3. /\ \A k : C!Features(k)' = C!Features(k)
      /\ \A k : C!Mapped(k)' = C!Mapped(k) /\ C!Component(k)' = C!Component(k)
  BY <1>1 DEF C!Features, C!Active, C!Component, C!Mapped
<1>4. C!TypeOK'
  <2>1. cIndex + 1 \in 1..(Len(ConfiguredOrder) + 1)
    BY <1>1, <1>2, KindsAre
  <2> QED
    BY <1>1, <1>2, <2>1 DEF C!TypeOK, C!Grouping
<1>5. FeaturesDone'
  <2> SUFFICES ASSUME NEW k \in DOMAIN ConfiguredOrder, NEW j \in DOMAIN C!Features(ConfiguredOrder[k]),
                      k < cIndex + 1 \/ (k = cIndex + 1 /\ j < 1)
               PROVE  C!At(C!Features(ConfiguredOrder[k])[j], cConf) # {}
    BY <1>1, <1>3 DEF FeaturesDone
  <2>1. k \in Nat /\ j \in 1..Len(C!Features(ConfiguredOrder[k]))
        /\ Len(C!Features(ConfiguredOrder[k])) \in Nat
    <3>1. ConfiguredOrder[k] \in C!ToSet(ConfiguredOrder)
      BY DEF C!ToSet
    <3> QED
      BY <1>2, <3>1, FeaturesAre, KindsAre
  <2>2. k < cIndex \/ k = cIndex
    BY <1>2, <2>1
  <2>3. k < cIndex \/ (k = cIndex /\ j < cFeature)
    BY <1>1, <1>2, <2>1, <2>2
  <2> QED
    BY <1>2, <2>3 DEF FeaturesDone
<1>6. SelectedOnly'
  BY <1>1, <1>2, <1>3 DEF SelectedOnly
<1>7. SavedInv'
  BY <1>1, <1>2, SavedKept DEF Applying, Upgrading
<1> QED
  BY <1>1, <1>2, <1>4, <1>5, <1>6, <1>7 DEF ConfigurationInv, Applying, Upgrading

(* A command that ends leaves what is on disk.                             *)
LEMMA EndIs ==
  ASSUME ConfigurationInv, C!End, SavedInv', cVars' = cVars, cRuns' = cRuns, cInventory' = cInventory,
         cManifest' = None \/ cManifest'.docs \in Seq(C!Document)
  PROVE  ConfigurationInv'
<1>1. /\ cPhase' = "idle" /\ cFile' = None /\ cConf' = <<>> /\ cIndex' = 1 /\ cFeature' = 1
      /\ cTodo' = <<>>
  BY DEF C!End, C!Goto
<1>2. C!TypeOK'
  <2>1. C!TypeOK
    BY DEF ConfigurationInv
  <2>2. 1 \in 1..(Len(ConfiguredOrder) + 1)
    BY KindsAre
  <2>3. <<>> \in Seq(C!Document) /\ <<>> \in Seq(Roles \cup {shared})
    OBVIOUS
  <2> QED
    BY <1>1, <2>1, <2>2, <2>3 DEF C!TypeOK, C!Grouping
<1> QED
  BY <1>1, <1>2 DEF ConfigurationInv, Applying, Upgrading

(* So does one that fails or is killed.                                    *)
LEMMA StopNext ==
  ASSUME ConfigurationInv, C!Stop
  PROVE  ConfigurationInv'
<1>1. C!End /\ UNCHANGED <<cManifest, cInventory, cBackup, cVars, cRuns, cRan>>
  BY DEF C!Stop
<1>2. SavedInv /\ cPhase' = "idle"
  BY <1>1 DEF ConfigurationInv, C!End, C!Goto
<1>3. SavedInv'
  BY <1>1, <1>2, SavedKept DEF Applying, Upgrading
<1>4. cManifest = None \/ cManifest.docs \in Seq(C!Document)
  BY DEF ConfigurationInv, C!TypeOK
<1> QED
  BY <1>1, <1>3, <1>4, EndIs

(* An apply saves its input: no apply has run with it yet.                 *)
LEMMA StartApplyNext ==
  ASSUME ConfigurationInv, C!StartApply
  PROVE  ConfigurationInv'
<1>1. /\ cPhase = "idle" /\ cPhase' = "terraform" /\ cRuns < MaxRuns /\ cRuns' = cRuns + 1
      /\ cFile' \in ApplyFiles /\ cManifest' = [docs |-> cFile'.docs, of |-> cRuns']
      /\ UNCHANGED <<cConf, cIndex, cFeature, cInventory, cBackup, cVars, cTodo, cRan>>
  BY DEF C!StartApply, C!Goto
<1>2. /\ C!TypeOK /\ SavedInv /\ cRuns \in 0..MaxRuns /\ cRuns \in Nat
  <2>1. C!TypeOK /\ SavedInv
    BY DEF ConfigurationInv
  <2>2. cRuns \in 0..MaxRuns
    BY <2>1 DEF C!TypeOK
  <2> QED
    BY <2>1, <2>2, KindsAre
<1>3. cFile'.docs \in Seq(C!Document)
  BY <1>1, ConfigurationAssumption DEF C!Assumption, C!InputFile
<1>4. C!TypeOK'
  <2>1. cRuns + 1 \in 0..MaxRuns
    BY <1>1, <1>2, KindsAre
  <2> QED
    BY <1>1, <1>2, <1>3, <2>1 DEF C!TypeOK, C!Grouping
<1>5. SavedInv'
  <2>1. cRan # None => cRan.of \in Nat /\ cRan.of <= cRuns
    BY <1>2 DEF SavedInv
  <2>2. Saved(cManifest)'
    BY <1>1, <1>2, <1>3, <2>1 DEF Saved, SaysWhatRan
  <2>3. cBackup # None => /\ Saved(cBackup.manifest)' /\ cBackup.manifest.of # cRuns'
                          /\ cBackup.inventory = None \/ C!Grouping(cBackup.inventory)
    BY <1>1, <1>2 DEF SavedInv, BackupThere, Saved, SaysWhatRan
  <2>4. cRan' # None => cRan'.of \in Nat /\ cRan'.of <= cRuns' /\ cRan'.of # cRuns'
    BY <1>1, <1>2, <2>1
  <2> QED
    BY <1>1, <2>2, <2>3, <2>4 DEF SavedInv, BackupThere, Upgrading
<1> QED
  BY <1>1, <1>2, <1>4, <1>5 DEF ConfigurationInv, Applying, Upgrading

(* The storage changes neither kinds nor names, and the first of the       *)
(* masters' documents has it.                                              *)
LEMMA CollectedIs ==
  ASSUME cConf \in Seq(C!Document), cFile \in ApplyFiles
  PROVE  /\ C!Collected \in Seq(C!Document) /\ DOMAIN C!Collected = DOMAIN cConf
         /\ \A i \in DOMAIN cConf : /\ C!Collected[i].kind = cConf[i].kind
                                    /\ C!Collected[i].name = cConf[i].name
         /\ \A kind : C!At(kind, C!Collected) = C!At(kind, cConf)
         /\ C!At(masterRole, cConf) # {} => C!First(masterRole, C!Collected).storage = cFile.storage
<1> DEFINE n == Len(cConf)
<1>1. n \in Nat /\ DOMAIN cConf = 1..n
  OBVIOUS
<1>2. /\ DOMAIN C!Collected = 1..n
      /\ \A i \in 1..n : C!Collected[i] =
           IF C!At(masterRole, cConf) # {} /\ cConf[i] = C!First(masterRole, cConf)
           THEN [cConf[i] EXCEPT !.storage = cFile.storage] ELSE cConf[i]
  BY <1>1 DEF C!Collected
<1>3. C!Collected = [i \in 1..n |-> C!Collected[i]]
  BY <1>1 DEF C!Collected
<1> HIDE DEF n
<1>4. ASSUME NEW i \in 1..n
      PROVE  /\ C!Collected[i] \in C!Document
             /\ C!Collected[i].kind = cConf[i].kind /\ C!Collected[i].name = cConf[i].name
             /\ (C!At(masterRole, cConf) # {} /\ cConf[i] = C!First(masterRole, cConf)
                   => C!Collected[i].storage = cFile.storage)
  <2>1. cConf[i] \in C!Document /\ cFile.storage \in Storages
    BY <1>1, ApplyFileIs
  <2>2. cConf[i] \in [kind : Roles \cup {shared}, name : DocumentNames, spec : Specs, storage : Storages \cup {None}]
    BY <2>1 DEF C!Document
  <2> DEFINE d == [cConf[i] EXCEPT !.storage = cFile.storage]
  <2>3. d \in C!Document /\ d.kind = cConf[i].kind /\ d.name = cConf[i].name /\ d.storage = cFile.storage
    BY <2>1, <2>2 DEF C!Document
  <2> HIDE DEF d
  <2>4. C!Collected[i] = IF C!At(masterRole, cConf) # {} /\ cConf[i] = C!First(masterRole, cConf)
                         THEN d ELSE cConf[i]
    BY <1>2 DEF d
  <2> QED
    BY <2>1, <2>3, <2>4
<1>5. C!Collected \in Seq(C!Document)
  <2>1. C!Collected \in [1..n -> C!Document]
    BY <1>3, <1>4
  <2> QED
    BY <1>1, <2>1, IsSeq
<1>6. \A kind : C!At(kind, C!Collected) = C!At(kind, cConf)
  BY <1>1, <1>2, <1>4 DEF C!At
<1>7. C!At(masterRole, cConf) # {} => C!First(masterRole, C!Collected).storage = cFile.storage
  <2> SUFFICES ASSUME C!At(masterRole, cConf) # {}
               PROVE  C!First(masterRole, C!Collected).storage = cFile.storage
    OBVIOUS
  <2> DEFINE m == C!Min(C!At(masterRole, cConf))
  <2>1. m \in C!At(masterRole, cConf)
    BY FirstOfKind
  <2>2. m \in 1..n /\ cConf[m] = C!First(masterRole, cConf)
    BY <1>1, <2>1 DEF C!At, C!First
  <2>3. C!First(masterRole, C!Collected) = C!Collected[m]
    BY <1>6 DEF C!First
  <2> QED
    BY <1>4, <2>2, <2>3
<1> QED
  BY <1>1, <1>2, <1>4, <1>5, <1>6, <1>7

(* All documents are there when the last component is done.                *)
LEMMA CollectNext ==
  ASSUME ConfigurationInv, C!CollectInfrastructureConfig
  PROVE  ConfigurationInv'
<1>1. /\ cPhase = "append" /\ cIndex > Len(ConfiguredOrder)
      /\ cManifest' = [docs |-> C!Collected, of |-> cRuns]
      /\ UNCHANGED <<cInventory, cBackup, cVars, cRuns, cRan>>
  BY DEF C!CollectInfrastructureConfig
<1>2. /\ C!TypeOK /\ SavedInv /\ cFile \in ApplyFiles /\ SelectedOnly /\ FeaturesDone
      /\ cConf \in Seq(C!Document) /\ cRuns \in Nat /\ cIndex \in Nat
  BY <1>1, KindsAre DEF ConfigurationInv, Applying, C!TypeOK
<1>3. /\ C!Collected \in Seq(C!Document) /\ DOMAIN C!Collected = DOMAIN cConf
      /\ \A i \in DOMAIN cConf : /\ C!Collected[i].kind = cConf[i].kind
                                 /\ C!Collected[i].name = cConf[i].name
      /\ \A kind : C!At(kind, C!Collected) = C!At(kind, cConf)
      /\ C!At(masterRole, cConf) # {} => C!First(masterRole, C!Collected).storage = cFile.storage
  BY <1>2, CollectedIs
<1>4. cPhase' \in {"idle", "resources"}
  BY DEF C!CollectInfrastructureConfig, C!End, C!Goto
<1>5. SavedInv'
  <2>1. /\ cRan # None => cRan.of \in Nat /\ cRan.of <= cRuns /\ cRan.of # cRuns
        /\ cBackup # None => /\ Saved(cBackup.manifest) /\ cBackup.manifest.of # cRuns
                             /\ cBackup.inventory = None \/ C!Grouping(cBackup.inventory)
    BY <1>1, <1>2 DEF SavedInv, Applying, BackupThere
  <2>2. Saved(cManifest)'
    BY <1>1, <1>2, <1>3, <2>1 DEF Saved, SaysWhatRan
  <2>3. cBackup # None => Saved(cBackup.manifest)'
    BY <1>1, <2>1 DEF Saved, SaysWhatRan
  <2> QED
    BY <1>1, <1>4, <2>1, <2>2, <2>3 DEF SavedInv, BackupThere, Upgrading
<1>6. CASE C!End
  BY <1>1, <1>3, <1>5, <1>6, EndIs
<1>7. CASE /\ cPhase' = "resources" /\ cConf' = C!Collected /\ cIndex' = 1 /\ cFeature' = 1
           /\ UNCHANGED <<cFile, cTodo>>
  <2> HIDE DEF C!Collected
  <2>1. /\ \A k : C!Features(k)' = C!Features(k)
        /\ \A k : C!Mapped(k)' = C!Mapped(k) /\ C!Component(k)' = C!Component(k)
    BY <1>7 DEF C!Features, C!Active, C!Component, C!Mapped
  <2>2. C!TypeOK'
    <3>1. 1 \in 1..(Len(ConfiguredOrder) + 1)
      BY KindsAre
    <3> QED
      BY <1>1, <1>2, <1>3, <1>7, <3>1 DEF C!TypeOK, C!Grouping
  <2>3. SelectedOnly'
    BY <1>2, <1>3, <1>7, <2>1 DEF SelectedOnly
  <2>4. ASSUME NEW kind \in Roles, C!Mapped(kind) # {}
        PROVE  C!At(kind, cConf) # {}
    <3>1. PICK c \in C!Mapped(kind) : TRUE
      BY <2>4
    <3>2. PICK k \in DOMAIN ConfiguredOrder : \E j \in DOMAIN C!Features(ConfiguredOrder[k]) :
            c = ConfiguredOrder[k] /\ C!Features(c)[j] = kind
      BY <1>2, MappedIs
    <3>3. k < cIndex
      BY <1>1, <1>2, KindsAre
    <3> QED
      BY <1>2, <3>2, <3>3 DEF FeaturesDone
  <2>5. AllSelected'
    BY <1>1, <1>3, <1>7, <2>1, <2>4 DEF AllSelected
  <2> QED
    BY <1>1, <1>2, <1>5, <1>7, <2>2, <2>3, <2>5 DEF ConfigurationInv, Applying, Upgrading
<1> QED
  BY <1>6, <1>7 DEF C!CollectInfrastructureConfig, C!Goto

(* The groups are those of the machines of active components.              *)
LEMMA CreateInventoryNext ==
  ASSUME ConfigurationInv, C!CreateInventory
  PROVE  ConfigurationInv'
<1>1. /\ cPhase = "resources" /\ cPhase' = "roles" /\ cInventory' = C!Grouped
      /\ \A c \in C!Active : C!HostsOf(c) \subseteq Hosts
      /\ cVars' = C!NoVars /\ cTodo' = cFile.enabled
      /\ UNCHANGED <<cFile, cConf, cIndex, cFeature, cManifest, cBackup, cRuns, cRan>>
  BY DEF C!CreateInventory, C!CopyResources, C!Goto
<1>2. /\ C!TypeOK /\ SavedInv /\ cFile \in ApplyFiles /\ SelectedOnly /\ AllSelected
  BY <1>1 DEF ConfigurationInv, Applying
<1>3. /\ \A k : C!HostsOf(k)' = C!HostsOf(k)
      /\ \A k : C!Mapped(k)' = C!Mapped(k) /\ C!Component(k)' = C!Component(k)
  BY <1>1 DEF C!HostsOf, C!Active, C!Component, C!Mapped
<1>4. C!Grouping(C!Grouped)
  <2> SUFFICES ASSUME NEW kind \in DOMAIN C!Grouped
               PROVE  /\ kind \in Roles /\ C!Grouped[kind] # {} /\ C!Grouped[kind] \subseteq Hosts
    BY DEF C!Grouping
  <2>1. /\ kind \in Roles /\ \E c \in C!Mapped(kind) : C!HostsOf(c) # {}
        /\ C!Grouped[kind] = UNION {C!HostsOf(c) : c \in C!Mapped(kind)}
    BY DEF C!Grouped
  <2>2. \A c \in C!Mapped(kind) : C!HostsOf(c) \subseteq Hosts
    BY <1>1 DEF C!Mapped
  <2> QED
    BY <2>1, <2>2
<1>5. cVars'.main = <<>> /\ cVars'.listed = {} /\ DOMAIN cVars'.main = {}
      /\ cVars' = [main |-> cVars'.main, manifest |-> cVars'.manifest,
                   shared |-> cVars'.shared, listed |-> cVars'.listed]
  BY <1>1 DEF C!NoVars
<1>6. cTodo' \in Seq(Roles \cup {shared})
  BY <1>1, <1>2, ApplyFileIs
<1>7. C!TypeOK'
  <2>1. C!Grouping(cInventory)'
    BY <1>1, <1>4 DEF C!Grouping
  <2> QED
    BY <1>1, <1>2, <1>5, <1>6, <2>1 DEF C!TypeOK
<1>8. SelectedOnly' /\ AllSelected'
  BY <1>1, <1>2, <1>3 DEF SelectedOnly, AllSelected
<1>9. RolesWritten'
  <2>1. C!Grouped' = C!Grouped
    BY <1>3 DEF C!Grouped
  <2>2. \A i \in DOMAIN cFile.enabled : cFile.enabled[i] \in C!ToSet(cTodo')
    BY <1>1 DEF C!ToSet
  <2> QED
    BY <1>1, <1>5, <2>1, <2>2 DEF RolesWritten, C!ToSet
<1>10. SavedInv'
  BY <1>1, <1>2, SavedKept DEF Applying, Upgrading
<1> QED
  BY <1>1, <1>2, <1>5, <1>7, <1>8, <1>9, <1>10 DEF ConfigurationInv, Applying, Upgrading

(* A role's document is written into its vars, if there is one.            *)
LEMMA WrittenIs ==
  ASSUME ConfigurationInv, cTodo # <<>>, NEW documents \in Seq(C!Document), C!WriteRoleVars(documents)
  PROVE  /\ Head(cTodo) \in Roles \cup {shared} /\ Tail(cTodo) \in Seq(Roles \cup {shared})
         /\ C!ToSet(cTodo) = {Head(cTodo)} \cup C!ToSet(Tail(cTodo))
         /\ cVars' = [main |-> cVars'.main, manifest |-> cVars.manifest,
                      shared |-> cVars.shared, listed |-> cVars'.listed]
         /\ cVars'.listed = DOMAIN cVars'.main
         /\ DOMAIN cVars'.main = DOMAIN cVars.main \cup
              (IF C!At(Head(cTodo), documents) = {} THEN {} ELSE {Head(cTodo)})
         /\ \A kind \in DOMAIN cVars'.main :
              \/ kind \in DOMAIN cVars.main /\ cVars'.main[kind] = cVars.main[kind]
              \/ /\ kind = Head(cTodo) /\ C!At(kind, documents) # {}
                 /\ cVars'.main[kind] = C!First(kind, documents)
<1> DEFINE role == Head(cTodo)
           main == C!With(cVars.main, role, C!First(role, documents))
<1>1. cTodo \in Seq(Roles \cup {shared}) /\ cTodo # <<>>
  BY DEF ConfigurationInv, C!TypeOK
<1>2. /\ role \in Roles \cup {shared} /\ Tail(cTodo) \in Seq(Roles \cup {shared})
      /\ C!ToSet(cTodo) = {role} \cup C!ToSet(Tail(cTodo))
  <2>1. /\ Len(Tail(cTodo)) = Len(cTodo) - 1 /\ Len(cTodo) \in Nat \ {0}
        /\ \A i \in 1..(Len(cTodo) - 1) : Tail(cTodo)[i] = cTodo[i + 1]
        /\ Tail(cTodo) \in Seq(Roles \cup {shared}) /\ role = cTodo[1] /\ role \in Roles \cup {shared}
    BY <1>1
  <2>2. \A i \in 1..Len(cTodo) : i = 1 \/ (i - 1 \in 1..(Len(cTodo) - 1) /\ cTodo[i] = Tail(cTodo)[i - 1])
    BY <2>1
  <2>3. DOMAIN cTodo = 1..Len(cTodo) /\ DOMAIN Tail(cTodo) = 1..(Len(cTodo) - 1)
    BY <1>1, <2>1
  <2>4. /\ 1 \in 1..Len(cTodo)
        /\ \A i \in 1..(Len(cTodo) - 1) : i + 1 \in 1..Len(cTodo)
    BY <2>1
  <2>5. ASSUME NEW x
        PROVE  x \in C!ToSet(cTodo) <=> x = role \/ x \in C!ToSet(Tail(cTodo))
    <3>1. ASSUME x \in C!ToSet(cTodo)
          PROVE  x = role \/ x \in C!ToSet(Tail(cTodo))
      <4>1. PICK i \in 1..Len(cTodo) : x = cTodo[i]
        BY <2>3, <3>1 DEF C!ToSet
      <4>2. CASE i = 1
        BY <2>1, <4>1, <4>2
      <4>3. CASE i - 1 \in DOMAIN Tail(cTodo) /\ cTodo[i] = Tail(cTodo)[i - 1]
        BY <4>1, <4>3 DEF C!ToSet
      <4> QED
        BY <2>2, <2>3, <4>2, <4>3
    <3>2. ASSUME x \in C!ToSet(Tail(cTodo))
          PROVE  x \in C!ToSet(cTodo)
      BY <2>1, <2>3, <2>4, <3>2 DEF C!ToSet
    <3>3. role \in C!ToSet(cTodo)
      BY <2>1, <2>3, <2>4 DEF C!ToSet
    <3> QED
      BY <3>1, <3>2, <3>3
  <2> HIDE DEF role
  <2>6. C!ToSet(cTodo) = {role} \cup C!ToSet(Tail(cTodo))
    BY <2>5
  <2> QED
    BY <2>1, <2>6
<1>3. /\ cVars = [main |-> cVars.main, manifest |-> cVars.manifest,
                  shared |-> cVars.shared, listed |-> cVars.listed]
      /\ cVars.listed = DOMAIN cVars.main
  BY DEF ConfigurationInv
<1>4. CASE C!At(role, documents) = {}
  <2>1. cVars' = cVars
    BY <1>4 DEF C!WriteRoleVars
  <2> QED
    BY <1>2, <1>3, <1>4, <2>1
<1>5. CASE C!At(role, documents) # {}
  <2>1. cVars' = [cVars EXCEPT !.main = main, !.listed = cVars.listed \cup {role}]
    BY <1>5 DEF C!WriteRoleVars
  <2>2. /\ DOMAIN main = DOMAIN cVars.main \cup {role} /\ main[role] = C!First(role, documents)
        /\ \A kind \in DOMAIN cVars.main : kind # role => main[kind] = cVars.main[kind]
    BY DEF C!With
  <2> HIDE DEF role, main
  <2>3. cVars' = [main |-> main, manifest |-> cVars.manifest,
                  shared |-> cVars.shared, listed |-> cVars.listed \cup {role}]
    BY <1>3, <2>1
  <2>4. /\ cVars'.main = main /\ cVars'.listed = DOMAIN main
        /\ cVars' = [main |-> cVars'.main, manifest |-> cVars.manifest,
                     shared |-> cVars.shared, listed |-> cVars'.listed]
    BY <1>3, <2>2, <2>3
  <2>5. \A kind \in DOMAIN main :
              \/ kind \in DOMAIN cVars.main /\ main[kind] = cVars.main[kind]
              \/ /\ kind = role /\ C!At(kind, documents) # {}
                 /\ main[kind] = C!First(kind, documents)
    BY <1>5, <2>2
  <2>6. /\ DOMAIN cVars'.main = DOMAIN cVars.main \cup {role}
        /\ \A kind \in DOMAIN cVars'.main :
              \/ kind \in DOMAIN cVars.main /\ cVars'.main[kind] = cVars.main[kind]
              \/ /\ kind = role /\ C!At(kind, documents) # {}
                 /\ cVars'.main[kind] = C!First(kind, documents)
    BY <2>2, <2>4, <2>5
  <2> QED
    BY <1>2, <1>5, <2>4, <2>6 DEF role
<1> QED
  BY <1>4, <1>5

(* The roles of an apply take them from what was appended.                 *)
LEMMA GenerateRoleVarsNext ==
  ASSUME ConfigurationInv, C!GenerateRoleVars
  PROVE  ConfigurationInv'
<1>1. /\ cPhase = "roles" /\ cPhase' = "roles" /\ cTodo # <<>> /\ cTodo' = Tail(cTodo)
      /\ C!WriteRoleVars(cConf)
      /\ UNCHANGED <<cFile, cConf, cIndex, cFeature, cManifest, cInventory, cBackup, cRuns, cRan>>
  BY DEF C!GenerateRoleVars
<1>2. /\ C!TypeOK /\ SavedInv /\ cFile \in ApplyFiles /\ SelectedOnly /\ AllSelected /\ RolesWritten
      /\ cConf \in Seq(C!Document)
  BY <1>1 DEF ConfigurationInv, Applying, C!TypeOK
<1>3. /\ \A k : C!HostsOf(k)' = C!HostsOf(k)
      /\ \A k : C!Mapped(k)' = C!Mapped(k) /\ C!Component(k)' = C!Component(k)
  BY <1>1 DEF C!HostsOf, C!Active, C!Component, C!Mapped
<1>4. /\ Tail(cTodo) \in Seq(Roles \cup {shared})
      /\ C!ToSet(cTodo) = {Head(cTodo)} \cup C!ToSet(Tail(cTodo))
      /\ cVars' = [main |-> cVars'.main, manifest |-> cVars.manifest,
                   shared |-> cVars.shared, listed |-> cVars'.listed]
      /\ cVars'.listed = DOMAIN cVars'.main
      /\ DOMAIN cVars'.main = DOMAIN cVars.main \cup
           (IF C!At(Head(cTodo), cConf) = {} THEN {} ELSE {Head(cTodo)})
      /\ \A kind \in DOMAIN cVars'.main :
           \/ kind \in DOMAIN cVars.main /\ cVars'.main[kind] = cVars.main[kind]
           \/ C!At(kind, cConf) # {} /\ cVars'.main[kind] = C!First(kind, cConf)
  BY <1>1, <1>2, WrittenIs
<1>5. cVars' = [main |-> cVars'.main, manifest |-> cVars'.manifest,
                shared |-> cVars'.shared, listed |-> cVars'.listed]
  BY <1>4
<1>6. RolesWritten'
  <2>1. C!Grouped' = C!Grouped
    BY <1>3 DEF C!Grouped
  <2>2. \A kind \in DOMAIN cVars'.main :
          C!At(kind, cConf) # {} /\ cVars'.main[kind] = C!First(kind, cConf)
    BY <1>2, <1>4 DEF RolesWritten
  <2>3. ASSUME NEW i \in DOMAIN cFile.enabled
        PROVE  \/ cFile.enabled[i] \in C!ToSet(cTodo') \/ C!At(cFile.enabled[i], cConf) = {}
               \/ cFile.enabled[i] \in DOMAIN cVars'.main
    <3>1. CASE cFile.enabled[i] = Head(cTodo)
      BY <1>4, <3>1
    <3>2. CASE cFile.enabled[i] # Head(cTodo)
      BY <1>1, <1>2, <1>4, <3>2 DEF RolesWritten
    <3> QED
      BY <3>1, <3>2
  <2> QED
    BY <1>1, <1>2, <2>1, <2>2, <2>3 DEF RolesWritten, C!ToSet
<1>7. C!TypeOK'
  <2>1. \A kind \in DOMAIN cVars'.main : cVars'.main[kind].kind = kind
    BY <1>2, <1>4, FirstOfKind DEF C!TypeOK
  <2> QED
    BY <1>1, <1>2, <1>4, <2>1 DEF C!TypeOK, C!Grouping
<1>8. SelectedOnly' /\ AllSelected'
  BY <1>1, <1>2, <1>3 DEF SelectedOnly, AllSelected
<1>9. SavedInv'
  BY <1>1, <1>2, SavedKept DEF Applying, Upgrading
<1> QED
  BY <1>1, <1>2, <1>4, <1>5, <1>6, <1>7, <1>8, <1>9 DEF ConfigurationInv, Applying, Upgrading

(* When no role is left, the first document is what all roles share.       *)
LEMMA PopulateGroupVarsNext ==
  ASSUME ConfigurationInv, C!PopulateGroupVars
  PROVE  ConfigurationInv'
<1>1. /\ cPhase = "roles" /\ cPhase' = "playbooks" /\ cTodo = <<>>
      /\ cVars' = [cVars EXCEPT !.shared = C!First(shared, cConf)]
      /\ UNCHANGED <<cFile, cConf, cIndex, cFeature, cManifest, cInventory, cBackup, cTodo, cRuns, cRan>>
  BY DEF C!PopulateGroupVars, C!Goto
<1>2. /\ C!TypeOK /\ SavedInv /\ cFile \in ApplyFiles /\ SelectedOnly /\ AllSelected /\ RolesWritten
      /\ cVars = [main |-> cVars.main, manifest |-> cVars.manifest,
                  shared |-> cVars.shared, listed |-> cVars.listed]
      /\ cVars.listed = DOMAIN cVars.main
  BY <1>1 DEF ConfigurationInv, Applying
<1>3. /\ \A k : C!HostsOf(k)' = C!HostsOf(k)
      /\ \A k : C!Mapped(k)' = C!Mapped(k) /\ C!Component(k)' = C!Component(k)
  BY <1>1 DEF C!HostsOf, C!Active, C!Component, C!Mapped
<1>4. cVars' = [main |-> cVars.main, manifest |-> cVars.manifest,
                shared |-> cConf[1], listed |-> cVars.listed]
  BY <1>1, <1>2, SharedFirst
<1>5. RolesWritten'
  <2>1. C!Grouped' = C!Grouped
    BY <1>3 DEF C!Grouped
  <2> QED
    BY <1>1, <1>2, <1>4, <2>1 DEF RolesWritten
<1>6. C!TypeOK'
  BY <1>1, <1>2, <1>4 DEF C!TypeOK, C!Grouping
<1>7. SelectedOnly' /\ AllSelected'
  BY <1>1, <1>2, <1>3 DEF SelectedOnly, AllSelected
<1>8. SavedInv'
  BY <1>1, <1>2, SavedKept DEF Applying, Upgrading
<1> QED
  BY <1>1, <1>2, <1>4, <1>5, <1>6, <1>7, <1>8 DEF ConfigurationInv, Applying, Upgrading

(* What the manifest has is now what ran.                                  *)
LEMMA RunPlaybooksNext ==
  ASSUME ConfigurationInv, C!RunPlaybooks
  PROVE  ConfigurationInv'
<1>1. /\ cPhase = "playbooks" /\ cRan' = [of |-> cRuns, vars |-> cVars] /\ C!End
      /\ UNCHANGED <<cManifest, cInventory, cBackup, cVars, cRuns>>
  BY DEF C!RunPlaybooks
<1>2. /\ C!TypeOK /\ SavedInv /\ cFile \in ApplyFiles /\ SelectedOnly /\ AllSelected /\ RolesWritten
      /\ cVars.shared = cConf[1] /\ cRuns \in Nat /\ cConf \in Seq(C!Document)
  BY <1>1, KindsAre DEF ConfigurationInv, Applying, C!TypeOK
<1>3. cPhase' = "idle"
  BY <1>1 DEF C!End, C!Goto
<1>4. Saved(cManifest)'
  <2>1. cManifest = [docs |-> cConf, of |-> cRuns]
    BY <1>2 DEF AllSelected
  <2>2. 1 \in DOMAIN cConf /\ C!At(shared, cConf) = {1}
    BY <1>2, SharedFirst DEF SelectedOnly
  <2>3. \A kind \in DOMAIN cVars.main :
          C!At(kind, cConf) # {} /\ cVars.main[kind] = C!First(kind, cConf)
    BY <1>2 DEF RolesWritten
  <2>4. SaysWhatRan(cManifest)'
    BY <1>1, <1>2, <2>1, <2>2, <2>3 DEF SaysWhatRan
  <2> QED
    BY <1>1, <1>2, <2>1, <2>4 DEF Saved
<1>5. SavedInv'
  <2>1. cBackup # None => /\ Saved(cBackup.manifest) /\ cBackup.manifest.of # cRuns
                          /\ cBackup.inventory = None \/ C!Grouping(cBackup.inventory)
    BY <1>1, <1>2 DEF SavedInv, BackupThere, Applying
  <2>2. cBackup # None => Saved(cBackup.manifest)'
    BY <1>1, <2>1 DEF Saved, SaysWhatRan
  <2>3. cRan'.of = cRuns
    BY <1>1
  <2> QED
    BY <1>1, <1>2, <1>3, <1>4, <2>1, <2>2, <2>3 DEF SavedInv, BackupThere, Applying, Upgrading
<1>6. cManifest' = None \/ cManifest'.docs \in Seq(C!Document)
  BY <1>4 DEF Saved
<1> QED
  BY <1>1, <1>5, <1>6, EndIs

(* The backup is a manifest that was saved, now or at an earlier upgrade.  *)
LEMMA StartUpgradeNext ==
  ASSUME ConfigurationInv, C!StartUpgrade
  PROVE  ConfigurationInv'
<1>1. /\ cPhase = "idle" /\ cPhase' = "inventory" /\ cRuns < MaxRuns /\ cRuns' = cRuns + 1
      /\ cManifest # None /\ cConf' \in UpgradeFiles
      /\ cBackup' = IF cBackup = None THEN [manifest |-> cManifest, inventory |-> cInventory] ELSE cBackup
      /\ UNCHANGED <<cFile, cIndex, cFeature, cManifest, cInventory, cVars, cTodo, cRan>>
  BY DEF C!StartUpgrade, C!Goto
<1>2. C!TypeOK /\ SavedInv
  BY DEF ConfigurationInv
<1>3. cRuns \in 0..MaxRuns /\ cRuns \in Nat
  <2>1. cRuns \in 0..MaxRuns
    BY <1>2 DEF C!TypeOK
  <2> QED
    BY <2>1, KindsAre
<1>4. C!TypeOK'
  <2>1. cRuns + 1 \in 0..MaxRuns
    BY <1>1, <1>3, KindsAre
  <2>2. cConf' \in Seq(C!Document)
    BY <1>1, KindsAre
  <2> QED
    BY <1>1, <1>2, <2>1, <2>2 DEF C!TypeOK, C!Grouping
<1>5. Saved(cManifest) /\ (cInventory = None \/ C!Grouping(cInventory))
  BY <1>1, <1>2 DEF SavedInv, C!TypeOK
<1>6. Saved(cBackup'.manifest) /\ (cBackup'.inventory = None \/ C!Grouping(cBackup'.inventory))
  <2>1. CASE cBackup = None
    BY <1>1, <1>5, <2>1
  <2>2. CASE cBackup # None
    BY <1>1, <1>2, <2>2 DEF SavedInv, BackupThere
  <2> QED
    BY <2>1, <2>2
<1>7. SavedInv'
  <2>1. Saved(cManifest)' /\ Saved(cBackup.manifest)'
    BY <1>1, <1>3, <1>5, <1>6 DEF Saved, SaysWhatRan
  <2>2. cRan # None => cRan.of \in Nat /\ cRan.of <= cRuns'
    BY <1>1, <1>2, <1>3 DEF SavedInv
  <2> QED
    BY <1>1, <1>6, <2>1, <2>2 DEF SavedInv, Applying
<1> QED
  BY <1>1, <1>4, <1>7 DEF ConfigurationInv, Applying, Upgrading

(* The inventory is the backup's, with a host for the image registry.      *)
LEMMA UpgradeInventoryNext ==
  ASSUME ConfigurationInv, C!UpgradeInventory
  PROVE  ConfigurationInv'
<1>1. /\ cPhase = "inventory" /\ cPhase' = "upgrade roles"
      /\ cBackup.inventory # None /\ repository \in DOMAIN cBackup.inventory /\ cVars' = C!NoVars
      /\ cInventory' \in IF imageRegistry \in DOMAIN cBackup.inventory THEN {cBackup.inventory}
                         ELSE {C!With(cBackup.inventory, imageRegistry, {h}) :
                                 h \in cBackup.inventory[repository]}
      /\ cTodo' = UpgradeRoles \o [i \in DOMAIN cConf |-> cConf[i].kind]
      /\ UNCHANGED <<cFile, cConf, cIndex, cFeature, cManifest, cBackup, cRuns, cRan>>
  BY DEF C!UpgradeInventory, C!CopyResources, C!Goto
<1>2. C!TypeOK /\ SavedInv
  BY DEF ConfigurationInv
<1>3. C!Grouping(cBackup.inventory)
  BY <1>1, <1>2 DEF SavedInv, BackupThere, Upgrading
<1>4. C!Grouping(cInventory')
  <2>1. CASE cInventory' = cBackup.inventory
    BY <1>3, <2>1
  <2>2. CASE \E h \in cBackup.inventory[repository] :
               cInventory' = C!With(cBackup.inventory, imageRegistry, {h})
    <3>1. PICK h \in cBackup.inventory[repository] :
               cInventory' = C!With(cBackup.inventory, imageRegistry, {h})
      BY <2>2
    <3>2. h \in Hosts /\ imageRegistry \in Roles
      BY <1>1, <1>3, KindsAre DEF C!Grouping
    <3> QED
      BY <1>3, <3>1, <3>2 DEF C!Grouping, C!With
  <2> QED
    BY <1>1, <2>1, <2>2
<1>5. cTodo' \in Seq(Roles \cup {shared})
  <2> DEFINE kinds == [i \in 1..Len(cConf) |-> cConf[i].kind]
  <2>1. cConf \in Seq(C!Document) /\ Len(cConf) \in Nat /\ DOMAIN cConf = 1..Len(cConf)
    BY <1>2 DEF C!TypeOK
  <2>2. ASSUME NEW i \in 1..Len(cConf)
        PROVE  cConf[i].kind \in Roles \cup {shared}
    <3>1. cConf[i] \in C!Document
      BY <2>1
    <3> QED
      BY <3>1 DEF C!Document
  <2>3. kinds \in Seq(Roles \cup {shared})
    BY <2>1, <2>2, IsSeq
  <2>4. UpgradeRoles \in Seq(Roles \cup {shared})
    BY KindsAre
  <2>5. cTodo' = UpgradeRoles \o kinds
    BY <1>1, <2>1
  <2> HIDE DEF kinds
  <2> QED
    BY <2>3, <2>4, <2>5, ConcatProperties
<1>6. /\ cVars'.main = <<>> /\ cVars'.listed = {} /\ DOMAIN cVars'.main = {}
      /\ cVars' = [main |-> cVars'.main, manifest |-> cVars'.manifest,
                   shared |-> cVars'.shared, listed |-> cVars'.listed]
  <2>1. cVars' = C!NoVars
    BY <1>1
  <2> QED
    BY <2>1 DEF C!NoVars
<1>7. C!TypeOK'
  <2>1. C!Grouping(cInventory)'
    BY <1>4 DEF C!Grouping
  <2> QED
    BY <1>1, <1>2, <1>5, <1>6, <2>1 DEF C!TypeOK
<1>8. SavedInv'
  BY <1>1, <1>2, SavedKept DEF Applying, Upgrading
<1> QED
  BY <1>1, <1>6, <1>7, <1>8 DEF ConfigurationInv, Applying, Upgrading

(* The roles of an upgrade take them from its input file or the defaults.  *)
LEMMA UpgradeRoleVarsNext ==
  ASSUME ConfigurationInv, C!UpgradeRoleVars
  PROVE  ConfigurationInv'
<1> DEFINE documents == Append(cConf, C!Shipped(Head(cTodo)))
<1>1. /\ cPhase = "upgrade roles" /\ cPhase' = "upgrade roles" /\ cTodo # <<>>
      /\ C!WriteRoleVars(documents) /\ cTodo' = Tail(cTodo)
      /\ UNCHANGED <<cFile, cConf, cIndex, cFeature, cManifest, cInventory, cBackup, cRuns, cRan>>
  BY DEF C!UpgradeRoleVars
<1>2. C!TypeOK /\ SavedInv
  BY DEF ConfigurationInv
<1>3. documents \in Seq(C!Document)
  <2>1. cTodo \in Seq(Roles \cup {shared}) /\ cConf \in Seq(C!Document)
    BY <1>2 DEF C!TypeOK
  <2>2. Head(cTodo) \in Roles \cup {shared}
    <3>1. cTodo # <<>>
      BY <1>1
    <3> QED
      BY <2>1, <3>1
  <2>3. C!Shipped(Head(cTodo)) \in C!Document
    BY <2>2, ShippedIs
  <2> QED
    BY <2>1, <2>3, AppendProperties
<1> HIDE DEF documents
<1>4. /\ Tail(cTodo) \in Seq(Roles \cup {shared})
      /\ cVars' = [main |-> cVars'.main, manifest |-> cVars.manifest,
                   shared |-> cVars.shared, listed |-> cVars'.listed]
      /\ cVars'.listed = DOMAIN cVars'.main
      /\ \A kind \in DOMAIN cVars'.main :
           \/ kind \in DOMAIN cVars.main /\ cVars'.main[kind] = cVars.main[kind]
           \/ C!At(kind, documents) # {} /\ cVars'.main[kind] = C!First(kind, documents)
  BY <1>1, <1>3, WrittenIs
<1>5. cVars' = [main |-> cVars'.main, manifest |-> cVars'.manifest,
                shared |-> cVars'.shared, listed |-> cVars'.listed]
  BY <1>4
<1>6. C!TypeOK'
  <2>1. \A kind \in DOMAIN cVars'.main : cVars'.main[kind].kind = kind
    BY <1>2, <1>3, <1>4, FirstOfKind DEF C!TypeOK
  <2> QED
    BY <1>1, <1>2, <1>4, <2>1 DEF C!TypeOK, C!Grouping
<1>7. SavedInv'
  BY <1>1, <1>2, SavedKept DEF Applying, Upgrading
<1> QED
  BY <1>1, <1>4, <1>5, <1>6, <1>7 DEF ConfigurationInv, Applying, Upgrading

(* The others are rendered from the backup's manifest.                     *)
LEMMA PopulateUpgradeVarsNext ==
  ASSUME ConfigurationInv, C!PopulateUpgradeVars
  PROVE  ConfigurationInv'
<1>1. /\ cPhase = "upgrade roles" /\ cPhase' = "upgrade playbooks"
      /\ cVars' = [cVars EXCEPT !.manifest = [kind \in C!ToSet(ManifestRoles) |-> C!ManifestDoc(kind)],
                                !.shared = C!SharedInManifest]
      /\ UNCHANGED <<cFile, cConf, cIndex, cFeature, cManifest, cInventory, cBackup, cTodo, cRuns, cRan>>
  BY DEF C!PopulateUpgradeVars, C!Goto
<1>2. /\ C!TypeOK /\ SavedInv /\ cVars.listed = DOMAIN cVars.main
      /\ cVars = [main |-> cVars.main, manifest |-> cVars.manifest,
                  shared |-> cVars.shared, listed |-> cVars.listed]
  BY DEF ConfigurationInv
<1>3. cVars' = [main |-> cVars.main, manifest |-> [kind \in C!ToSet(ManifestRoles) |-> C!ManifestDoc(kind)],
                shared |-> C!SharedInManifest, listed |-> cVars.listed]
  BY <1>1, <1>2
<1>4. /\ \A kind : C!ManifestDoc(kind)' = C!ManifestDoc(kind)
      /\ C!SharedInManifest' = C!SharedInManifest
  BY <1>1 DEF C!ManifestDoc, C!SharedInManifest
<1>5. C!TypeOK'
  BY <1>1, <1>2, <1>3 DEF C!TypeOK, C!Grouping
<1>6. SavedInv'
  BY <1>1, <1>2, SavedKept DEF Applying, Upgrading
<1> QED
  BY <1>1, <1>2, <1>3, <1>4, <1>5, <1>6 DEF ConfigurationInv, Applying, Upgrading

(* So the invariant holds at first, is preserved, and holds throughout.    *)
LEMMA ConfigurationInit ==
  ASSUME C!Init
  PROVE  ConfigurationInv
<1>1. /\ cFile = None /\ cConf = <<>> /\ cIndex = 1 /\ cFeature = 1 /\ cManifest = None
      /\ cInventory = None /\ cBackup = None /\ cVars = C!NoVars /\ cTodo = <<>>
      /\ cPhase = "idle" /\ cRuns = 0 /\ cRan = None
  BY DEF C!Init
<1>2. C!TypeOK
  <2>1. 1 \in 1..(Len(ConfiguredOrder) + 1) /\ 0 \in 0..MaxRuns
    BY KindsAre
  <2>2. DOMAIN cVars.main = {}
    BY <1>1 DEF C!NoVars
  <2>3. <<>> \in Seq(C!Document) /\ <<>> \in Seq(Roles \cup {shared})
    OBVIOUS
  <2> QED
    BY <1>1, <2>1, <2>2, <2>3 DEF C!TypeOK
<1>3. /\ cVars = [main |-> cVars.main, manifest |-> cVars.manifest,
                  shared |-> cVars.shared, listed |-> cVars.listed]
      /\ cVars.listed = DOMAIN cVars.main
  BY <1>1 DEF C!NoVars
<1>4. SavedInv
  BY <1>1 DEF SavedInv, BackupThere, Upgrading
<1> QED
  BY <1>1, <1>2, <1>3, <1>4 DEF ConfigurationInv, Applying, Upgrading

(* One lemma for each step.                                                *)
LEMMA ConfigurationNext ==
  ASSUME ConfigurationInv, [C!Next]_(C!state)
  PROVE  ConfigurationInv'
<1>1. CASE C!ApplyStep
  BY <1>1, StartApplyNext, AppendRequiredNext, AppendFeatureNext, NextComponentNext, CollectNext,
     CreateInventoryNext, GenerateRoleVarsNext, PopulateGroupVarsNext, RunPlaybooksNext
     DEF C!ApplyStep, C!ProcessConfigurationDocs
<1>2. CASE C!UpgradeStep
  BY <1>2, StartUpgradeNext, UpgradeInventoryNext, UpgradeRoleVarsNext, PopulateUpgradeVarsNext
     DEF C!UpgradeStep
<1>3. CASE C!Stop
  BY <1>3, StopNext
<1>4. CASE UNCHANGED C!state
  <2>1. UNCHANGED <<cFile, cConf, cIndex, cFeature, cManifest, cInventory, cBackup, cVars, cTodo,
                    cPhase, cRuns, cRan>>
    BY <1>4 DEF C!state
  <2>2. /\ \A k : C!Features(k)' = C!Features(k) /\ C!HostsOf(k)' = C!HostsOf(k)
        /\ \A k : C!Mapped(k)' = C!Mapped(k) /\ C!Component(k)' = C!Component(k)
        /\ \A k : C!ManifestDoc(k)' = C!ManifestDoc(k)
        /\ C!SharedInManifest' = C!SharedInManifest
    BY <2>1 DEF C!Features, C!HostsOf, C!Active, C!Component, C!Mapped, C!ManifestDoc, C!SharedInManifest
  <2>3. C!Grouped' = C!Grouped
    BY <2>2 DEF C!Grouped
  <2>4. SelectedOnly' = SelectedOnly /\ FeaturesDone' = FeaturesDone /\ AllSelected' = AllSelected
        /\ RolesWritten' = RolesWritten
    BY <2>1, <2>2, <2>3 DEF SelectedOnly, FeaturesDone, AllSelected, RolesWritten
  <2>5. C!TypeOK' = C!TypeOK
    BY <2>1 DEF C!TypeOK, C!Grouping
  <2>6. SavedInv => SavedInv'
    BY <2>1, SavedKept
  <2> QED
    BY <2>1, <2>2, <2>4, <2>5, <2>6 DEF ConfigurationInv
<1> QED
  BY <1>1, <1>2, <1>3, <1>4 DEF C!Next

(* The other parts leave the configuration as it is.                       *)
LEMMA ConfigurationInvHolds == Spec => []ConfigurationInv
<1>1. Init => ConfigurationInv
  BY ConfigurationInit DEF Init
<1>2. ConfigurationInv /\ [Next]_vars => ConfigurationInv'
  BY StepOfParts, ConfigurationNext
<1> QED
  BY <1>1, <1>2, PTL DEF Spec

(***************************************************************************)
(* When the playbooks of an apply start, each enabled role an active       *)
(* component maps to has vars, a document that one of these components     *)
(* selected; the roles listed as having vars are those that have them; and *)
(* the groups of the inventory are the machines of the components.         *)
(***************************************************************************)
THEOREM RolesConfiguredCorrect == Spec => []RolesConfigured
<1>1. ConfigurationInv => C!TypeOK /\ C!VarsListed
  BY DEF ConfigurationInv, C!VarsListed
<1>2. ASSUME ConfigurationInv
      PROVE  C!RolesHaveVars
  <2> SUFFICES ASSUME cPhase = "playbooks", NEW kind \in C!ToSet(cFile.enabled), C!Mapped(kind) # {}
               PROVE  /\ kind \in DOMAIN cVars.main
                      /\ cVars.main[kind].name \in {C!Component(c).configuration : c \in C!Mapped(kind)}
                      /\ kind = masterRole => cVars.main[kind].storage = cFile.storage
    BY DEF C!RolesHaveVars
  <2>1. /\ SelectedOnly /\ AllSelected /\ RolesWritten /\ cTodo = <<>> /\ cFile \in ApplyFiles
        /\ cConf \in Seq(C!Document)
    BY <1>2 DEF ConfigurationInv, Applying, C!TypeOK
  <2>2. kind \in Roles
    BY <2>1, MappedIs
  <2>3. C!At(kind, cConf) # {} /\ C!ToSet(cTodo) = {}
    BY <2>1, <2>2 DEF AllSelected, C!ToSet
  <2>4. kind \in DOMAIN cVars.main /\ cVars.main[kind] = C!First(kind, cConf)
    BY <2>1, <2>3 DEF RolesWritten, C!ToSet
  <2> DEFINE i == C!Min(C!At(kind, cConf))
  <2>5. i \in C!At(kind, cConf) /\ C!First(kind, cConf) = cConf[i]
    BY <2>1, <2>3, FirstOfKind DEF C!First
  <2> HIDE DEF i
  <2>6. i \in DOMAIN cConf /\ cConf[i].kind = kind /\ i # 1
    BY <2>1, <2>2, <2>5, KindsAre DEF C!At, SelectedOnly
  <2>7. \E c \in C!Mapped(kind) : cConf[i].name = C!Component(c).configuration
    BY <2>1, <2>6 DEF SelectedOnly
  <2> QED
    BY <2>1, <2>3, <2>4, <2>5, <2>7 DEF AllSelected
<1>3. ASSUME ConfigurationInv
      PROVE  C!GroupsExact
  <2> SUFFICES ASSUME cPhase = "playbooks", NEW kind \in Roles, NEW h \in Hosts
               PROVE  (kind \in DOMAIN cInventory /\ h \in cInventory[kind])
                        <=> \E c \in C!Mapped(kind) : h \in C!HostsOf(c)
    BY DEF C!GroupsExact
  <2>1. cInventory = C!Grouped
    BY <1>3 DEF ConfigurationInv, RolesWritten
  <2>2. /\ DOMAIN C!Grouped = {k \in Roles : \E c \in C!Mapped(k) : C!HostsOf(c) # {}}
        /\ \A k \in DOMAIN C!Grouped : C!Grouped[k] = UNION {C!HostsOf(c) : c \in C!Mapped(k)}
    BY DEF C!Grouped
  <2> QED
    BY <2>1, <2>2
<1> QED
  BY <1>1, <1>2, <1>3, ConfigurationInvHolds, PTL DEF RolesConfigured

(* Places in a list are numbers.                                           *)
LEMMA PlaceIs ==
  ASSUME NEW T, NEW s \in Seq(T), NEW i \in DOMAIN s
  PROVE  i \in Nat
OBVIOUS

(* A set of one element has one: the instance's Cardinality is that of     *)
(* FiniteSets.                                                             *)
LEMMA OneElement ==
  ASSUME NEW x
  PROVE  C!Cardinality({x}) = 1
<1>1. C!Cardinality({x}) = Cardinality({x})
  BY DEF C!Cardinality, Cardinality
<1> QED
  BY <1>1, FS_Singleton

(***************************************************************************)
(* An upgrade that works from the manifest of the apply that ran last      *)
(* renders from the documents that apply gave its roles.                   *)
(***************************************************************************)
THEOREM RendersAsAppliedCorrect == Spec => []RendersAsApplied
<1>1. ASSUME ConfigurationInv
      PROVE  C!RendersAsApplied
  <2> SUFFICES ASSUME cPhase = "upgrade playbooks", cRan # None, cBackup.manifest.of = cRan.of
               PROVE  /\ cVars.shared = cRan.vars.shared
                      /\ \A kind \in DOMAIN cVars.manifest \cap DOMAIN cRan.vars.main :
                           cVars.manifest[kind] = cRan.vars.main[kind]
    BY DEF C!RendersAsApplied
  <2> DEFINE documents == cBackup.manifest.docs
  <2>1. Saved(cBackup.manifest)
    BY <1>1 DEF ConfigurationInv, SavedInv, BackupThere, Upgrading
  <2>2. /\ \E i \in DOMAIN documents :
             C!At(shared, documents) = {i} /\ documents[i] = cRan.vars.shared
        /\ \A kind \in DOMAIN cRan.vars.main :
             C!At(kind, documents) # {} /\ cRan.vars.main[kind] = C!First(kind, documents)
        /\ documents \in Seq(C!Document)
    BY <2>1 DEF Saved, SaysWhatRan
  <2>3. /\ cVars.manifest = [kind \in C!ToSet(ManifestRoles) |-> C!ManifestDoc(kind)]
        /\ cVars.shared = C!SharedInManifest
    BY <1>1 DEF ConfigurationInv
  <2>4. C!SharedInManifest = cRan.vars.shared
    <3>1. PICK i \in DOMAIN documents :
            C!At(shared, documents) = {i} /\ documents[i] = cRan.vars.shared
      BY <2>2
    <3>2. C!Cardinality({i}) = 1
      BY OneElement
    <3>3. C!Min({i}) = i
      <4>1. i \in Nat
        <5>1. documents \in Seq(C!Document)
          BY <2>2
        <5>2. i \in DOMAIN documents
          BY <3>1
        <5> HIDE DEF documents
        <5> QED
          BY <5>1, <5>2, PlaceIs
      <4>2. C!Min({i}) \in {i}
        BY <4>1, LeastIs
      <4> QED
        BY <4>2
    <3> QED
      BY <3>1, <3>2, <3>3 DEF C!SharedInManifest, C!First
  <2>5. \A kind \in DOMAIN cRan.vars.main : C!ManifestDoc(kind) = cRan.vars.main[kind]
    BY <2>2 DEF C!ManifestDoc, C!FirstOr, C!First
  <2> HIDE DEF documents
  <2> QED
    BY <2>3, <2>4, <2>5
<1> QED
  BY <1>1, ConfigurationInvHolds, PTL DEF RendersAsApplied

=============================================================================
