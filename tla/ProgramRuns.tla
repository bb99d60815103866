----------------------------- MODULE ProgramRuns -----------------------------
(***************************************************************************)
(* Verification programs are plugins on disk (programs/registry.ts).  The  *)
(* API, the verifier nodes and the auditor's command line each load them   *)
(* when they start (services/programRegistry.ts of both) and keep what     *)
(* they loaded; the API resolves the program of a request and announces    *)
(* its hash (api/src/routes/verify.ts), a node runs it later on the bundle *)
(* it collected (jobProcessor.ts), an auditor runs it again                *)
(* (cli/auditorCommands.ts).                                               *)
(*                                                                         *)
(* A directory holds a manifest and a module.  A module is what require    *)
(* gives for its files: an id, a version, a body standing for the code,    *)
(* and the fields its run fills in.  SHA-256 is injective, so a hash is    *)
(* the pair of what it is computed from.  A schema is the set of fields it *)
(* declares, as both receipt schemas forbid additional ones.  The          *)
(* directory may be deployed to at any time, also between the two reads of *)
(* a load; all processes have the same configuration.  Bounds: MaxDeploys, *)
(* and one run of a request by each process.                               *)
(***************************************************************************)
EXTENDS Integers, Sequences, FiniteSets

CONSTANTS
  ApiProcess, Runners,   \* processes: the API, and the nodes and auditors
  Plugins,               \* contents a directory of programs may have
  NoPlugin,              \* a directory without a manifest
  DirCount,              \* directories, in the order of readdir
  Allowed,               \* ALLOWED_PROGRAMS: id@version, an id alone with Unspecified; or NoList
  NoList,
  ProgramHashes,         \* PROGRAM_HASHES: key -> hash
  DefaultKey,            \* DEFAULT_PROGRAM
  Unspecified,                   \* a program or version the caller leaves open
  NoProgram,
  ProgramRequests,
  ReceiptFields,         \* top-level properties of receipt.v1.schema.json
  MaxDeploys

ASSUME ProgramAssumption ==
  /\ DirCount \in Nat \ {0} /\ MaxDeploys \in Nat /\ ApiProcess \notin Runners
  /\ NoPlugin \notin Plugins

Processes == {ApiProcess} \union Runners

VARIABLES
  disk,       \* directory -> plugin
  deploys,
  process,    \* where each process is
  programs,   \* process -> the records of its registry
  asked,      \* request -> program and hash the API announced
  results     \* what runProgram ended with, per request and process

programVars == <<disk, deploys, process, programs, asked, results>>

SpecOf(record) == <<record.id, record.version>>

\* computeProgramHash
computeProgramHash(manifest, module) == <<manifest, module>>

\* What a registry keeps of a program.
LoadedProgram(manifest, module, hash) ==
  [id |-> module.id, version |-> module.version, hash |-> hash,
   manifest |-> manifest, module |-> module]

(***************************************************************************)
(* Loading                                                                 *)
(***************************************************************************)
\* loadManifest: required parts, claim domain, provenance, possibility space
\* and semver.
loadManifest(plugin) == plugin.manifest.valid

\* A manifest that loads names its program and version (loadManifest), and no record of a
\* registry is NoProgram.
ASSUME ProgramIdentities ==
  \A plugin, other \in Plugins :
    /\ loadManifest(plugin) =>
         plugin.manifest.id # Unspecified /\ plugin.manifest.version # Unspecified
    /\ NoProgram # LoadedProgram(plugin.manifest, plugin.module,
                                 computeProgramHash(plugin.manifest, other.module))

isProgramAllowed(record) ==
  Allowed = NoList \/ {<<record.id, Unspecified>>, SpecOf(record)} \intersect Allowed # {}

M_PinHolds(record) == TRUE

PinHolds(record) ==
  SpecOf(record) \in DOMAIN ProgramHashes => ProgramHashes[SpecOf(record)] = record.hash

\* The catch around loadPrograms: what is loaded so far stays.
Serve(p) == process' = [process EXCEPT ![p] = [pc |-> "up"]]

NextDir(p, d) ==
  IF d < DirCount THEN process' = [process EXCEPT ![p] = [pc |-> "loading", dir |-> d + 1]]
  ELSE Serve(p)

startProcess(p) ==
  /\ process[p].pc = "down"
  /\ process' = [process EXCEPT ![p] = [pc |-> "loading", dir |-> 1]]
  /\ UNCHANGED <<disk, deploys, programs, asked, results>>

\* The manifest is read and the entrypoint is required.
requireProgram(p) ==
  /\ process[p].pc = "loading"
  /\ LET d == process[p].dir  plugin == disk[d] IN
     IF plugin = NoPlugin THEN NextDir(p, d)
     ELSE IF /\ loadManifest(plugin)
             /\ plugin.module.id = plugin.manifest.id
             /\ plugin.module.version = plugin.manifest.version
     THEN process' = [process EXCEPT ![p] = [pc |-> "hashing", dir |-> d,
                        manifest |-> plugin.manifest, module |-> plugin.module]]
     ELSE Serve(p)
  /\ UNCHANGED <<disk, deploys, programs, asked, results>>

\* The files are read again for the hash; the list and the pins are checked
\* and the record kept, over one of the same key from an earlier directory.
loadProgramFromDir(p) ==
  /\ process[p].pc = "hashing"
  /\ LET d == process[p].dir
         record == LoadedProgram(process[p].manifest, process[p].module,
                     computeProgramHash(process[p].manifest, disk[d].module))
     IN IF disk[d] # NoPlugin /\ isProgramAllowed(record) /\ PinHolds(record)
        THEN /\ programs' = [programs EXCEPT ![p] =
                               {r \in @ : SpecOf(r) # SpecOf(record)} \union {record}]
             /\ NextDir(p, d)
        ELSE Serve(p) /\ UNCHANGED programs
  /\ UNCHANGED <<disk, deploys, asked, results>>

\* A process ends or crashes; its registry was in memory.
stopProcess(p) ==
  /\ process[p].pc # "down"
  /\ process' = [process EXCEPT ![p] = [pc |-> "down"]]
  /\ programs' = [programs EXCEPT ![p] = {}]
  /\ UNCHANGED <<disk, deploys, asked, results>>

\* The operator puts other files into a directory.
deploy(d, plugin) ==
  /\ deploys < MaxDeploys /\ plugin # disk[d]
  /\ disk' = [disk EXCEPT ![d] = plugin] /\ deploys' = deploys + 1
  /\ UNCHANGED <<process, programs, asked, results>>

(***************************************************************************)
(* Resolving                                                               *)
(***************************************************************************)
listPrograms(p) == programs[p]

\* Without a version, the only one there is.
getProgram(p, id, version) ==
  LET candidates == {r \in listPrograms(p) : r.id = id /\ version \in {Unspecified, r.version}} IN
  IF Cardinality(candidates) = 1 THEN CHOOSE r \in candidates : TRUE ELSE NoProgram

resolveProgram(p, id, version) ==
  IF id = Unspecified THEN getProgram(p, DefaultKey[1], DefaultKey[2]) ELSE getProgram(p, id, version)

\* verifyProgram of the command line; isValidSemver is part of loadManifest.
verifyProgram(p, id, version) ==
  LET record == getProgram(p, id, version) IN record # NoProgram /\ PinHolds(record)

Unasked == [key |-> <<>>]

\* POST /api/verify: the program is resolved, else the answer is 400; the
\* queued job names the program it was resolved to, the answer its hash.
askProgram(r, id, version) ==
  /\ asked[r] = Unasked /\ process[ApiProcess].pc = "up"
  /\ LET record == resolveProgram(ApiProcess, id, version) IN
     /\ record # NoProgram
     /\ asked' = [asked EXCEPT ![r] = [key |-> SpecOf(record), id |-> record.id,
                                       version |-> record.version, hash |-> record.hash]]
  /\ UNCHANGED <<disk, deploys, process, programs, results>>

(***************************************************************************)
(* Running                                                                 *)
(***************************************************************************)
\* validateEvidenceBundleV1, the input schema and validateEvidenceRequirements:
\* the bundle of a run passes all three or not.
BundleAccepted(bundle) == bundle = "complete"

OutsideEvidence(manifest) == manifest.claim_domain # "empirical"

\* What runProgram sets on the receipt that run returned.
AddedFields(manifest) ==
  {"program_provenance", "claim_domain"}
    \union (IF manifest.possibility_space THEN {"possibility_space"} ELSE {})
    \union (IF OutsideEvidence(manifest)
            THEN {"verification_status", "verdict_explanation", "verification_boundaries"} ELSE {})

Rejected(why) == [rejected |-> why]

\* runProgram with the record and the context its caller made of it: the
\* output schema of the program and the receipt schema see the receipt as
\* runProgram has changed it.
runProgram(record, bundle) ==
  LET fields == record.module.fields \union AddedFields(record.manifest) IN
  IF ~BundleAccepted(bundle) THEN Rejected("bundle")
  ELSE IF ~(fields \subseteq record.module.output_schema) THEN Rejected("output schema")
  ELSE IF ~(fields \subseteq ReceiptFields) THEN Rejected("receipt schema")
  ELSE [rejected |-> "no", key |-> SpecOf(record), hash |-> record.hash,
        body |-> record.module.body, domain |-> record.manifest.claim_domain,
        withheld |-> "verification_status" \in AddedFields(record.manifest)]

\* The job processor, or an auditor checking the same bundle with the same
\* id@version: each resolves the program in its own registry.
runJob(p, r, bundle) ==
  /\ asked[r] # Unasked /\ process[p].pc = "up"
  /\ \A x \in results : x.request # r \/ x.by # p
  /\ LET record == resolveProgram(p, asked[r].id, asked[r].version) IN
     results' = results \union
       {[request |-> r, by |-> p, bundle |-> bundle,
         outcome |-> IF record = NoProgram THEN Rejected("not found") ELSE runProgram(record, bundle)]}
  /\ UNCHANGED <<disk, deploys, process, programs, asked>>

RunBundles == {"complete", "lacking"}

ProgramInit ==
  /\ disk \in [1 .. DirCount -> Plugins \union {NoPlugin}] /\ deploys = 0
  /\ process = [p \in Processes |-> [pc |-> "down"]]
  /\ programs = [p \in Processes |-> {}]
  /\ asked = [r \in ProgramRequests |-> Unasked] /\ results = {}

ProgramNext ==
  \/ \E p \in Processes :
       startProcess(p) \/ requireProgram(p) \/ loadProgramFromDir(p) \/ stopProcess(p)
  \/ \E d \in 1 .. DirCount, plugin \in Plugins \union {NoPlugin} : deploy(d, plugin)
  \/ \E r \in ProgramRequests, plugin \in Plugins, some \in BOOLEAN :
       \/ askProgram(r, plugin.manifest.id, IF some THEN plugin.manifest.version ELSE Unspecified)
       \/ askProgram(r, Unspecified, Unspecified)
  \/ \E p \in Runners, r \in ProgramRequests, bundle \in RunBundles : runJob(p, r, bundle)

-----------------------------------------------------------------------------
(***************************************************************************)
(* Properties                                                              *)
(***************************************************************************)
Receipts == {x \in results : x.outcome.rejected = "no"}

\* A request gets the program the API announced: whatever is deployed, loaded
\* and restarted in between, the receipt of a node or an auditor has the id
\* and version of the answer, also when the caller left them open, and when
\* that version is pinned the hash of the answer as well.  Whatever a registry
\* lists, the command line verifies (resolveProgram, loadProgramFromDir).
AnnouncedProgramRuns ==
  /\ \A x \in Receipts :
       /\ x.outcome.key = asked[x.request].key
       /\ x.outcome.key \in DOMAIN ProgramHashes => x.outcome.hash = asked[x.request].hash
  /\ \A p \in Processes : \A record \in listPrograms(p) :
       isProgramAllowed(record) /\ verifyProgram(p, record.id, record.version)

\* A program about claims that evidence cannot settle never gives a verdict:
\* its receipts say that they are unable to verify, or there are none
\* (runProgram).
NoVerdictOutsideEvidence ==
  \A x \in Receipts : x.outcome.domain # "empirical" => x.outcome.withheld

\* What a receipt says of its program is what was announced, and a program gives verdicts
\* only where evidence can (resolveProgram, loadProgramFromDir, runProgram).
ProgramsRunAsAnnounced ==
  /\ AnnouncedProgramRuns
  /\ NoVerdictOutsideEvidence

\* A loaded program returns a receipt for a bundle that meets its
\* requirements, when its own run fills in nothing its schema does not have:
\* what programRegistry.test.ts expects of the fixture program.
LoadedProgramsReturn ==
  \A x \in results :
    BundleAccepted(x.bundle) =>
      x.outcome.rejected \notin {"output schema", "receipt schema"}
=============================================================================
