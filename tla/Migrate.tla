------------------------------- MODULE Migrate ------------------------------
(***************************************************************************)
(* images/protected-publish/pkg/migrate.py, run by migrate.sh: it turns a  *)
(* mirror of layout 2 into one of layout 3 in place.  A worker thread per  *)
(* spec verifies the old metadata, rewrites and signs it, copies the       *)
(* archive, uploads the metadata and, last, the manifest; the public keys  *)
(* and the index follow.  Any request may fail and the run may die; it is  *)
(* started again, in a new temporary directory or in the one of the run    *)
(* before (-w).  The old layout is not written any more, and -f, which     *)
(* migrates what is migrated once more, is left out.                       *)
(***************************************************************************)
EXTENDS Integers

CONSTANTS
    MSpecs,         \* specs with an object in the old layout
    Paired,         \* those with both metadata and archive
    Signed,         \* those signed with the reputational key
    Nested,         \* those with a manifest in a mirror below this one
    MKeys,          \* public keys of the old layout
    Sharing,        \* may runs share one working directory: FALSE, TRUE or both
    MaxMFaults      \* bound: failures

ASSUME MigrateAssumption ==
    /\ Paired \subseteq MSpecs /\ Signed \subseteq MSpecs /\ Nested \subseteq MSpecs
    /\ Sharing \subseteq BOOLEAN /\ MaxMFaults \in Nat

(* What the working directory holds of a spec: nothing, a download that    *)
(* broke off, the signed file, its plain text, the rewritten one.          *)
Files  == {"none", "part", "sig", "plain", "gzip"}
MSteps == {"done", "queued", "fetched", "verified", "rewritten", "copied", "described"}

VARIABLES
    archives, metas, manifests,   \* what the new layout holds
    mindex,         \* the specs its index lists
    keyBlobs, keyManifests,       \* the keys with a blob, those with a manifest
    mfaults,        \* failures so far
    shared,         \* the runs are given one working directory
    file,           \* file[h]: see Files
    listing,        \* the specs whose manifest the listing shows
    haveListing,    \* the working directory has a listing
    (* one run *)
    mgpc, mstep, anyMigrated,
    keysTodo, keyNow    \* keys to be pushed; the one whose manifest is next

specObjects == <<archives, metas, manifests, mindex>>
keyObjects  == <<keyBlobs, keyManifests>>
keyRun      == <<keysTodo, keyNow>>
newLayout   == <<specObjects, keyObjects>>
workdir   == <<file, listing, haveListing>>
mVars     == <<newLayout, mfaults, shared, workdir, mgpc, mstep, anyMigrated, keyRun>>

(* Objects are of specs of the mirror; a worker is at a step of its task.  *)
MigrateTypeOK ==
    /\ archives \subseteq MSpecs /\ metas \subseteq MSpecs /\ manifests \subseteq MSpecs
    /\ mindex \subseteq MSpecs /\ mfaults \in 0 .. MaxMFaults /\ shared \in Sharing
    /\ file \in [MSpecs -> Files] /\ listing \subseteq MSpecs /\ haveListing \in BOOLEAN
    /\ mgpc \in {"idle", "work", "keys", "index"} /\ mstep \in [MSpecs -> MSteps]
    /\ anyMigrated \in BOOLEAN /\ keyBlobs \subseteq MKeys /\ keyManifests \subseteq MKeys
    /\ keysTodo \subseteq MKeys /\ keyNow \in {{}} \union {{k} : k \in MKeys}

MigrateInit ==
    /\ archives = {} /\ metas = {} /\ manifests = {} /\ mindex = {} /\ mfaults = 0
    /\ shared \in Sharing
    /\ file = [h \in MSpecs |-> "none"] /\ listing = {} /\ haveListing = FALSE
    /\ mgpc = "idle" /\ mstep = [h \in MSpecs |-> "done"] /\ anyMigrated = FALSE
    /\ keyBlobs = {} /\ keyManifests = {} /\ keysTodo = {} /\ keyNow = {}

-----------------------------------------------------------------------------
MFault == mfaults < MaxMFaults /\ mfaults' = mfaults + 1

(* get_workdir_context: a temporary directory goes with the run.           *)
EndMigrate ==
    /\ mgpc' = "idle" /\ mstep' = [h \in MSpecs |-> "done"] /\ anyMigrated' = FALSE
    /\ keysTodo' = {} /\ keyNow' = {}
    /\ UNCHANGED shared
    /\ IF shared THEN UNCHANGED workdir
       ELSE /\ file' = [h \in MSpecs |-> "none"]
            /\ listing' = {} /\ haveListing' = FALSE

(* migrate(): the listing of everything below the mirror, and one task for *)
(* each spec of the old layout.                                            *)
StartMigrate ==
    /\ mgpc = "idle"
    /\ IF haveListing THEN UNCHANGED <<listing, haveListing>>
       ELSE listing' = manifests \union Nested /\ haveListing' = TRUE
    /\ mgpc' = "work" /\ mstep' = [h \in MSpecs |-> "queued"]
    /\ UNCHANGED <<newLayout, mfaults, shared, file, anyMigrated, keyRun>>

(* _migrate_spec, step by step.                                            *)
AtM(h, s)  == mgpc = "work" /\ mstep[h] = s
Go(h, s)   == mstep' = [mstep EXCEPT ![h] = s]
Save(h, f) == file' = [file EXCEPT ![h] = f]
RestSame   == UNCHANGED <<mindex, keyObjects, mfaults, shared, listing, haveListing, mgpc, keyRun>>

SkippedOnBlob(h) == h \notin Paired \/ h \in archives  \* faulty variant: by its archive
Skipped(h) == h \notin Paired \/ h \in listing

(* A file that is there is not downloaded again.                           *)
FetchMeta(h) ==
    /\ AtM(h, "queued")
    /\ IF Skipped(h) THEN Go(h, "done") /\ UNCHANGED file
       ELSE Go(h, "fetched") /\ (IF file[h] = "none" THEN Save(h, "sig") ELSE UNCHANGED file)
    /\ RestSame /\ UNCHANGED <<archives, metas, manifests, anyMigrated>>

(* gpg writes the plain text next to the file before it judges the         *)
(* signature, so the text stays when the signature is bad or cut off; and  *)
(* where that text is, it is taken for verified.                           *)
Verified(h) == file[h] \in {"plain", "gzip"} \/ (file[h] = "sig" /\ h \in Signed)
Left(h) == IF file[h] = "part" THEN {"part", "plain"}
           ELSE {IF file[h] = "sig" THEN "plain" ELSE file[h]}

VerifyMeta(h) ==
    /\ AtM(h, "fetched")
    /\ Go(h, IF Verified(h) THEN "verified" ELSE "done")
    /\ \E f \in Left(h) : Save(h, f)
    /\ RestSame /\ UNCHANGED <<archives, metas, manifests, anyMigrated>>

(* The plain file is parsed and rewritten, compressed, under its own name; *)
(* the manifest is signed.  A file already compressed does not parse.      *)
RewriteMeta(h) ==
    /\ AtM(h, "verified")
    /\ IF file[h] = "plain" THEN Go(h, "rewritten") /\ Save(h, "gzip")
       ELSE Go(h, "done") /\ UNCHANGED file
    /\ RestSame /\ UNCHANGED <<archives, metas, manifests, anyMigrated>>

MigrateArchive(h) ==
    /\ AtM(h, "rewritten") /\ Go(h, "copied")
    /\ archives' = archives \union {h}
    /\ RestSame /\ UNCHANGED <<metas, manifests, file, anyMigrated>>

UploadMeta(h) ==
    /\ AtM(h, "copied") /\ Go(h, "described")
    /\ metas' = metas \union {h}
    /\ RestSame /\ UNCHANGED <<archives, manifests, file, anyMigrated>>

UploadManifest(h) ==
    /\ AtM(h, "described") /\ Go(h, "done")
    /\ manifests' = manifests \union {h} /\ anyMigrated' = TRUE
    /\ RestSame /\ UNCHANGED <<archives, metas, file>>

(* A download, a copy or an upload fails: the task returns.                *)
AfterFailureGoesOn(h) ==   \* faulty variant: the failed upload is only reported
    IF mstep[h] = "copied" THEN "described" ELSE "done"
AfterFailure(h) == "done"

TransferFails(h) ==
    /\ MFault /\ mgpc = "work"
    /\ mstep[h] \in {"queued", "rewritten", "copied", "described"}
    /\ mstep[h] = "queued" => ~Skipped(h) /\ file[h] = "none"
    /\ IF mstep[h] = "queued" THEN Save(h, "part") ELSE UNCHANGED file
    /\ Go(h, AfterFailure(h))
    /\ UNCHANGED <<newLayout, shared, listing, haveListing, mgpc, anyMigrated, keyRun>>

(* All threads finished: keys and index only if something was migrated.    *)
JoinMigrate ==
    /\ mgpc = "work" /\ \A h \in MSpecs : mstep[h] = "done"
    /\ IF anyMigrated
       THEN mgpc' = "keys" /\ keysTodo' = MKeys /\ UNCHANGED <<shared, workdir, mstep, anyMigrated, keyNow>>
       ELSE EndMigrate
    /\ UNCHANGED <<newLayout, mfaults>>

(* migrate_keys: one key after the other, the blob first, then its         *)
(* manifest; a request that fails leaves the key as it is.                 *)
KeysSame == UNCHANGED <<specObjects, shared, workdir, mstep, anyMigrated>>

PushKey(k) ==
    /\ mgpc = "keys" /\ keyNow = {} /\ k \in keysTodo
    /\ keyBlobs' = keyBlobs \union {k} /\ keysTodo' = keysTodo \ {k} /\ keyNow' = {k}
    /\ KeysSame /\ UNCHANGED <<keyManifests, mfaults, mgpc>>

PushKeyManifest(k) ==
    /\ mgpc = "keys" /\ k \in keyNow
    /\ keyManifests' = keyManifests \union {k} /\ keyNow' = {}
    /\ KeysSame /\ UNCHANGED <<keyBlobs, keysTodo, mfaults, mgpc>>

KeyFails(k) ==
    /\ MFault /\ mgpc = "keys"
    /\ k \in keyNow \/ (keyNow = {} /\ k \in keysTodo)
    /\ keysTodo' = keysTodo \ {k} /\ keyNow' = {}
    /\ KeysSame /\ UNCHANGED <<keyObjects, mgpc>>

KeysDone ==
    /\ mgpc = "keys" /\ keysTodo = {} /\ keyNow = {}
    /\ mgpc' = "index"
    /\ KeysSame /\ UNCHANGED <<keyObjects, mfaults, keyRun>>

(* update_mirror_index, whose failure is only printed.                     *)
IndexMigrated ==
    /\ mgpc = "index"
    /\ \/ mindex' = manifests /\ UNCHANGED mfaults
       \/ MFault /\ UNCHANGED mindex
    /\ EndMigrate
    /\ UNCHANGED <<archives, metas, manifests, keyObjects>>

MigrateDies ==
    /\ MFault /\ mgpc # "idle"
    /\ EndMigrate
    /\ UNCHANGED newLayout

-----------------------------------------------------------------------------
MigrateSpec(h) ==
    \/ FetchMeta(h) \/ VerifyMeta(h) \/ RewriteMeta(h)
    \/ MigrateArchive(h) \/ UploadMeta(h) \/ UploadManifest(h)

MigrateStep ==
    \/ StartMigrate \/ JoinMigrate \/ KeysDone \/ IndexMigrated
    \/ \E h \in MSpecs : MigrateSpec(h)
    \/ \E k \in MKeys : PushKey(k) \/ PushKeyManifest(k)

MigrateNext ==
    \/ MigrateStep \/ MigrateDies
    \/ \E h \in MSpecs : TransferFails(h)
    \/ \E k \in MKeys : KeyFails(k)

Migration == MigrateInit /\ [][MigrateNext]_mVars

-----------------------------------------------------------------------------
(* Whoever finds a manifest of the new layout finds what it names, and the *)
(* key of a key's manifest, wherever threads fail.  A manifest is of a     *)
(* spec whose old signature was good, unless runs share a working          *)
(* directory: there the text a bad signature left is taken for verified.   *)
MigratedWhole ==
    /\ \A h \in manifests : h \in archives /\ h \in metas /\ (h \in Signed \/ shared)
    /\ keyManifests \subseteq keyBlobs

(* Once a migration was started every spec that can be migrated is, by     *)
(* this run or by one started after it failed.  Not those with a manifest  *)
(* in a mirror below, which the listing takes for theirs, and not in a     *)
(* shared directory, where what a failed run left is not fetched again.    *)
AllMigrated ==
    \A h \in (Paired \intersect Signed) \ Nested :
        mgpc # "idle" /\ ~shared ~> h \in manifests
=============================================================================
