------------------------------ MODULE GoRelease ------------------------------
(***************************************************************************)
(* The runs of scripts/publish_go_release.py for one release, one after    *)
(* the other (go-release.yml queues them), each with packages it has built *)
(* itself, against a release whose uploads may fail, succeed without a     *)
(* reply or be lost, and which may be cut off between any two requests.    *)
(*                                                                         *)
(* An archive is the build it came from, a checksum the build it was       *)
(* computed from; a sound build passes archive_identity and, on Windows,   *)
(* verify_windows_contents.                                                *)
(***************************************************************************)
EXTENDS Naturals, Sequences

CONSTANTS
    Required,   \* REQUIRED_PLATFORMS
    Optional,   \* the platform in OPTIONAL_PLATFORMS
    Builds,
    Sound,      \* the builds that pass verification
    Locals,     \* the packages a run may have in its directory
    Revision,   \* the commit of the core release tag
    OtherRevision,
    None

Platforms == {Required[i] : i \in 1..Len(Required)} \cup {Optional}

ASSUME BuildsAssumption == Sound \subseteq Builds /\ None \notin Builds
ASSUME PlatformsAssumption ==
    /\ Required \in Seq(Platforms)
    /\ \A i \in 1..Len(Required) :
           /\ Required[i] # Optional
           /\ \A j \in 1..Len(Required) : Required[i] = Required[j] => i = j
ASSUME LocalsAssumption == Locals \subseteq [Platforms -> Builds \cup {None}]
ASSUME RevisionAssumption == Revision # OtherRevision /\ None \notin {Revision, OtherRevision}

VARIABLES
    archive,   \* the archive attached to the release, by platform
    checksum,  \* the checksum attached next to it
    goTag,     \* the commit of sdk/go/vVERSION
    notes,     \* the sections this script has added to the release's body
    lost,      \* whether the service has lost an upload it confirmed to this run
    run        \* the run under way

assets == <<archive, checksum>>
vars == <<assets, goTag, notes, lost, run>>

Idle == [at |-> "idle"]
Steps == {"platform", "upload", "verify", "tag", "optional", "recheck", "cleanup", "notes"}
Running == run.at \in Steps

\* The platform the run has come to.
Platform(x) == IF x.i <= Len(Required) THEN Required[x.i] ELSE Optional
IsOptional(x) == x.i > Len(Required)
AtStep(step) == run.at = step
Goes(step) == run' = [run EXCEPT !.at = step]
Ends(answer) == run' = [run EXCEPT !.at = answer]

\* A request fails: the required part raises, the optional part cleans up.
Fails == run' = [run EXCEPT !.at = IF IsOptional(run) THEN "cleanup" ELSE "stopped",
                            !.missing = {"archive", "checksum"}]

-----------------------------------------------------------------------------
(* publish, before its first upload.                                       *)

\* The names of the release's assets are read once, here.
Begin(local) ==
    /\ ~Running
    /\ run' = [at |-> IF \/ goTag \notin {None, Revision}
                         \/ \E i \in 1..Len(Required) : local[Required[i]] = None
                      THEN "refused" ELSE "platform",
               local |-> local,
               named |-> [archive |-> {p \in Platforms : archive[p] # None},
                          checksum |-> {p \in Platforms : checksum[p] # None}],
               existing |-> goTag, i |-> 1, digest |-> None, missing |-> {}, status |-> None]
    /\ lost' = FALSE
    /\ UNCHANGED <<assets, goTag, notes>>

\* The job is cancelled or times out, or the program cannot reach GitHub.
Stop ==
    /\ Running
    /\ Ends("stopped")
    /\ UNCHANGED <<assets, goTag, notes, lost>>

-----------------------------------------------------------------------------
(* One required platform.                                                  *)

Uploads(digest, missing) ==
    run' = [run EXCEPT !.at = "upload", !.digest = digest, !.missing = missing]

\* Mutant of ChecksumOf: the checksum of the local package, whatever is published.
ChecksumOf_Local(p) == run.local[p]

\* What the checksum to upload is computed from: the archive that is published,
\* if there is one (archive = staged / name), else the local one.
ChecksumOf(p) == IF p \in run.named.archive THEN archive[p] ELSE run.local[p]

Lacking(p) == {kind \in {"archive", "checksum"} : p \notin run.named[kind]}

\* Mutant of Acceptable: the checksum is not compared.
Acceptable_Unchecked(p) ==
    /\ run.local[p] \in Sound
    /\ p \in run.named.checksum => p \in run.named.archive
    /\ p \in run.named.archive => archive[p] \in Sound

\* Mutant of Acceptable: an archive without a checksum is refused.
Acceptable_WholePairs(p) ==
    /\ run.local[p] \in Sound
    /\ p \in run.named.checksum <=> p \in run.named.archive
    /\ p \in run.named.archive => archive[p] \in Sound /\ checksum[p] = archive[p]

\* The local package is verified, then what the release has of the pair.
Acceptable(p) ==
    /\ run.local[p] \in Sound
    /\ p \in run.named.checksum => p \in run.named.archive
    /\ p \in run.named.archive =>
           /\ archive[p] \in Sound
           /\ p \in run.named.checksum => checksum[p] = archive[p]

RequiredPlatform ==
    /\ AtStep("platform")
    /\ IF IsOptional(run) THEN Goes("verify")
       ELSE IF Acceptable(Platform(run))
       THEN Uploads(ChecksumOf(Platform(run)), Lacking(Platform(run)))
       ELSE Ends("refused")
    /\ UNCHANGED <<assets, goTag, notes, lost>>

\* Mutant of NextUpload: the checksum first.
NextUpload_ChecksumFirst == IF "checksum" \in run.missing THEN "checksum" ELSE "archive"

\* Archives are attached before their checksums.
NextUpload == IF "archive" \in run.missing THEN "archive" ELSE "checksum"

\* gh release upload does not replace an asset. It may fail with or without the
\* asset being stored, and an asset it has confirmed may be missing all the same.
Upload ==
    /\ AtStep("upload")
    /\ run.missing # {}
    /\ LET p == Platform(run)
           kind == NextUpload
           there == IF kind = "archive" THEN archive[p] ELSE checksum[p]
       IN  \E stored \in BOOLEAN, confirmed \in BOOLEAN :
              /\ stored \/ confirmed => there = None
              /\ archive' = IF stored /\ kind = "archive"
                            THEN [archive EXCEPT ![p] = run.local[p]] ELSE archive
              /\ checksum' = IF stored /\ kind = "checksum"
                             THEN [checksum EXCEPT ![p] = run.digest] ELSE checksum
              /\ lost' = (lost \/ (confirmed /\ ~stored))
              /\ IF confirmed THEN run' = [run EXCEPT !.missing = @ \ {kind}] ELSE Fails
    /\ UNCHANGED <<goTag, notes>>

UploadsDone ==
    /\ AtStep("upload")
    /\ run.missing = {}
    /\ run' = IF IsOptional(run) THEN [run EXCEPT !.at = "recheck"]
              ELSE [run EXCEPT !.at = "platform", !.i = @ + 1]
    /\ UNCHANGED <<assets, goTag, notes, lost>>

-----------------------------------------------------------------------------
(* The tag.                                                                *)

\* Mutant of Attached: that the uploads were confirmed is enough.
Attached_Confirmed(p) == TRUE

\* Whether the assets, read again, have both names.
Attached(p) == archive[p] # None /\ checksum[p] # None

Verify ==
    /\ AtStep("verify")
    /\ IF \A i \in 1..Len(Required) : Attached(Required[i]) THEN Goes("tag") ELSE Ends("refused")
    /\ UNCHANGED <<assets, goTag, notes, lost>>

\* The reference is created unless it existed at the start, and read back; the
\* reply to the request may get lost.
CreateTag ==
    /\ AtStep("tag")
    /\ goTag' = IF run.existing = None THEN Revision ELSE goTag
    /\ Goes(IF goTag' = Revision THEN "optional" ELSE "refused") \/ Ends("stopped")
    /\ UNCHANGED <<assets, notes, lost>>

-----------------------------------------------------------------------------
(* publish_optional.                                                       *)

\* It reads the assets anew, and goes by what there is: the published archive, or
\* else the local one; any exception is caught.
OptionalPlatform ==
    /\ AtStep("optional")
    /\ LET p == Optional
           source == IF archive[p] # None THEN archive[p] ELSE run.local[p]
       IN  \/ /\ source \in Sound
              /\ checksum[p] \in {source, None}
              /\ Uploads(source, {kind \in {"archive", "checksum"} :
                     (IF kind = "archive" THEN archive[p] ELSE checksum[p]) = None})
           \/ /\ source = None
              /\ run' = [run EXCEPT !.at = "notes",
                             !.status = IF checksum[p] = None THEN "absent" ELSE "incomplete"]
           \/ Fails
    /\ UNCHANGED <<assets, goTag, notes, lost>>

\* Mutant of Rechecked: only the names are looked at.
Rechecked_Names == Attached(Optional)

\* Both are downloaded again, as published.
Rechecked == archive[Optional] \in Sound /\ checksum[Optional] = archive[Optional]

Recheck ==
    /\ AtStep("recheck")
    /\ \/ /\ Rechecked
          /\ run' = [run EXCEPT !.at = "notes", !.status = "published"]
       \/ Fails
    /\ UNCHANGED <<assets, goTag, notes, lost>>

\* What there is of the pair is deleted, the archive first; a deletion that fails
\* ends the cleanup.
Cleanup ==
    /\ AtStep("cleanup")
    /\ \/ /\ "archive" \in run.missing
          /\ archive' = [archive EXCEPT ![Optional] = None]
          /\ run' = [run EXCEPT !.missing = @ \ {"archive"}]
          /\ UNCHANGED checksum
       \/ /\ run.missing = {"checksum"}
          /\ checksum' = [checksum EXCEPT ![Optional] = None]
          /\ run' = [run EXCEPT !.at = "notes", !.status = "skipped"]
          /\ UNCHANGED archive
       \/ /\ run' = [run EXCEPT !.at = "notes", !.status = "skipped"]
          /\ UNCHANGED assets
    /\ UNCHANGED <<goTag, notes, lost>>

-----------------------------------------------------------------------------
\* Mutant of Announced: the note of an earlier run is kept.
Announced_KeepsNote ==
    notes \cup {"go"} \cup (IF run.status = "published" THEN {"windows"} ELSE {})

\* The body: the bindings once, Windows as the optional part came out.
Announced ==
    (notes \ {"windows"}) \cup {"go"} \cup
    (IF run.status = "published" THEN {"windows"} ELSE {})

EditNotes ==
    /\ AtStep("notes")
    /\ notes' = Announced
    /\ Ends("done")
    /\ UNCHANGED <<assets, goTag, lost>>

Init ==
    /\ archive \in [Platforms -> Builds \cup {None}]
    /\ checksum \in [Platforms -> Builds \cup {None}]
    /\ goTag \in {None, Revision, OtherRevision}
    /\ notes \in SUBSET {"go", "windows"}
    /\ lost = FALSE
    /\ run = Idle

RunStep ==
    \/ RequiredPlatform \/ Upload \/ UploadsDone \/ Verify \/ CreateTag
    \/ OptionalPlatform \/ Recheck \/ Cleanup \/ EditNotes

Next ==
    \/ \E local \in Locals : Begin(local)
    \/ Stop
    \/ RunStep

Spec == Init /\ [][Next]_vars

\* A run goes on unless it is stopped.
FairSpec == Spec /\ WF_vars(RunStep)

-----------------------------------------------------------------------------
(* What the script promises.                                               *)

RunState ==
    [at : Steps \cup {"refused", "stopped", "done"}, local : Locals,
     named : [archive : SUBSET Platforms, checksum : SUBSET Platforms],
     existing : {None, Revision, OtherRevision}, i : 1..(Len(Required) + 1),
     digest : Builds \cup {None}, missing : SUBSET {"archive", "checksum"},
     status : {None, "absent", "incomplete", "published", "skipped"}]

TypeOK ==
    /\ archive \in [Platforms -> Builds \cup {None}]
    /\ checksum \in [Platforms -> Builds \cup {None}]
    /\ goTag \in {None, Revision, OtherRevision}
    /\ notes \subseteq {"go", "windows"}
    /\ lost \in BOOLEAN
    /\ run \in {Idle} \cup RunState

Verified(p) == archive[p] \in Sound /\ checksum[p] = archive[p]

\* The Go tag appears only when every required platform has a verified archive with
\* its own checksum, whatever earlier runs, from other builds, left half uploaded,
\* and whatever uploads were lost ("attaches all four archives and checksums to the
\* same public release, then creates sdk/go/vVERSION").
TagsCompleteReleases ==
    [][goTag' # goTag => \A i \in 1..Len(Required) : Verified(Required[i])]_vars

\* A run that ends well has done so for all required platforms, also when the tag
\* was there before, and the notes list Windows exactly when this run found both
\* assets verified ("Release notes list Windows only when both assets are verified").
DoneIsComplete ==
    AtStep("done") =>
        /\ goTag = Revision
        /\ \A i \in 1..Len(Required) : Verified(Required[i])
        /\ "windows" \in notes <=> run.status = "published"
        /\ "windows" \in notes => Verified(Optional)

\* A release from which a run can succeed: no required checksum lacks its archive
\* or belongs to another.
Repairable ==
    \A i \in 1..Len(Required) : LET p == Required[i] IN
        /\ archive[p] \in Sound \cup {None}
        /\ checksum[p] \in {archive[p], None}

\* No run makes a release irreparable wherever it is cut off, unless the service
\* loses an archive ("An interrupted archive-only upload can have its checksum repaired").
StaysRepairable == [][Repairable /\ ~lost' => Repairable']_vars

\* A run that finds the release in such a state, no other tag, and its own packages
\* sound, completes it, unless it is stopped, a request fails or an upload is lost.
RerunsComplete ==
    (/\ AtStep("platform") /\ run.i = 1
     /\ Repairable
     /\ \A i \in 1..Len(Required) : run.local[Required[i]] \in Sound)
    ~> lost \/ run.at \in {"done", "stopped"}
=============================================================================
