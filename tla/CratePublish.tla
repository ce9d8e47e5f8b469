---------------------------- MODULE CratePublish ----------------------------
(***************************************************************************)
(* Runs of scripts/publish_release_crate.py for one version of one crate,  *)
(* at the same time or one after the other, against a registry that        *)
(* accepts a version once and shows it late and piecemeal: in its API, in  *)
(* the index that cargo resolves from, and in the storage it downloads     *)
(* from.                                                                   *)
(***************************************************************************)
EXTENDS Naturals

CONSTANTS
    Runs,      \* executions of the script
    Contents,  \* what a package may contain
    Retries,   \* the number of DELAYS
    None

VARIABLES
    accepted,  \* what the registry has accepted as this version, or None
    shown,     \* where it shows it
    yanked,    \* where it shows it as yanked
    run        \* the state of each execution

vars == <<accepted, shown, yanked, run>>

Places == {"api", "index", "storage"}
Purposes == {"absent?", "visible?", "confirmed?"}
Success == {"already-published", "published", "reconciled-after-publish-error"}
Answers == Success \cup {"ready-to-upload", "refused", "unconfirmed", "error"}

ASSUME PublishAssumption == Retries \in Nat /\ None \notin Contents \cup Answers

Update(r, change) == run' = [run EXCEPT ![r] = change]
OnlyRuns == UNCHANGED <<accepted, shown, yanked>>

-----------------------------------------------------------------------------
(* The registry.                                                           *)

Show(place) ==
    /\ accepted # None
    /\ shown' = shown \cup {place}
    /\ UNCHANGED <<accepted, yanked, run>>

Yank(place) ==
    /\ accepted # None
    /\ yanked' = yanked \cup {place}
    /\ UNCHANGED <<accepted, shown, run>>

-----------------------------------------------------------------------------
(* What follows a probe, by what it was made for.                          *)

Ends(x, answer) == [x EXCEPT !.at = "done", !.answer = answer]
Probes(x, purpose, attempt) ==
    [x EXCEPT !.at = "api", !.purpose = purpose, !.attempt = attempt]

MayRetry(x) == x.attempt < Retries

\* reconcile: the next attempt, or its caller's error.
Again(x) ==
    IF MayRetry(x) THEN Probes(x, x.purpose, x.attempt + 1)
    ELSE Ends(x, IF x.purpose = "visible?" THEN "refused" ELSE "unconfirmed")

\* existing() returned False: nothing has been accepted, as far as the API shows.
Absent(x) ==
    IF x.purpose # "absent?" THEN Again(x)
    ELSE IF x.publish THEN [x EXCEPT !.at = "upload"]
    ELSE Ends(x, "ready-to-upload")

\* Mutant of NotVisible: what is not installable counts as absent.
NotVisible_IsAbsent(x) == Absent(x)

\* existing() raised NotVisible: accepted, but not installable yet.
NotVisible(x) == IF x.purpose = "absent?" THEN Probes(x, "visible?", 0) ELSE Again(x)

\* Mutant of Installable: existing() does not return.
Installable_Falsy(x) == Absent(x)

\* existing() returned True.
Installable(x) ==
    Ends(x, IF x.purpose # "confirmed?" THEN "already-published"
                ELSE IF x.exit = 0 THEN "published" ELSE "reconciled-after-publish-error")

-----------------------------------------------------------------------------
(* The script.                                                             *)

Start(r) ==
    /\ run[r].at = "idle"
    /\ Update(r, Probes(run[r], "absent?", 0))
    /\ OnlyRuns

\* The run is cancelled, or the registry cannot be reached.
Stop(r) ==
    /\ run[r].at \notin {"idle", "done"}
    /\ Update(r, Ends(run[r], "error"))
    /\ OnlyRuns

\* Mutant of Rejected: the yanked mark is not looked at.
Rejected_NotYanked(place) == FALSE

\* A version that is yanked raises ValueError.
Rejected(place) == place \in yanked

FetchApi(r) ==
    /\ run[r].at = "api"
    /\ Update(r, IF "api" \notin shown THEN Absent(run[r])
                 ELSE IF Rejected("api") THEN Ends(run[r], "error")
                 ELSE [run[r] EXCEPT !.at = "index"])
    /\ OnlyRuns

FetchIndex(r) ==
    /\ run[r].at = "index"
    /\ Update(r, IF "index" \notin shown THEN NotVisible(run[r])
                 ELSE IF Rejected("index") THEN Ends(run[r], "error")
                 ELSE [run[r] EXCEPT !.at = "storage"])
    /\ OnlyRuns

\* Mutant of SameFiles: the archive's files are not compared.
SameFiles_Unasked(x) == TRUE

SameFiles(x) == accepted = x.files

FetchStorage(r) ==
    /\ run[r].at = "storage"
    /\ Update(r, IF "storage" \notin shown THEN NotVisible(run[r])
                 ELSE IF SameFiles(run[r]) THEN Installable(run[r])
                 ELSE Ends(run[r], "error"))
    /\ OnlyRuns

\* cargo publish: the registry may accept the first upload of the version, and
\* cargo may fail although it has.
Upload(r) ==
    /\ run[r].at = "upload"
    /\ \E taken \in BOOLEAN, exit \in {0, 1} :
          /\ taken => accepted = None
          /\ exit = 0 => taken
          /\ accepted' = IF taken THEN run[r].files ELSE accepted
          /\ Update(r, Probes([run[r] EXCEPT !.exit = exit], "confirmed?", 0))
    /\ UNCHANGED <<shown, yanked>>

-----------------------------------------------------------------------------
Init ==
    /\ accepted = None
    /\ shown = {}
    /\ yanked = {}
    /\ run \in [Runs -> [files : Contents, publish : BOOLEAN, at : {"idle"},
                         purpose : {"absent?"}, attempt : {0}, exit : {0}, answer : {None}]]

RunStep(r) == FetchApi(r) \/ FetchIndex(r) \/ FetchStorage(r) \/ Upload(r)

Next ==
    \/ \E place \in Places : Show(place)
    \/ \E place \in {"api", "index"} : Yank(place)
    \/ \E r \in Runs : Start(r) \/ Stop(r) \/ RunStep(r)

Spec == Init /\ [][Next]_vars

\* Runs go on unless they are stopped.
FairSpec == Spec /\ \A r \in Runs : WF_vars(RunStep(r))

-----------------------------------------------------------------------------
(* What the script promises.                                               *)

TypeOK ==
    /\ accepted \in Contents \cup {None}
    /\ shown \subseteq Places
    /\ yanked \subseteq Places
    /\ run \in [Runs -> [files : Contents, publish : BOOLEAN,
                         at : {"idle", "upload", "done"} \cup Places, purpose : Purposes,
                         attempt : 0..Retries, exit : {0, 1}, answer : Answers \cup {None}]]

\* A run that reports success leaves a version that cargo resolves and downloads,
\* with exactly the files this run verified, whoever uploaded it: never after
\* losing to another run's upload of something else ("published crate files differ
\* from verified release package").
SuccessIsInstallable ==
    \A r \in Runs : run[r].answer \in Success => accepted = run[r].files /\ shown = Places

\* A run that starts when the API shows the version never uploads, however much of
\* it is missing elsewhere ("refusing another upload").
RerunsDoNotUpload ==
    \A r \in Runs :
        [](run[r].at = "idle" /\ "api" \in shown => [](run[r].at # "upload"))

\* A run that starts when the API shows the version as yanked never reports success
\* ("Publish once, or reconcile an exact, non-yanked crates.io release").
YankedIsNeverConfirmed ==
    \A r \in Runs :
        [](run[r].at = "idle" /\ "api" \in yanked \cap shown => [](run[r].answer \notin Success))

\* A run that starts when its own files can be installed finds so, unless it is
\* stopped or the version is yanked meanwhile: a rerun completes a release.
RerunsFinish ==
    \A r \in Runs :
        (run[r].at = "api" /\ run[r].purpose = "absent?" /\ shown = Places
            /\ accepted = run[r].files)
        ~> run[r].answer \in {"already-published", "error"}
=============================================================================
