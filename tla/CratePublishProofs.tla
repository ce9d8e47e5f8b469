------------------------- MODULE CratePublishProofs -------------------------
(***************************************************************************)
(* Theorems about CratePublish, for any set of runs, any package contents  *)
(* and any number of retries: what a run reports, and what a run that      *)
(* comes late may no longer do.                                            *)
(***************************************************************************)
EXTENDS CratePublish, TLAPS

-----------------------------------------------------------------------------
(* The inductive invariant.                                                *)

\* The registry shows only what it has accepted.
ShownIsAccepted == shown # {} => accepted # None

\* A probe asks one place after the other, and goes on where it found the version.
ProbeFound ==
    \A r \in Runs :
        /\ run[r].at = "index" => "api" \in shown
        /\ run[r].at = "storage" => {"api", "index"} \subseteq shown

IInv == TypeOK /\ ShownIsAccepted /\ ProbeFound /\ SuccessIsInstallable

Run == [files : Contents, publish : BOOLEAN,
        at : {"idle", "upload", "done"} \cup Places, purpose : Purposes,
        attempt : 0..Retries, exit : {0, 1}, answer : Answers \cup {None}]

-----------------------------------------------------------------------------
(* What may follow a probe.                                                *)

\* x goes on from the start of a probe or to the upload, with no new answer, or
\* it ends without success.
GoesOn(x, y) ==
    /\ y \in Run
    /\ y.files = x.files
    /\ y.at \in {"api", "upload", "done"}
    /\ y.answer = x.answer \/ y.answer \notin Success

LEMMA EndsTyped ==
    ASSUME NEW x \in Run, NEW answer \in Answers
    PROVE  /\ Ends(x, answer) \in Run
           /\ Ends(x, answer).files = x.files
           /\ Ends(x, answer).at = "done"
           /\ Ends(x, answer).answer = answer
BY DEF Run, Ends

LEMMA FailureGoesOn ==
    ASSUME NEW x \in Run, NEW answer \in Answers \ Success
    PROVE  GoesOn(x, Ends(x, answer))
BY EndsTyped DEF GoesOn

LEMMA ProbesGoesOn ==
    ASSUME NEW x \in Run, NEW purpose \in Purposes, NEW attempt \in 0..Retries
    PROVE  GoesOn(x, Probes(x, purpose, attempt))
BY DEF Run, Probes, GoesOn, Places

\* The number of probes of a reconciliation is bounded.
LEMMA AgainGoesOn ==
    ASSUME NEW x \in Run
    PROVE  GoesOn(x, Again(x))
<1>1. CASE MayRetry(x)
  <2>1. x.attempt + 1 \in 0..Retries /\ x.purpose \in Purposes
    BY <1>1, PublishAssumption DEF Run, MayRetry
  <2>. QED BY <1>1, <2>1, ProbesGoesOn DEF Again
<1>2. CASE ~MayRetry(x)
  <2>1. "refused" \in Answers \ Success /\ "unconfirmed" \in Answers \ Success
    BY DEF Answers, Success
  <2>. QED BY <1>2, <2>1, FailureGoesOn DEF Again
<1>. QED BY <1>1, <1>2

LEMMA AbsentGoesOn ==
    ASSUME NEW x \in Run
    PROVE  GoesOn(x, Absent(x))
<1>1. "ready-to-upload" \in Answers \ Success BY DEF Answers, Success
<1>2. GoesOn(x, [x EXCEPT !.at = "upload"]) BY DEF Run, GoesOn
<1>. QED BY <1>1, <1>2, AgainGoesOn, FailureGoesOn DEF Absent

LEMMA NotVisibleGoesOn ==
    ASSUME NEW x \in Run
    PROVE  GoesOn(x, NotVisible(x))
<1>1. 0 \in 0..Retries /\ "visible?" \in Purposes BY PublishAssumption DEF Purposes
<1>. QED BY <1>1, AgainGoesOn, ProbesGoesOn DEF NotVisible

-----------------------------------------------------------------------------
(* Each step preserves the invariant.                                      *)

LEMMA InitHolds == Init => IInv
<1>. SUFFICES ASSUME Init PROVE IInv OBVIOUS
<1>1. TypeOK
  BY PublishAssumption DEF Init, TypeOK, Places, Purposes
<1>2. None \notin Success
  BY PublishAssumption DEF Answers
<1>. QED BY <1>1, <1>2 DEF Init, IInv, ShownIsAccepted, ProbeFound, SuccessIsInstallable

\* A step of one run that leaves the registry alone, to a state that the
\* invariant allows.
LEMMA RunMoves ==
    ASSUME IInv, NEW r \in Runs, NEW y \in Run,
           Update(r, y), OnlyRuns,
           y.at = "index" => "api" \in shown,
           y.at = "storage" => {"api", "index"} \subseteq shown,
           y.answer \in Success => accepted = y.files /\ shown = Places
    PROVE  IInv'
<1>1. run \in [Runs -> Run] BY DEF IInv, TypeOK, Run
<1>2. run' \in [Runs -> Run] /\ run'[r] = y /\ \A q \in Runs \ {r} : run'[q] = run[q]
  BY <1>1 DEF Update
<1>3. UNCHANGED <<accepted, shown, yanked>> BY DEF OnlyRuns
<1>4. TypeOK' BY <1>2, <1>3 DEF IInv, TypeOK, Run
<1>5. ShownIsAccepted' BY <1>3 DEF IInv, ShownIsAccepted
<1>6. ProbeFound' BY <1>2, <1>3 DEF IInv, ProbeFound
<1>7. SuccessIsInstallable' BY <1>2, <1>3 DEF IInv, SuccessIsInstallable
<1>. QED BY <1>4, <1>5, <1>6, <1>7 DEF IInv

\* In particular what follows a probe that did not end in success.
LEMMA RunGoesOn ==
    ASSUME IInv, NEW r \in Runs, NEW y, GoesOn(run[r], y), Update(r, y), OnlyRuns
    PROVE  IInv'
<1>1. y \in Run /\ y.at # "index" /\ y.at # "storage" BY DEF GoesOn
<1>2. y.answer \in Success => accepted = y.files /\ shown = Places
  BY DEF GoesOn, IInv, SuccessIsInstallable
<1>. QED BY <1>1, <1>2, RunMoves

LEMMA StartKeeps ==
    ASSUME IInv, NEW r \in Runs, Start(r) \/ Stop(r)
    PROVE  IInv'
<1>1. run[r] \in Run BY DEF IInv, TypeOK, Run
<1>2. CASE Start(r)
  <2>1. GoesOn(run[r], Probes(run[r], "absent?", 0))
    BY <1>1, ProbesGoesOn, PublishAssumption DEF Purposes
  <2>. QED BY <1>2, <2>1, RunGoesOn DEF Start
<1>3. CASE Stop(r)
  <2>1. GoesOn(run[r], Ends(run[r], "error"))
    BY <1>1, FailureGoesOn DEF Answers, Success
  <2>. QED BY <1>3, <2>1, RunGoesOn DEF Stop
<1>. QED BY <1>2, <1>3

\* The fetches that go on to the next place have found the version at theirs.
LEMMA FetchKeeps ==
    ASSUME IInv, NEW r \in Runs, FetchApi(r) \/ FetchIndex(r)
    PROVE  IInv'
<1>1. run[r] \in Run BY DEF IInv, TypeOK, Run
<1>2. GoesOn(run[r], Ends(run[r], "error"))
  BY <1>1, FailureGoesOn DEF Answers, Success
<1>3. GoesOn(run[r], Absent(run[r])) /\ GoesOn(run[r], NotVisible(run[r]))
  BY <1>1, AbsentGoesOn, NotVisibleGoesOn
<1>4. \A p \in {"index", "storage"} :
         /\ [run[r] EXCEPT !.at = p] \in Run
         /\ [run[r] EXCEPT !.at = p].at = p
         /\ [run[r] EXCEPT !.at = p].answer = run[r].answer
         /\ [run[r] EXCEPT !.at = p].files = run[r].files
  BY <1>1 DEF Run, Places
<1>5. run[r].answer \in Success => accepted = run[r].files /\ shown = Places
  BY DEF IInv, SuccessIsInstallable
<1>6. CASE FetchApi(r)
  <2>1. OnlyRuns BY <1>6 DEF FetchApi
  <2>2. CASE "api" \in shown /\ ~Rejected("api")
    <3> DEFINE y == [run[r] EXCEPT !.at = "index"]
    <3>1. Update(r, y) BY <1>6, <2>2 DEF FetchApi
    <3>2. y \in Run /\ y.at = "index" /\ y.answer = run[r].answer /\ y.files = run[r].files
      BY <1>4
    <3> HIDE DEF y
    <3>. QED BY <1>5, <2>1, <2>2, <3>1, <3>2, RunMoves
  <2>3. CASE "api" \notin shown
    BY <1>3, <1>6, <2>1, <2>3, RunGoesOn DEF FetchApi
  <2>4. CASE "api" \in shown /\ Rejected("api")
    BY <1>2, <1>6, <2>1, <2>4, RunGoesOn DEF FetchApi
  <2>. QED BY <2>2, <2>3, <2>4
<1>7. CASE FetchIndex(r)
  <2>1. OnlyRuns /\ "api" \in shown BY <1>7 DEF FetchIndex, IInv, ProbeFound
  <2>2. CASE "index" \in shown /\ ~Rejected("index")
    <3> DEFINE y == [run[r] EXCEPT !.at = "storage"]
    <3>1. Update(r, y) BY <1>7, <2>2 DEF FetchIndex
    <3>2. y \in Run /\ y.at = "storage" /\ y.answer = run[r].answer /\ y.files = run[r].files
      BY <1>4
    <3> HIDE DEF y
    <3>. QED BY <1>5, <2>1, <2>2, <3>1, <3>2, RunMoves
  <2>3. CASE "index" \notin shown
    BY <1>3, <1>7, <2>1, <2>3, RunGoesOn DEF FetchIndex
  <2>4. CASE "index" \in shown /\ Rejected("index")
    BY <1>2, <1>7, <2>1, <2>4, RunGoesOn DEF FetchIndex
  <2>. QED BY <2>2, <2>3, <2>4
<1>. QED BY <1>6, <1>7

\* Success is answered only when storage shows the files, after API and index did.
LEMMA FetchStorageKeeps ==
    ASSUME IInv, NEW r \in Runs, FetchStorage(r)
    PROVE  IInv'
<1>1. run[r] \in Run BY DEF IInv, TypeOK, Run
<1>2. OnlyRuns /\ {"api", "index"} \subseteq shown /\ shown \subseteq Places
  BY DEF FetchStorage, IInv, ProbeFound, TypeOK
<1>3. CASE "storage" \notin shown
  <2>1. GoesOn(run[r], NotVisible(run[r])) BY <1>1, NotVisibleGoesOn
  <2>. QED BY <1>2, <1>3, <2>1, RunGoesOn DEF FetchStorage
<1>4. CASE "storage" \in shown /\ ~SameFiles(run[r])
  <2>1. GoesOn(run[r], Ends(run[r], "error"))
    BY <1>1, FailureGoesOn DEF Answers, Success
  <2>. QED BY <1>2, <1>4, <2>1, RunGoesOn DEF FetchStorage
<1>5. CASE "storage" \in shown /\ SameFiles(run[r])
  <2> DEFINE y == Installable(run[r])
  <2>1. Update(r, y) BY <1>5 DEF FetchStorage
  <2>2. y \in Run /\ y.files = run[r].files /\ y.at = "done"
    BY <1>1, EndsTyped DEF Installable, Answers, Success
  <2>3. shown = Places BY <1>2, <1>5 DEF Places
  <2>4. accepted = run[r].files BY <1>5 DEF SameFiles
  <2> HIDE DEF y
  <2>. QED BY <1>2, <2>1, <2>2, <2>3, <2>4, RunMoves
<1>. QED BY <1>3, <1>4, <1>5

\* What has been accepted is never replaced, so no other run's success is undone.
LEMMA UploadKeeps ==
    ASSUME IInv, NEW r \in Runs, Upload(r)
    PROVE  IInv'
<1>. PICK taken \in BOOLEAN, exit \in {0, 1} :
        /\ taken => accepted = None
        /\ accepted' = IF taken THEN run[r].files ELSE accepted
        /\ Update(r, Probes([run[r] EXCEPT !.exit = exit], "confirmed?", 0))
  BY DEF Upload
<1>1. run \in [Runs -> Run] BY DEF IInv, TypeOK, Run
<1>2. PICK y \in Run : /\ Update(r, y) /\ y.files = run[r].files
                       /\ y.at = "api" /\ y.answer = run[r].answer
  <2> DEFINE x == [run[r] EXCEPT !.exit = exit]
             y == Probes(x, "confirmed?", 0)
  <2>1. x \in Run /\ x.files = run[r].files /\ x.answer = run[r].answer
    BY <1>1 DEF Run
  <2>2. 0 \in 0..Retries /\ "confirmed?" \in Purposes BY PublishAssumption DEF Purposes
  <2> HIDE DEF x
  <2>3. /\ y \in Run /\ y.files = x.files
        /\ y.at = "api" /\ y.answer = x.answer
    BY <2>1, <2>2 DEF Probes, Run, Places
  <2>4. Update(r, y) BY DEF x
  <2>. QED BY <2>1, <2>3, <2>4
<1>3. run' \in [Runs -> Run] /\ run'[r] = y /\ \A q \in Runs \ {r} : run'[q] = run[q]
  BY <1>1, <1>2 DEF Update
<1>4. UNCHANGED <<shown, yanked>> BY DEF Upload
<1>5. accepted = None => shown = {} BY DEF IInv, ShownIsAccepted
<1>6. run[r].files \in Contents /\ accepted' \in Contents \cup {None}
  BY <1>1 DEF Run, IInv, TypeOK
<1>7. TypeOK' BY <1>3, <1>4, <1>6 DEF IInv, TypeOK, Run
<1>8. ShownIsAccepted' BY <1>4, <1>5 DEF IInv, ShownIsAccepted
<1>9. ProbeFound' BY <1>2, <1>3, <1>4 DEF IInv, ProbeFound
<1>10. SuccessIsInstallable'
  BY <1>2, <1>3, <1>4, <1>5 DEF IInv, SuccessIsInstallable, Places
<1>. QED BY <1>7, <1>8, <1>9, <1>10 DEF IInv

LEMMA RegistryKeeps ==
    ASSUME IInv, NEW place \in Places, Show(place) \/ Yank(place)
    PROVE  IInv'
<1>1. accepted # None /\ UNCHANGED <<accepted, run>> BY DEF Show, Yank
<1>2. shown \subseteq shown' /\ shown' \subseteq Places /\ yanked' \subseteq Places
  BY DEF Show, Yank, IInv, TypeOK
<1>3. shown = Places => shown' = Places BY <1>2
<1>4. TypeOK' BY <1>1, <1>2 DEF IInv, TypeOK
<1>5. ShownIsAccepted' BY <1>1 DEF ShownIsAccepted
<1>6. ProbeFound' BY <1>1, <1>2 DEF IInv, ProbeFound
<1>7. SuccessIsInstallable' BY <1>1, <1>3 DEF IInv, SuccessIsInstallable
<1>. QED BY <1>4, <1>5, <1>6, <1>7 DEF IInv

LEMMA Inductive == IInv /\ [Next]_vars => IInv'
<1>. SUFFICES ASSUME IInv, [Next]_vars PROVE IInv' OBVIOUS
<1>1. CASE \E place \in Places : Show(place)
  BY <1>1, RegistryKeeps
<1>2. CASE \E place \in {"api", "index"} : Yank(place)
  BY <1>2, RegistryKeeps DEF Places
<1>3. CASE \E r \in Runs : Start(r) \/ Stop(r)
  BY <1>3, StartKeeps
<1>4. CASE \E r \in Runs : RunStep(r)
  BY <1>4, FetchKeeps, FetchStorageKeeps, UploadKeeps DEF RunStep
<1>5. CASE UNCHANGED vars
  BY <1>5 DEF vars, IInv, TypeOK, ShownIsAccepted, ProbeFound, SuccessIsInstallable
<1>. QED BY <1>1, <1>2, <1>3, <1>4, <1>5 DEF Next

-----------------------------------------------------------------------------
(* The theorems.                                                           *)

\* The invariant holds in every reachable state, whatever runs of
\* publish_release_crate.py coincide, stop or are repeated.
THEOREM InvAlways == Spec => []IInv
BY InitHolds, Inductive, PTL DEF Spec

\* The variables have their types; in particular no reconciliation makes more
\* than Retries + 1 probes.
THEOREM TypeCorrect == Spec => []TypeOK
<1>1. IInv => TypeOK BY DEF IInv
<1>. QED BY <1>1, InvAlways, PTL

\* A run of publish_release_crate.py that reports success leaves the version
\* installable with exactly its own files, for any number of concurrent runs.
THEOREM SuccessStaysInstallable == Spec => []SuccessIsInstallable
<1>1. IInv => SuccessIsInstallable BY DEF IInv
<1>. QED BY <1>1, InvAlways, PTL

-----------------------------------------------------------------------------
(* Late runs: what the API shows when a run starts decides what it may do.  *)

\* The registry never takes back what it shows, nor a yanked mark.
LEMMA RegistryGrows ==
    ASSUME [Next]_vars
    PROVE  shown \subseteq shown' /\ yanked \subseteq yanked'
BY DEF Next, vars, Show, Yank, Start, Stop, OnlyRuns, RunStep, FetchApi, FetchIndex,
       FetchStorage, Upload

\* A run is changed by its own steps only.
LEMMA OwnSteps ==
    ASSUME IInv, [Next]_vars, NEW r \in Runs, run'[r] # run[r]
    PROVE  (Start(r) \/ Stop(r) \/ RunStep(r)) /\ r \in DOMAIN run
<1>1. run \in [Runs -> Run] BY DEF IInv, TypeOK, Run
<1>2. ASSUME NEW q \in Runs, Start(q) \/ Stop(q) \/ RunStep(q) PROVE q = r
  <2>1. PICK change : Update(q, change)
    BY <1>2 DEF Start, Stop, RunStep, FetchApi, FetchIndex, FetchStorage, Upload
  <2>. QED BY <1>1, <2>1 DEF Update
<1>3. \E q \in Runs : Start(q) \/ Stop(q) \/ RunStep(q)
  BY DEF Next, vars, Show, Yank
<1>. QED BY <1>1, <1>2, <1>3

\* While the API shows the version, a run that is not at its upload does not come to it.
NoUpload(r) == "api" \in shown /\ run[r].at # "upload"

LEMMA NoUploadKept ==
    ASSUME IInv, [Next]_vars, NEW r \in Runs, NoUpload(r)
    PROVE  NoUpload(r)'
<1>1. "api" \in shown' BY RegistryGrows DEF NoUpload
<1>2. run'[r].at # "upload"
  <2>1. CASE run'[r] = run[r] BY <2>1 DEF NoUpload
  <2>2. CASE run'[r] # run[r]
    <3>1. run[r] \in Run BY DEF IInv, TypeOK, Run
    <3>2. \A y : Update(r, y) => run'[r] = y BY <2>2, OwnSteps DEF Update
    <3>3. Start(r) \/ Stop(r) \/ RunStep(r) BY <2>2, OwnSteps
    <3>4. \A x \in Run : \A answer : Ends(x, answer).at # "upload" BY DEF Ends, Run
    <3>5. \A x \in Run : \A purpose, attempt : Probes(x, purpose, attempt).at # "upload"
      BY DEF Probes, Run
    <3>6. \A x \in Run : NotVisible(x).at # "upload" /\ Installable(x).at # "upload"
      BY <3>4, <3>5 DEF NotVisible, Again, Installable
    <3>7. CASE Start(r) \/ Stop(r) BY <3>1, <3>2, <3>4, <3>5, <3>7 DEF Start, Stop
    <3>8. CASE FetchApi(r) \/ FetchIndex(r) \/ FetchStorage(r)
      BY <3>1, <3>2, <3>4, <3>6, <3>8 DEF FetchApi, FetchIndex, FetchStorage, NoUpload, Run
    <3>9. ~Upload(r) BY DEF Upload, NoUpload
    <3>. QED BY <3>3, <3>7, <3>8, <3>9 DEF RunStep
  <2>. QED BY <2>1, <2>2
<1>. QED BY <1>1, <1>2 DEF NoUpload

\* A run of publish_release_crate.py that starts when the API shows the version never
\* uploads it again, however many other runs there are and wherever it is cut off.
THEOREM LateRunsDoNotUpload == Spec => RerunsDoNotUpload
<1>1. ASSUME NEW r \in Runs
      PROVE  Spec => [](run[r].at = "idle" /\ "api" \in shown => [](run[r].at # "upload"))
  <2>1. run[r].at = "idle" /\ "api" \in shown => NoUpload(r) BY DEF NoUpload
  <2>2. IInv /\ NoUpload(r) /\ [Next]_vars => NoUpload(r)' BY NoUploadKept
  <2>3. NoUpload(r) => run[r].at # "upload" BY DEF NoUpload
  <2>. QED BY <2>1, <2>2, <2>3, InvAlways, PTL DEF Spec
<1>. QED BY <1>1 DEF RerunsDoNotUpload

\* A run has no answer before it ends.
Unanswered == \A r \in Runs : run[r].at # "done" => run[r].answer = None

LEMMA UnansweredInit == Init => Unanswered
BY DEF Init, Unanswered

LEMMA UnansweredKept == IInv /\ Unanswered /\ [Next]_vars => Unanswered'
<1>. SUFFICES ASSUME IInv, Unanswered, [Next]_vars, NEW r \in Runs, run'[r].at # "done"
              PROVE  run'[r].answer = None
  BY DEF Unanswered
<1>1. CASE run'[r] = run[r] BY <1>1 DEF Unanswered
<1>2. CASE run'[r] # run[r]
  <2>1. run[r] \in Run BY DEF IInv, TypeOK, Run
  <2>2. \A y : Update(r, y) => run'[r] = y BY <1>2, OwnSteps DEF Update
  <2>3. Start(r) \/ Stop(r) \/ RunStep(r) BY <1>2, OwnSteps
  <2>4. \A x \in Run : \A answer : Ends(x, answer).at = "done" BY DEF Ends, Run
  <2>5. \A x \in Run : \A purpose, attempt : Probes(x, purpose, attempt).answer = x.answer
    BY DEF Probes, Run
  <2>6. \A x \in Run : /\ NotVisible(x).at = "done" \/ NotVisible(x).answer = x.answer
                       /\ Absent(x).at = "done" \/ Absent(x).answer = x.answer
                       /\ Installable(x).at = "done"
    BY <2>4, <2>5 DEF NotVisible, Absent, Again, Installable, Run
  <2>7. run[r].at # "done" => run[r].answer = None BY DEF Unanswered
  <2>8. run[r].at # "done"
    BY <2>3 DEF Start, Stop, RunStep, FetchApi, FetchIndex, FetchStorage, Upload
  <2>9. CASE Start(r) \/ Stop(r) BY <2>1, <2>2, <2>4, <2>5, <2>7, <2>8, <2>9 DEF Start, Stop
  <2>10. CASE FetchApi(r) \/ FetchIndex(r) \/ FetchStorage(r)
    BY <2>1, <2>2, <2>4, <2>6, <2>7, <2>8, <2>10 DEF FetchApi, FetchIndex, FetchStorage, Run
  <2>11. CASE Upload(r) BY <2>1, <2>2, <2>7, <2>8, <2>11 DEF Upload, Probes, Run
  <2>. QED BY <2>3, <2>9, <2>10, <2>11 DEF RunStep
<1>. QED BY <1>1, <1>2

\* While the API shows the version as yanked, a run that has not gone past it ends
\* without success.
Turned(r) ==
    /\ "api" \in shown \cap yanked
    /\ run[r].at \in {"idle", "api", "done"}
    /\ run[r].answer \notin Success

LEMMA TurnedKept ==
    ASSUME IInv, [Next]_vars, NEW r \in Runs, Turned(r)
    PROVE  Turned(r)'
<1>1. "api" \in shown' \cap yanked' BY RegistryGrows DEF Turned
<1>2. CASE run'[r] = run[r] BY <1>1, <1>2 DEF Turned
<1>3. CASE run'[r] # run[r]
  <2>1. run[r] \in Run BY DEF IInv, TypeOK, Run
  <2>2. \A y : Update(r, y) => run'[r] = y BY <1>3, OwnSteps DEF Update
  <2>3. Start(r) \/ Stop(r) \/ FetchApi(r)
    BY <1>3, OwnSteps DEF RunStep, FetchIndex, FetchStorage, Upload, Turned
  <2>4. run'[r] = Ends(run[r], "error") \/ run'[r] = Probes(run[r], "absent?", 0)
    BY <2>2, <2>3 DEF Start, Stop, FetchApi, Rejected, Turned
  <2>5. "error" \notin Success BY DEF Success
  <2>. QED BY <1>1, <2>1, <2>4, <2>5 DEF Turned, Ends, Probes, Run
<1>. QED BY <1>2, <1>3

\* A run of publish_release_crate.py that starts when the API shows the version as
\* yanked never reports success, whatever it finds in index and storage.
THEOREM LateRunsDoNotConfirmYanked == Spec => YankedIsNeverConfirmed
<1>1. Spec => []Unanswered BY UnansweredInit, UnansweredKept, InvAlways, PTL DEF Spec
<1>2. ASSUME NEW r \in Runs
      PROVE  Spec => [](run[r].at = "idle" /\ "api" \in yanked \cap shown
                            => [](run[r].answer \notin Success))
  <2>1. Unanswered /\ run[r].at = "idle" /\ "api" \in yanked \cap shown => Turned(r)
    BY PublishAssumption DEF Unanswered, Turned, Answers
  <2>2. IInv /\ Turned(r) /\ [Next]_vars => Turned(r)' BY TurnedKept
  <2>3. Turned(r) => run[r].answer \notin Success BY DEF Turned
  <2>. QED BY <1>1, <2>1, <2>2, <2>3, InvAlways, PTL DEF Spec
<1>. QED BY <1>2 DEF YankedIsNeverConfirmed
=============================================================================
