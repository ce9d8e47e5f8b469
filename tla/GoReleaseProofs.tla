--------------------------- MODULE GoReleaseProofs ---------------------------
(***************************************************************************)
(* Theorems about GoRelease, for any platforms, builds and local packages, *)
(* any assets left on the release and any number of runs.                  *)
(***************************************************************************)
EXTENDS GoRelease, TLAPS

-----------------------------------------------------------------------------
(* The inductive invariant.                                                *)

Numbers == 1..Len(Required)
InOptional == run.at \in Steps \cup {"done"} /\ IsOptional(run)
InRequired == run.at \in {"platform", "upload"} /\ ~IsOptional(run)

\* If both assets are there, they have been verified or come from one package.
Coherent(p) == Attached(p) => Verified(p)

\* The names read at the start still tell what the release has.
Snapshot(p) ==
    /\ p \in run.named.archive <=> archive[p] # None
    /\ p \in run.named.checksum <=> checksum[p] # None

\* Platforms are gone through in order, each from what the names told.
InOrder ==
    run.at \in {"platform", "upload"} =>
        \A j \in Numbers :
            /\ j < run.i => Coherent(Required[j])
            /\ j > run.i \/ (j = run.i /\ run.at = "platform") => Snapshot(Required[j])

\* What the uploads under way have to do with each other.
Uploading ==
    run.at = "upload" /\ ~IsOptional(run) =>
        LET p == Platform(run) IN
            /\ run.digest \in Sound
            /\ "archive" \in run.missing =>
                   /\ archive[p] = None /\ checksum[p] = None
                   /\ run.digest = run.local[p]
            /\ "archive" \notin run.missing =>
                   archive[p] = run.digest \/ (lost /\ archive[p] = None)
            /\ "checksum" \in run.missing => checksum[p] = None
            /\ checksum[p] \in {run.digest, None}

\* From the second reading of the assets on.
AllVerified ==
    /\ run.at = "verify" => \A j \in Numbers : Coherent(Required[j])
    /\ \/ run.at \in {"tag", "optional", "recheck", "cleanup", "notes", "done"}
       \/ run.at = "upload" /\ IsOptional(run)
       => /\ IsOptional(run)
          /\ \A j \in Numbers : Verified(Required[j])
    /\ run.at = "verify" => IsOptional(run)

\* The tag is the one found at the start, then the release's.
TagKnown ==
    /\ run.at \in {"platform", "verify", "tag"} \/ (run.at = "upload" /\ ~IsOptional(run))
       => run.existing = goTag /\ goTag \in {None, Revision}
    /\ \/ run.at \in {"optional", "recheck", "cleanup", "notes", "done"}
       \/ run.at = "upload" /\ IsOptional(run)
       => goTag = Revision

NotesKnown ==
    /\ run.at \in {"notes", "done"} /\ run.status = "published" => Verified(Optional)
    /\ run.at = "done" => ("windows" \in notes <=> run.status = "published")

Inv == InOrder /\ Uploading /\ AllVerified /\ TagKnown /\ NotesKnown
IInv == TypeOK /\ Inv

-----------------------------------------------------------------------------
(* The platforms.                                                          *)

LEMMA NumbersTyped ==
    /\ Len(Required) \in Nat
    /\ \A j \in Numbers : Required[j] \in Platforms /\ Required[j] # Optional
    /\ Optional \in Platforms
    /\ \A j, k \in Numbers : Required[j] = Required[k] => j = k
BY PlatformsAssumption DEF Numbers, Platforms

LEMMA RunTyped ==
    ASSUME TypeOK, run.at # "idle"
    PROVE  run \in RunState
BY DEF TypeOK, Idle

\* The platform a run is at, and the others.
LEMMA AtPlatform ==
    ASSUME TypeOK, run.at \in {"platform", "upload"}, ~IsOptional(run)
    PROVE  /\ run.i \in Numbers
           /\ Platform(run) = Required[run.i]
           /\ Platform(run) \in Platforms
<1>1. run \in RunState BY RunTyped
<1>2. run.i \in 1..(Len(Required) + 1) BY <1>1 DEF RunState
<1>. QED BY <1>2, NumbersTyped DEF IsOptional, Platform, Numbers

LEMMA AtOptional ==
    ASSUME run \in RunState, IsOptional(run)
    PROVE  /\ Platform(run) = Optional
           /\ \A j \in Numbers : j < run.i
<1>1. run.i \in 1..(Len(Required) + 1) BY DEF RunState
<1>. QED BY <1>1, NumbersTyped DEF IsOptional, Platform, Numbers

LEMMA InitHolds == Init => IInv
<1>. SUFFICES ASSUME Init PROVE IInv OBVIOUS
<1>1. run.at = "idle" BY DEF Init, Idle
<1>2. TypeOK BY DEF Init, TypeOK
<1>3. InOrder /\ Uploading /\ AllVerified /\ TagKnown /\ NotesKnown
  BY <1>1 DEF InOrder, Uploading, AllVerified, TagKnown, NotesKnown
<1>. QED BY <1>2, <1>3 DEF IInv, Inv

-----------------------------------------------------------------------------
(* Each step preserves the invariant.                                      *)

LEMMA BeginKeeps ==
    ASSUME IInv, NEW local \in Locals, Begin(local)
    PROVE  IInv'
<1>1. run' \in RunState
  BY NumbersTyped, RevisionAssumption DEF Begin, IInv, TypeOK, RunState, Steps
<1>2. TypeOK' BY <1>1 DEF Begin, IInv, TypeOK, assets
<1>3. /\ run'.at \in {"refused", "platform"} /\ run'.i = 1 /\ run'.existing = goTag
      /\ run'.named = [archive |-> {p \in Platforms : archive[p] # None},
                       checksum |-> {p \in Platforms : checksum[p] # None}]
      /\ run'.at = "platform" => goTag \in {None, Revision}
      /\ UNCHANGED <<archive, checksum, goTag, notes>>
  BY DEF Begin, assets
<1>4. InOrder'
  BY <1>3, NumbersTyped DEF InOrder, Snapshot, Numbers, Coherent, Attached, Verified
<1>5. Uploading' /\ AllVerified' /\ NotesKnown'
  BY <1>3 DEF Uploading, AllVerified, NotesKnown
<1>6. TagKnown' BY <1>3 DEF TagKnown
<1>. QED BY <1>2, <1>4, <1>5, <1>6 DEF IInv, Inv

\* A run that has ended without success is bound by nothing.
LEMMA EndedKeeps ==
    ASSUME IInv, TypeOK', run'.at \in {"stopped", "refused"}
    PROVE  IInv'
BY DEF IInv, Inv, InOrder, Uploading, AllVerified, TagKnown, NotesKnown

LEMMA StopKeeps ==
    ASSUME IInv, Stop
    PROVE  IInv'
<1>1. run \in RunState BY RunTyped DEF IInv, Stop, Running, Steps
<1>2. TypeOK'
  BY <1>1 DEF Stop, Ends, IInv, TypeOK, assets, RunState
<1>. QED BY <1>1, <1>2, EndedKeeps DEF Stop, Ends, RunState

LEMMA RequiredPlatformKeeps ==
    ASSUME IInv, RequiredPlatform
    PROVE  IInv'
<1>0. run \in RunState /\ UNCHANGED <<archive, checksum, goTag, notes, lost>>
  BY RunTyped DEF IInv, RequiredPlatform, AtStep, assets
<1>1. CASE IsOptional(run)
  <2>1. run' = [run EXCEPT !.at = "verify"] BY <1>1 DEF RequiredPlatform, Goes
  <2>2. run' \in RunState BY <1>0, <2>1 DEF RunState, Steps
  <2>3. TypeOK' BY <1>0, <2>2 DEF IInv, TypeOK
  <2>4. run'.at = "verify" /\ run'.i = run.i /\ run'.existing = run.existing /\ run.at = "platform"
    BY <1>0, <2>1 DEF RunState, RequiredPlatform, AtStep
  <2>5. \A j \in Numbers : j < run.i
    BY <1>0, <1>1, AtOptional
  <2>6. \A j \in Numbers : Coherent(Required[j])
    BY <2>4, <2>5 DEF IInv, Inv, InOrder
  <2>7. AllVerified'
    BY <1>0, <1>1, <2>4, <2>6 DEF AllVerified, Coherent, Attached, Verified, IsOptional
  <2>8. InOrder' /\ Uploading' /\ NotesKnown'
    BY <2>4 DEF InOrder, Uploading, NotesKnown
  <2>9. TagKnown'
    BY <1>0, <2>4 DEF TagKnown, IInv, Inv
  <2>. QED BY <2>3, <2>7, <2>8, <2>9 DEF IInv, Inv
<1>2. CASE ~IsOptional(run) /\ Acceptable(Platform(run))
  <2>. DEFINE p == Platform(run)
  <2>1. run' = [run EXCEPT !.at = "upload", !.digest = ChecksumOf(p), !.missing = Lacking(p)]
    BY <1>2 DEF RequiredPlatform, Uploads
  <2>2. /\ run.i \in Numbers /\ p = Required[run.i] /\ p \in Platforms /\ run.at = "platform"
    BY <1>2, AtPlatform DEF IInv, RequiredPlatform, AtStep
  <2>3. Snapshot(p) BY <2>2 DEF IInv, Inv, InOrder
  <2>4. ChecksumOf(p) \in Sound
    BY <1>2 DEF ChecksumOf, Acceptable
  <2>5. Lacking(p) \in SUBSET {"archive", "checksum"} BY DEF Lacking
  <2>6. run' \in RunState
    BY <1>0, <2>1, <2>4, <2>5, BuildsAssumption DEF RunState, Steps
  <2>7. TypeOK' BY <1>0, <2>6 DEF IInv, TypeOK
  <2>8. /\ run'.at = "upload" /\ run'.digest = ChecksumOf(p) /\ run'.missing = Lacking(p)
        /\ run'.i = run.i /\ run'.local = run.local /\ run'.named = run.named
        /\ run'.existing = run.existing
    BY <1>0, <2>1 DEF RunState
  <2>9. InOrder'
    BY <1>0, <2>2, <2>8 DEF InOrder, Coherent, Attached, Verified, Snapshot, IInv, Inv
  <2>10. Platform(run)' = p /\ ~IsOptional(run)'
    BY <1>2, <2>8 DEF Platform, IsOptional
  <2>11. Uploading'
    <3>1. "archive" \in Lacking(p) <=> archive[p] = None
      BY <1>0, <2>3 DEF Lacking, Snapshot, RunState
    <3>2. "checksum" \in Lacking(p) <=> checksum[p] = None
      BY <1>0, <2>3 DEF Lacking, Snapshot, RunState
    <3>3. archive[p] = None => checksum[p] = None /\ ChecksumOf(p) = run.local[p]
      BY <1>2, <2>3 DEF Acceptable, Snapshot, ChecksumOf
    <3>4. archive[p] # None => ChecksumOf(p) = archive[p] /\ checksum[p] \in {archive[p], None}
      BY <1>2, <2>3 DEF Acceptable, Snapshot, ChecksumOf
    <3>. QED BY <1>0, <2>4, <2>8, <2>10, <3>1, <3>2, <3>3, <3>4 DEF Uploading
  <2>12. AllVerified' /\ NotesKnown'
    BY <2>8, <2>10 DEF AllVerified, NotesKnown
  <2>13. TagKnown'
    BY <1>0, <2>2, <2>8, <2>10 DEF TagKnown, IInv, Inv
  <2>. QED BY <2>7, <2>9, <2>11, <2>12, <2>13 DEF IInv, Inv
<1>3. CASE ~IsOptional(run) /\ ~Acceptable(Platform(run))
  <2>1. run' = [run EXCEPT !.at = "refused"] BY <1>3 DEF RequiredPlatform, Ends
  <2>2. TypeOK' /\ run'.at = "refused"
    BY <1>0, <2>1 DEF IInv, TypeOK, RunState
  <2>. QED BY <2>2, EndedKeeps
<1>. QED BY <1>1, <1>2, <1>3

\* What an upload that was confirmed, or not, leaves of the pair it belongs to.
LEMMA UploadKeeps ==
    ASSUME IInv, Upload
    PROVE  IInv'
<1>0. run \in RunState /\ UNCHANGED <<goTag, notes>> /\ run.at = "upload"
  BY RunTyped DEF IInv, Upload, AtStep
<1>. DEFINE p == Platform(run)
            kind == NextUpload
<1>1. PICK stored \in BOOLEAN, confirmed \in BOOLEAN :
         /\ stored \/ confirmed => (IF kind = "archive" THEN archive[p] ELSE checksum[p]) = None
         /\ archive' = IF stored /\ kind = "archive"
                       THEN [archive EXCEPT ![p] = run.local[p]] ELSE archive
         /\ checksum' = IF stored /\ kind = "checksum"
                        THEN [checksum EXCEPT ![p] = run.digest] ELSE checksum
         /\ lost' = (lost \/ (confirmed /\ ~stored))
         /\ IF confirmed THEN run' = [run EXCEPT !.missing = @ \ {kind}] ELSE Fails
  BY DEF Upload
<1>2. p \in Platforms
  <2>1. CASE IsOptional(run)
    BY <1>0, <2>1, AtOptional, NumbersTyped
  <2>2. CASE ~IsOptional(run)
    BY <2>2, <1>0, AtPlatform DEF IInv
  <2>. QED BY <2>1, <2>2
<1>3. run.local[p] \in Builds \cup {None} /\ run.digest \in Builds \cup {None}
  BY <1>0, <1>2, LocalsAssumption DEF RunState
<1>4. TypeOK'
  <2>1. archive' \in [Platforms -> Builds \cup {None}] /\ checksum' \in [Platforms -> Builds \cup {None}]
    BY <1>1, <1>2, <1>3 DEF IInv, TypeOK
  <2>2. CASE confirmed
    <3>1. run' = [run EXCEPT !.missing = @ \ {kind}] BY <1>1, <2>2
    <3>2. run' \in RunState BY <1>0, <3>1 DEF RunState
    <3>. QED BY <1>0, <1>1, <2>1, <3>2 DEF IInv, TypeOK
  <2>3. CASE ~confirmed
    <3>1. Fails BY <1>1, <2>3
    <3>2. run' \in RunState BY <1>0, <3>1 DEF RunState, Fails, Steps
    <3>. QED BY <1>0, <1>1, <2>1, <3>2 DEF IInv, TypeOK
  <2>. QED BY <2>2, <2>3
<1>5. CASE ~confirmed /\ ~IsOptional(run)
  <2>1. run'.at = "stopped" BY <1>0, <1>1, <1>5 DEF Fails, RunState
  <2>. QED BY <1>4, <2>1, EndedKeeps
<1>6. CASE IsOptional(run)
  <2>1. p = Optional BY <1>0, <1>6, AtOptional
  <2>2. \A j \in Numbers : /\ archive'[Required[j]] = archive[Required[j]]
                           /\ checksum'[Required[j]] = checksum[Required[j]]
    BY <1>1, <2>1, NumbersTyped DEF IInv, TypeOK
  <2>3. /\ run'.at \in {"upload", "cleanup"} /\ run'.i = run.i
    BY <1>0, <1>1, <1>6 DEF Fails, RunState
  <2>4. IsOptional(run)' BY <1>6, <2>3 DEF IsOptional
  <2>5. InOrder'
    <3>1. \A j \in Numbers : j < run.i
      BY <1>0, <1>6, AtOptional
    <3>2. \A j \in Numbers : Coherent(Required[j])
      BY <1>0, <3>1 DEF IInv, Inv, InOrder
    <3>. QED BY <1>0, <2>2, <2>3, <3>1, <3>2 DEF InOrder, Coherent, Attached, Verified, Numbers, RunState
  <2>6. Uploading' /\ NotesKnown'
    BY <2>3, <2>4 DEF Uploading, NotesKnown
  <2>7. AllVerified'
    BY <1>0, <1>6, <2>2, <2>3, <2>4 DEF AllVerified, Verified, IInv, Inv
  <2>8. TagKnown'
    BY <1>0, <1>6, <2>3, <2>4 DEF TagKnown, IInv, Inv
  <2>. QED BY <1>4, <2>5, <2>6, <2>7, <2>8 DEF IInv, Inv
<1>7. CASE confirmed /\ ~IsOptional(run)
  <2>1. /\ run'.at = "upload" /\ run'.i = run.i /\ run'.missing = run.missing \ {kind}
        /\ run'.digest = run.digest /\ run'.local = run.local /\ run'.named = run.named
        /\ run'.existing = run.existing
    BY <1>0, <1>1, <1>7 DEF RunState
  <2>2. run.i \in Numbers /\ p = Required[run.i]
    BY <1>0, <1>7, AtPlatform DEF IInv
  <2>3. \A q \in Platforms \ {p} : archive'[q] = archive[q] /\ checksum'[q] = checksum[q]
    BY <1>1 DEF IInv, TypeOK
  <2>4. InOrder'
    <3>1. \A j \in Numbers : j # run.i => Required[j] \in Platforms \ {p}
      BY <2>2, NumbersTyped
    <3>. QED BY <1>0, <2>1, <2>2, <2>3, <3>1 DEF InOrder, Coherent, Attached, Verified, Snapshot, IInv, Inv, Numbers, RunState
  <2>5. Platform(run)' = p /\ ~IsOptional(run)'
    BY <1>7, <2>1 DEF Platform, IsOptional
  <2>6. Uploading'
    <3>1. /\ run.digest \in Sound
          /\ "archive" \in run.missing =>
                 archive[p] = None /\ checksum[p] = None /\ run.digest = run.local[p]
          /\ "archive" \notin run.missing =>
                 archive[p] = run.digest \/ (lost /\ archive[p] = None)
          /\ "checksum" \in run.missing => checksum[p] = None
          /\ checksum[p] \in {run.digest, None}
      BY <1>0, <1>7 DEF IInv, Inv, Uploading
    <3>2. CASE kind = "archive"
      <4>1. "archive" \in run.missing /\ "archive" \notin run'.missing
        BY <1>0, <2>1, <3>2 DEF NextUpload
      <4>2. checksum' = checksum BY <1>1, <3>2
      <4>3. archive'[p] = run.digest \/ (lost' /\ archive'[p] = None)
        BY <1>1, <1>2, <1>7, <3>1, <3>2, <4>1 DEF IInv, TypeOK
      <4>. QED BY <1>0, <2>1, <2>5, <3>1, <4>1, <4>2, <4>3 DEF Uploading
    <3>3. CASE kind = "checksum"
      <4>1. "archive" \notin run.missing /\ archive' = archive /\ "checksum" \notin run'.missing
        BY <1>1, <2>1, <3>3 DEF NextUpload
      <4>2. checksum'[p] \in {run.digest, None}
        BY <1>1, <1>2, <3>1, <3>3 DEF IInv, TypeOK
      <4>. QED BY <1>0, <1>1, <2>1, <2>5, <3>1, <4>1, <4>2 DEF Uploading
    <3>. QED BY <3>2, <3>3 DEF NextUpload
  <2>7. AllVerified' /\ NotesKnown'
    BY <2>1, <2>5 DEF AllVerified, NotesKnown
  <2>8. TagKnown'
    BY <1>0, <1>7, <2>1, <2>5 DEF TagKnown, IInv, Inv
  <2>. QED BY <1>4, <2>4, <2>6, <2>7, <2>8 DEF IInv, Inv
<1>. QED BY <1>5, <1>6, <1>7

LEMMA UploadsDoneKeeps ==
    ASSUME IInv, UploadsDone
    PROVE  IInv'
<1>0. /\ run \in RunState /\ run.at = "upload" /\ run.missing = {}
      /\ UNCHANGED <<archive, checksum, goTag, notes, lost>>
  BY RunTyped DEF IInv, UploadsDone, AtStep, assets
<1>1. CASE IsOptional(run)
  <2>1. run' = [run EXCEPT !.at = "recheck"] BY <1>1 DEF UploadsDone
  <2>2. run' \in RunState BY <1>0, <2>1 DEF RunState, Steps
  <2>3. TypeOK' BY <1>0, <2>2 DEF IInv, TypeOK
  <2>4. run'.at = "recheck" /\ run'.i = run.i BY <1>0, <2>1 DEF RunState
  <2>5. InOrder' /\ Uploading' /\ NotesKnown'
    BY <2>4 DEF InOrder, Uploading, NotesKnown
  <2>6. AllVerified' /\ TagKnown'
    BY <1>0, <1>1, <2>4 DEF AllVerified, TagKnown, IsOptional, Verified, IInv, Inv
  <2>. QED BY <2>3, <2>5, <2>6 DEF IInv, Inv
<1>2. CASE ~IsOptional(run)
  <2>1. run' = [run EXCEPT !.at = "platform", !.i = @ + 1] BY <1>2 DEF UploadsDone
  <2>2. run.i \in Numbers /\ Platform(run) = Required[run.i]
    BY <1>0, <1>2, AtPlatform DEF IInv
  <2>3. run' \in RunState
    <3>1. run.i + 1 \in 1..(Len(Required) + 1)
      BY <2>2, NumbersTyped DEF Numbers
    <3>. QED BY <1>0, <2>1, <3>1 DEF RunState, Steps
  <2>4. TypeOK' BY <1>0, <2>3 DEF IInv, TypeOK
  <2>5. /\ run'.at = "platform" /\ run'.i = run.i + 1 /\ run'.named = run.named
        /\ run'.existing = run.existing
    BY <1>0, <2>1 DEF RunState
  <2>6. Coherent(Required[run.i])
    BY <1>0, <1>2, <2>2 DEF Coherent, Attached, Verified, Uploading, IInv, Inv
  <2>7. \A j \in Numbers : /\ j < run.i + 1 => j < run.i \/ j = run.i
                           /\ j >= run.i + 1 => j > run.i
    BY <2>2, NumbersTyped DEF Numbers
  <2>8. \A j \in Numbers : /\ j < run.i + 1 => Coherent(Required[j])
                           /\ j >= run.i + 1 => Snapshot(Required[j])
    BY <1>0, <2>6, <2>7 DEF InOrder, IInv, Inv
  <2>9. InOrder'
    <3>1. \A j \in Numbers : (Coherent(Required[j]) <=> Coherent(Required[j])')
                             /\ (Snapshot(Required[j]) <=> Snapshot(Required[j])')
      BY <1>0, <2>5 DEF Coherent, Attached, Verified, Snapshot
    <3>. QED BY <2>2, <2>5, <2>8, <3>1, NumbersTyped DEF InOrder, Numbers
  <2>10. Uploading' /\ AllVerified' /\ NotesKnown'
    BY <2>5 DEF Uploading, AllVerified, NotesKnown
  <2>11. TagKnown'
    BY <1>0, <1>2, <2>5 DEF TagKnown, IInv, Inv
  <2>. QED BY <2>4, <2>9, <2>10, <2>11 DEF IInv, Inv
<1>. QED BY <1>1, <1>2

LEMMA VerifyKeeps ==
    ASSUME IInv, Verify
    PROVE  IInv'
<1>0. /\ run \in RunState /\ run.at = "verify"
      /\ UNCHANGED <<archive, checksum, goTag, notes, lost>>
  BY RunTyped DEF IInv, Verify, AtStep, assets
<1>1. CASE \A j \in Numbers : Attached(Required[j])
  <2>1. run' = [run EXCEPT !.at = "tag"] BY <1>1 DEF Verify, Goes, Numbers
  <2>2. run' \in RunState BY <1>0, <2>1 DEF RunState, Steps
  <2>3. TypeOK' BY <1>0, <2>2 DEF IInv, TypeOK
  <2>4. run'.at = "tag" /\ run'.i = run.i /\ run'.existing = run.existing
    BY <1>0, <2>1 DEF RunState
  <2>5. IsOptional(run) /\ \A j \in Numbers : Verified(Required[j])
    BY <1>0, <1>1 DEF AllVerified, Coherent, IInv, Inv
  <2>6. AllVerified'
    BY <1>0, <2>4, <2>5 DEF AllVerified, Verified, IsOptional
  <2>7. InOrder' /\ Uploading' /\ NotesKnown'
    BY <2>4 DEF InOrder, Uploading, NotesKnown
  <2>8. TagKnown' BY <1>0, <2>4 DEF TagKnown, IInv, Inv
  <2>. QED BY <2>3, <2>6, <2>7, <2>8 DEF IInv, Inv
<1>2. CASE ~(\A j \in Numbers : Attached(Required[j]))
  <2>1. run' = [run EXCEPT !.at = "refused"] BY <1>2 DEF Verify, Ends, Numbers
  <2>2. TypeOK' /\ run'.at = "refused" BY <1>0, <2>1 DEF IInv, TypeOK, RunState
  <2>. QED BY <2>2, EndedKeeps
<1>. QED BY <1>1, <1>2

LEMMA CreateTagKeeps ==
    ASSUME IInv, CreateTag
    PROVE  IInv'
<1>0. /\ run \in RunState /\ run.at = "tag" /\ run.existing = goTag /\ goTag \in {None, Revision}
      /\ UNCHANGED <<archive, checksum, notes, lost>>
  BY RunTyped DEF IInv, Inv, TagKnown, CreateTag, AtStep, assets
<1>1. goTag' = Revision BY <1>0, RevisionAssumption DEF CreateTag
<1>2. PICK at \in {"optional", "stopped"} : run' = [run EXCEPT !.at = at]
  BY <1>1 DEF CreateTag, Goes, Ends
<1>3. run' \in RunState BY <1>0, <1>2 DEF RunState, Steps
<1>4. TypeOK' BY <1>0, <1>1, <1>3 DEF IInv, TypeOK
<1>5. run'.at = at /\ run'.i = run.i BY <1>0, <1>2 DEF RunState
<1>6. InOrder' /\ Uploading' /\ NotesKnown'
  BY <1>2, <1>5 DEF InOrder, Uploading, NotesKnown
<1>7. AllVerified'
  BY <1>0, <1>2, <1>5 DEF AllVerified, Verified, IsOptional, IInv, Inv
<1>8. TagKnown' BY <1>1, <1>2, <1>5 DEF TagKnown
<1>. QED BY <1>4, <1>6, <1>7, <1>8 DEF IInv, Inv

\* The steps of the optional part change nothing that the required part has left.
LEMMA OptionalKeeps ==
    ASSUME IInv, run \in RunState,
           run.at \in {"optional", "recheck", "cleanup", "notes"},
           TypeOK', run'.i = run.i,
           run'.at \in {"upload", "recheck", "cleanup", "notes", "done"},
           goTag' = goTag,
           \A j \in Numbers : /\ archive'[Required[j]] = archive[Required[j]]
                             /\ checksum'[Required[j]] = checksum[Required[j]],
           NotesKnown'
    PROVE  IInv'
<1>1. IsOptional(run) /\ IsOptional(run)'
  BY DEF IInv, Inv, AllVerified, IsOptional
<1>2. \A j \in Numbers : Verified(Required[j]) /\ Verified(Required[j])'
  BY DEF IInv, Inv, AllVerified, Verified
<1>3. \A j \in Numbers : j < run'.i
  BY <1>1, AtOptional
<1>4. InOrder'
  BY <1>2, <1>3, NumbersTyped DEF InOrder, Coherent, Numbers, RunState
<1>5. Uploading' BY <1>1 DEF Uploading
<1>6. AllVerified' BY <1>1, <1>2 DEF AllVerified
<1>7. TagKnown' BY <1>1 DEF TagKnown, IInv, Inv
<1>. QED BY <1>4, <1>5, <1>6, <1>7 DEF IInv, Inv

LEMMA OptionalPlatformKeeps ==
    ASSUME IInv, OptionalPlatform
    PROVE  IInv'
<1>0. /\ run \in RunState /\ run.at = "optional"
      /\ UNCHANGED <<archive, checksum, goTag, notes, lost>>
  BY RunTyped DEF IInv, OptionalPlatform, AtStep, assets
<1>1. IsOptional(run) BY <1>0 DEF IInv, Inv, AllVerified
<1>2. /\ run' \in RunState /\ run'.i = run.i
      /\ run'.at \in {"upload", "cleanup", "notes"}
      /\ run'.at = "notes" => run'.status # "published"
  <2>. DEFINE source == IF archive[Optional] # None THEN archive[Optional] ELSE run.local[Optional]
              lacking == {kind \in {"archive", "checksum"} :
                     (IF kind = "archive" THEN archive[Optional] ELSE checksum[Optional]) = None}
              status == IF checksum[Optional] = None THEN "absent" ELSE "incomplete"
  <2>1. CASE source \in Sound /\ Uploads(source, lacking)
    BY <1>0, <2>1, BuildsAssumption DEF Uploads, RunState, Steps
  <2>2. CASE run' = [run EXCEPT !.at = "notes", !.status = status]
    BY <1>0, <2>2 DEF RunState, Steps
  <2>3. CASE Fails
    BY <1>0, <1>1, <2>3 DEF Fails, RunState, Steps
  <2>. QED BY <2>1, <2>2, <2>3 DEF OptionalPlatform
<1>3. TypeOK' BY <1>0, <1>2 DEF IInv, TypeOK
<1>4. NotesKnown' BY <1>2 DEF NotesKnown
<1>. QED BY <1>0, <1>2, <1>3, <1>4, OptionalKeeps

LEMMA RecheckKeeps ==
    ASSUME IInv, Recheck
    PROVE  IInv'
<1>0. /\ run \in RunState /\ run.at = "recheck"
      /\ UNCHANGED <<archive, checksum, goTag, notes, lost>>
  BY RunTyped DEF IInv, Recheck, AtStep, assets
<1>1. IsOptional(run) BY <1>0 DEF IInv, Inv, AllVerified
<1>2. /\ run' \in RunState /\ run'.i = run.i
      /\ run'.at \in {"cleanup", "notes"}
      /\ run'.at = "notes" => Rechecked
  <2>1. CASE Rechecked /\ run' = [run EXCEPT !.at = "notes", !.status = "published"]
    BY <1>0, <2>1 DEF RunState, Steps
  <2>2. CASE Fails
    BY <1>0, <1>1, <2>2 DEF Fails, RunState, Steps
  <2>. QED BY <2>1, <2>2 DEF Recheck
<1>3. TypeOK' BY <1>0, <1>2 DEF IInv, TypeOK
<1>4. NotesKnown' BY <1>0, <1>2 DEF NotesKnown, Rechecked, Verified
<1>. QED BY <1>0, <1>2, <1>3, <1>4, OptionalKeeps

LEMMA CleanupKeeps ==
    ASSUME IInv, Cleanup
    PROVE  IInv'
<1>0. /\ run \in RunState /\ run.at = "cleanup" /\ UNCHANGED <<goTag, notes, lost>>
  BY RunTyped DEF IInv, Cleanup, AtStep
<1>1. /\ archive' \in {archive, [archive EXCEPT ![Optional] = None]}
      /\ checksum' \in {checksum, [checksum EXCEPT ![Optional] = None]}
  BY DEF Cleanup, assets
<1>2. /\ run' \in RunState /\ run'.i = run.i
      /\ run'.at \in {"cleanup", "notes"}
      /\ run'.at = "notes" => run'.status = "skipped"
  <2>1. CASE run' = [run EXCEPT !.missing = @ \ {"archive"}]
    BY <1>0, <2>1 DEF RunState
  <2>2. CASE run' = [run EXCEPT !.at = "notes", !.status = "skipped"]
    BY <1>0, <2>2 DEF RunState, Steps
  <2>. QED BY <2>1, <2>2 DEF Cleanup
<1>3. TypeOK' BY <1>0, <1>1, <1>2 DEF IInv, TypeOK
<1>4. \A j \in Numbers : /\ archive'[Required[j]] = archive[Required[j]]
                        /\ checksum'[Required[j]] = checksum[Required[j]]
  BY <1>1, NumbersTyped DEF IInv, TypeOK
<1>5. NotesKnown' BY <1>2 DEF NotesKnown
<1>. QED BY <1>0, <1>2, <1>3, <1>4, <1>5, OptionalKeeps

LEMMA EditNotesKeeps ==
    ASSUME IInv, EditNotes
    PROVE  IInv'
<1>0. /\ run \in RunState /\ run.at = "notes"
      /\ UNCHANGED <<archive, checksum, goTag, lost>>
      /\ run' = [run EXCEPT !.at = "done"] /\ notes' = Announced
  BY RunTyped DEF IInv, EditNotes, AtStep, Ends, assets
<1>1. run' \in RunState BY <1>0 DEF RunState, Steps
<1>2. run'.at = "done" /\ run'.i = run.i /\ run'.status = run.status
  BY <1>0 DEF RunState
<1>3. notes' \subseteq {"go", "windows"} /\ ("windows" \in notes' <=> run.status = "published")
  BY <1>0 DEF Announced, IInv, TypeOK
<1>4. TypeOK' BY <1>0, <1>1, <1>3 DEF IInv, TypeOK
<1>5. NotesKnown'
  BY <1>0, <1>2, <1>3 DEF NotesKnown, Verified, IInv, Inv
<1>. QED BY <1>0, <1>2, <1>4, <1>5, OptionalKeeps

LEMMA StepKeeps == IInv /\ [Next]_vars => IInv'
<1>. SUFFICES ASSUME IInv, [Next]_vars PROVE IInv'
  OBVIOUS
<1>1. CASE UNCHANGED vars
  BY <1>1 DEF vars, assets, IInv, Inv, TypeOK, InOrder, Uploading, AllVerified, TagKnown,
     NotesKnown, Coherent, Attached, Verified, Snapshot, IsOptional, Platform
<1>2. CASE Next
  BY <1>2, BeginKeeps, StopKeeps, RequiredPlatformKeeps, UploadKeeps, UploadsDoneKeeps,
     VerifyKeeps, CreateTagKeeps, OptionalPlatformKeeps, RecheckKeeps, CleanupKeeps,
     EditNotesKeeps DEF Next, RunStep
<1>. QED BY <1>1, <1>2

-----------------------------------------------------------------------------
(* The theorems.                                                           *)

THEOREM Invariance == Spec => []IInv
BY InitHolds, StepKeeps, PTL DEF Spec

\* The release and the run under way have their types in every reachable state.
THEOREM TypeCorrect == Spec => []TypeOK
<1>1. IInv => TypeOK BY DEF IInv
<1>. QED BY <1>1, Invariance, PTL

\* A run that ends well leaves a tagged release with every required pair verified,
\* and notes that list Windows only with its pair verified (publish, to its return).
THEOREM DoneRunsAreComplete == Spec => []DoneIsComplete
<1>1. IInv => DoneIsComplete
  BY DEF IInv, Inv, DoneIsComplete, AtStep, AllVerified, TagKnown, NotesKnown, Numbers
<1>. QED BY <1>1, Invariance, PTL

\* The Go tag is created over verified pairs only (publish, lines 224 to 231).
THEOREM TagsAreForCompleteReleases == Spec => TagsCompleteReleases
<1>1. ASSUME IInv, [Next]_vars
      PROVE  [goTag' # goTag => \A i \in 1..Len(Required) : Verified(Required[i])]_vars
  <2>. SUFFICES ASSUME goTag' # goTag
                PROVE  \A i \in 1..Len(Required) : Verified(Required[i])
    OBVIOUS
  <2>1. CreateTag
    BY <1>1 DEF Next, RunStep, Begin, Stop, RequiredPlatform, Upload, UploadsDone, Verify,
       OptionalPlatform, Recheck, Cleanup, EditNotes, vars
  <2>. QED BY <1>1, <2>1 DEF CreateTag, AtStep, IInv, Inv, AllVerified, Numbers
<1>. QED BY <1>1, Invariance, PTL DEF Spec, TagsCompleteReleases

\* Wherever a run is cut off, a release a rerun could complete stays one, unless an
\* archive is lost (the order of the uploads, publish lines 218 to 222).
THEOREM RunsKeepReleasesRepairable == Spec => StaysRepairable
<1>1. ASSUME IInv, [Next]_vars
      PROVE  [Repairable /\ ~lost' => Repairable']_vars
  <2>. SUFFICES ASSUME Repairable, ~lost' PROVE Repairable'
    OBVIOUS
  <2>1. CASE UNCHANGED <<archive, checksum>>
    BY <2>1 DEF Repairable
  <2>2. CASE Cleanup
    <3>1. \A j \in Numbers : /\ archive'[Required[j]] = archive[Required[j]]
                            /\ checksum'[Required[j]] = checksum[Required[j]]
      BY <1>1, <2>2, NumbersTyped DEF Cleanup, assets, IInv, TypeOK
    <3>. QED BY <3>1 DEF Repairable, Numbers
  <2>3. CASE Upload
    <3>1. run \in RunState /\ run.at = "upload"
      BY <1>1, <2>3, RunTyped DEF IInv, Upload, AtStep
    <3>. DEFINE p == Platform(run)
                kind == NextUpload
    <3>2. /\ archive' \in {archive, [archive EXCEPT ![p] = run.local[p]]}
          /\ checksum' \in {checksum, [checksum EXCEPT ![p] = run.digest]}
          /\ lost => lost'
          /\ archive' # archive => kind = "archive"
          /\ checksum' # checksum => kind = "checksum"
      BY <2>3 DEF Upload
    <3>3. CASE IsOptional(run)
      <4>1. \A j \in Numbers : /\ archive'[Required[j]] = archive[Required[j]]
                              /\ checksum'[Required[j]] = checksum[Required[j]]
        BY <1>1, <3>1, <3>2, <3>3, AtOptional, NumbersTyped DEF IInv, TypeOK
      <4>. QED BY <4>1 DEF Repairable, Numbers
    <3>4. CASE ~IsOptional(run)
      <4>1. p \in Platforms BY <1>1, <3>1, <3>4, AtPlatform DEF IInv
      <4>2. /\ run.digest \in Sound
            /\ "archive" \in run.missing =>
                   archive[p] = None /\ checksum[p] = None /\ run.digest = run.local[p]
            /\ "archive" \notin run.missing => archive[p] = run.digest \/ (lost /\ archive[p] = None)
            /\ checksum[p] \in {run.digest, None}
        BY <1>1, <3>1, <3>4 DEF IInv, Inv, Uploading
      <4>3. archive'[p] \in Sound \cup {None} /\ checksum'[p] \in {archive'[p], None}
        <5>1. CASE kind = "archive"
          BY <1>1, <3>2, <4>1, <4>2, <5>1 DEF NextUpload, IInv, TypeOK
        <5>2. CASE kind = "checksum"
          BY <1>1, <3>2, <4>1, <4>2, <5>2 DEF NextUpload, IInv, TypeOK
        <5>. QED BY <5>1, <5>2 DEF NextUpload
      <4>4. \A q \in Platforms \ {p} : archive'[q] = archive[q] /\ checksum'[q] = checksum[q]
        BY <1>1, <3>2 DEF IInv, TypeOK
      <4>. HIDE DEF p
      <4>. QED BY <4>3, <4>4, NumbersTyped DEF Repairable, Numbers
    <3>. QED BY <3>3, <3>4
  <2>4. UNCHANGED <<archive, checksum>> \/ Cleanup \/ Upload
    BY <1>1 DEF Next, RunStep, Begin, Stop, RequiredPlatform, UploadsDone, Verify,
       CreateTag, OptionalPlatform, Recheck, EditNotes, vars, assets
  <2>. QED BY <2>1, <2>2, <2>3, <2>4
<1>. QED BY <1>1, Invariance, PTL DEF Spec, StaysRepairable
=============================================================================
