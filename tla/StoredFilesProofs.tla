-------------------------- MODULE StoredFilesProofs --------------------------
(* Theorems about StoredFiles for any files, scans, orders and submissions. *)
EXTENDS StoredFiles, TLAPS

-----------------------------------------------------------------------------
(* The inductive invariant *)

(* A scan in progress has a file.                                          *)
ScanHasFile == \A s \in Scanners : ~ScannerAt(s, "idle") => scanning[s].file \in Files

(* Only uploads lapse, are cleaned up and attached; only evidence is listed. *)
KindsApart ==
    /\ \A f \in Files : f \in lapsed \/ cleaning[f] # "no" => kind = "UPLOAD"
    /\ \A o \in PhotoOrders : attaching[o] # NoFile => kind = "UPLOAD"
    /\ attached # {} => kind = "UPLOAD"
    /\ listed # {} => kind = "EVIDENCE"

FilesInv == FilesTypeOK /\ ScanHasFile /\ KindsApart /\ ServedOnlyClean

ScannerType == [at : {"idle", "scan", "clean", "infected", "remove", "failed"}, file : Files \cup {NoFile}]

-----------------------------------------------------------------------------
(* Type correctness *)

LEMMA FilesTypeInit == FilesInit => FilesTypeOK
<1> SUFFICES ASSUME FilesInit PROVE FilesTypeOK
  OBVIOUS
<1> USE FilesAssumption DEF FilesInit
<1>1. scan \in [Files -> [status : ScanStatus, attempts : 0..MaxAttempts]]
  BY DEF ScanStatus
<1>2. scanning \in [Scanners -> ScannerType]
  BY DEF ScannerType, NotScanning
<1>3. cleaning \in [Files -> {"no", "read", "removed"}]
  OBVIOUS
<1>4. attaching \in [PhotoOrders -> Files \cup {NoFile}]
  OBVIOUS
<1>5. submitting \in [Submitters -> {"idle", "create", "update"}]
  OBVIOUS
<1>6. /\ kind \in FileKinds /\ onDisk \subseteq Files /\ lapsed \subseteq Files /\ listed \subseteq Files
      /\ attached \subseteq PhotoOrders \X Files /\ refuted \subseteq Files /\ overdue \subseteq Files
      /\ application \in {"NONE", "ACTIVE", "REJECTED"} \cup InReview
  OBVIOUS
<1> QED
  BY <1>1, <1>2, <1>3, <1>4, <1>5, <1>6 DEF FilesTypeOK, ScannerType

(* A scan that goes on, or ends, is well typed and keeps its file.         *)
LEMMA ScannerTypes ==
    ASSUME FilesTypeOK, ScanHasFile, NEW s \in Scanners
    PROVE  /\ \A statement \in {"scan", "clean", "infected", "remove", "failed"} :
                 ~ScannerAt(s, "idle") /\ ScanGoTo(s, statement)
                     => scanning' \in [Scanners -> ScannerType] /\ ScanHasFile'
           /\ ScanEnds(s) => scanning' \in [Scanners -> ScannerType] /\ ScanHasFile'
<1>1. scanning \in [Scanners -> ScannerType]
  BY DEF FilesTypeOK, ScannerType
<1>2. NotScanning \in ScannerType
  BY DEF NotScanning, ScannerType
<1>3. \A statement \in {"scan", "clean", "infected", "remove", "failed"} :
         [scanning[s] EXCEPT !.at = statement] \in ScannerType
  BY <1>1 DEF ScannerType
<1>4. ASSUME ScanEnds(s) PROVE scanning' \in [Scanners -> ScannerType] /\ ScanHasFile'
  BY <1>1, <1>2, <1>4 DEF ScanEnds, ScanHasFile, ScannerAt, NotScanning
<1>5. ASSUME NEW statement \in {"scan", "clean", "infected", "remove", "failed"},
             ~ScannerAt(s, "idle"), ScanGoTo(s, statement)
      PROVE  scanning' \in [Scanners -> ScannerType] /\ ScanHasFile'
  <2>1. scanning' \in [Scanners -> ScannerType]
    BY <1>1, <1>3, <1>5 DEF ScanGoTo
  <2>2. scanning[s].file \in Files
    BY <1>5 DEF ScanHasFile
  <2> QED  BY <1>1, <1>5, <2>1, <2>2 DEF ScanGoTo, ScanHasFile, ScannerAt, ScannerType
<1> QED
  BY <1>4, <1>5

(* A file that gets another status is as well typed as it was.             *)
LEMMA ScanTypes ==
    ASSUME FilesTypeOK, NEW f, NEW status \in ScanStatus
    PROVE  [scan EXCEPT ![f].status = status] \in [Files -> [status : ScanStatus, attempts : 0..MaxAttempts]]
<1>1. \A g \in Files : [scan[g] EXCEPT !.status = status] \in [status : ScanStatus, attempts : 0..MaxAttempts]
  BY DEF FilesTypeOK
<1>2. scan \in [Files -> [status : ScanStatus, attempts : 0..MaxAttempts]]
  BY DEF FilesTypeOK
<1> QED
  BY <1>1, <1>2

LEMMA FilesTypeStep ==
    FilesTypeOK /\ ScanHasFile /\ [FilesNext]_fileVars => FilesTypeOK' /\ ScanHasFile'
<1> SUFFICES ASSUME FilesTypeOK, ScanHasFile, [FilesNext]_fileVars PROVE FilesTypeOK' /\ ScanHasFile'
  OBVIOUS
<1> DEFINE ScanType == [Files -> [status : ScanStatus, attempts : 0..MaxAttempts]]
<1>0. /\ scan \in ScanType /\ scanning \in [Scanners -> ScannerType]
      /\ (UNCHANGED scanning => ScanHasFile')
      /\ \A f : Marked(f, "CLEAN") \in ScanType /\ Marked(f, "INFECTED") \in ScanType
                   /\ Marked(f, "SCAN_FAILED") \in ScanType
      /\ \A f : /\ [scan EXCEPT ![f].status = "SAVED"] \in ScanType
                /\ [scan EXCEPT ![f].status = "PENDING_SCAN"] \in ScanType
                /\ [scan EXCEPT ![f].status = "SCAN_FAILED"] \in ScanType
                /\ [scan EXCEPT ![f].status = "GONE"] \in ScanType
  <2>1. scan \in ScanType /\ scanning \in [Scanners -> ScannerType]
    BY DEF FilesTypeOK, ScannerType
  <2>2. UNCHANGED scanning => ScanHasFile'
    BY DEF ScanHasFile, ScannerAt
  <2>3. ASSUME NEW f, NEW status \in {"CLEAN", "INFECTED", "SCAN_FAILED"}
        PROVE  Marked(f, status) \in ScanType
    BY <2>1, ScanTypes DEF Marked, ScanStatus
  <2>4. ASSUME NEW f, NEW status \in {"SAVED", "PENDING_SCAN", "SCAN_FAILED", "GONE"}
        PROVE  [scan EXCEPT ![f].status = status] \in ScanType
    BY ScanTypes DEF ScanStatus
  <2> HIDE DEF ScanType
  <2> QED  BY <2>1, <2>2, <2>3, <2>4
<1> USE DEF scanVars, attachVars, reviewVars
<1>1. CASE UNCHANGED fileVars
  BY <1>0, <1>1 DEF fileVars, FilesTypeOK
<1>2. ASSUME NEW f \in Files, Save(f) \/ InsertRow(f) PROVE FilesTypeOK' /\ ScanHasFile'
  <2> HIDE DEF ScanType
  <2>1. scan' \in ScanType
    BY <1>0, <1>2 DEF Save, InsertRow
  <2> QED  BY <1>0, <1>2, <2>1 DEF Save, InsertRow, FilesTypeOK, ScanType
<1>3. ASSUME NEW f \in Files, NEW s \in Scanners, Claim(s, f) PROVE FilesTypeOK' /\ ScanHasFile'
  <2>1. scan[f].attempts + 1 \in 0..MaxAttempts
    BY <1>0, <1>3, FilesAssumption DEF Claim, Claimable
  <2>2. scan' \in ScanType
    BY <1>0, <1>3, <2>1 DEF Claim, ScanStatus
  <2>3. scanning' \in [Scanners -> ScannerType] /\ ScanHasFile'
    BY <1>0, <1>3 DEF Claim, ScannerType, ScanHasFile, ScannerAt
  <2> QED  BY <1>3, <2>2, <2>3 DEF Claim, FilesTypeOK, ScannerType
<1>4. ASSUME NEW s \in Scanners, ScannerStep(s) \/ ScannerDies(s) PROVE FilesTypeOK' /\ ScanHasFile'
  <2>1. scanning' \in [Scanners -> ScannerType] /\ ScanHasFile'
    <3>1. CASE Scan(s)
      BY <3>1, ScannerTypes DEF Scan, ScannerAt
    <3>2. CASE MarkClean(s) \/ RemoveInfected(s) \/ MarkFailed(s) \/ ScannerDies(s)
      BY <3>2, ScannerTypes DEF MarkClean, RemoveInfected, MarkFailed, ScannerDies
    <3>3. CASE MarkInfected(s)
      BY <3>3, ScannerTypes DEF MarkInfected, ScannerAt
    <3> QED  BY <1>4, <3>1, <3>2, <3>3 DEF ScannerStep
  <2>2. scan' \in ScanType
    <3> HIDE DEF ScanType
    <3> QED
      BY <1>0, <1>4 DEF ScannerStep, Scan, MarkClean, MarkInfected, RemoveInfected, MarkFailed, ScannerDies
  <2>3. ~ScannerAt(s, "idle") /\ scanning[s].file \in Files
    BY <1>4 DEF ScannerStep, Scan, MarkClean, MarkInfected, RemoveInfected, MarkFailed, ScannerDies,
                ScannerAt, ScanHasFile
  <2>4. onDisk' \subseteq Files /\ listed' \subseteq Files /\ refuted' \subseteq Files
    BY <1>4, <2>3 DEF ScannerStep, Scan, MarkClean, MarkInfected, RemoveInfected, RemovedBy, MarkFailed,
                      ScannerDies, FilesTypeOK
  <2>5. UNCHANGED <<kind, lapsed, cleaning, attaching, attached, overdue, application, submitting>>
    BY <1>4 DEF ScannerStep, Scan, MarkClean, MarkInfected, RemoveInfected, MarkFailed, ScannerDies
  <2> QED  BY <2>1, <2>2, <2>4, <2>5 DEF FilesTypeOK, ScannerType
<1>5. ASSUME NEW f \in Files, LeaseExpires(f) \/ PurgeTerminal(f) \/ PurgeConsumed(f) \/ Lapse(f)
      PROVE  FilesTypeOK' /\ ScanHasFile'
  <2> HIDE DEF ScanType
  <2>1. scan' \in ScanType
    BY <1>0, <1>5 DEF LeaseExpires, PurgeTerminal, PurgeConsumed, Lapse
  <2> QED
    BY <1>0, <1>5, <2>1 DEF LeaseExpires, PurgeTerminal, PurgeConsumed, Lapse, FilesTypeOK, ScanType
<1>6. ASSUME NEW f \in Files, Cleanup(f) \/ CleanupDies(f) PROVE FilesTypeOK' /\ ScanHasFile'
  <2> HIDE DEF ScanType
  <2>1. scan' \in ScanType
    BY <1>0, <1>6 DEF Cleanup, CleanupReads, CleanupRemoves, CleanupDeletes, CleanupDies
  <2> QED
    BY <1>0, <1>6, <2>1
       DEF Cleanup, CleanupReads, CleanupRemoves, CleanupDeletes, CleanupDies, FilesTypeOK, ScanType
<1>7. ASSUME NEW o \in PhotoOrders, NEW f \in Files, BeginAttach(o, f) PROVE FilesTypeOK' /\ ScanHasFile'
  BY <1>0, <1>7 DEF BeginAttach, FilesTypeOK
<1>8. ASSUME NEW o \in PhotoOrders, Attach(o) PROVE FilesTypeOK' /\ ScanHasFile'
  <2>1. /\ attaching[o] \in Files
        /\ attaching' = [attaching EXCEPT ![o] = NoFile]
        /\ attached' \in {attached, attached \cup {<<o, attaching[o]>>}}
        /\ overdue' \in {overdue, overdue \cup {attaching[o]}}
        /\ UNCHANGED <<kind, scan, onDisk, scanning, refuted, lapsed, cleaning, listed, application, submitting>>
    BY <1>8 DEF Attach
  <2>2. attaching' \in [PhotoOrders -> Files \cup {NoFile}]
    BY <2>1 DEF FilesTypeOK
  <2>3. attached' \subseteq PhotoOrders \X Files /\ overdue' \subseteq Files
    BY <2>1 DEF FilesTypeOK
  <2>4. ScanHasFile'
    BY <1>0, <2>1
  <2> HIDE DEF ScanType
  <2> QED  BY <2>1, <2>2, <2>3, <2>4 DEF FilesTypeOK
<1>9. ASSUME NEW u \in Submitters, ReadApplication(u) \/ SubmitApplication(u) PROVE FilesTypeOK' /\ ScanHasFile'
  BY <1>0, <1>9 DEF ReadApplication, SubmitApplication, FilesTypeOK, InReview
<1>10. ASSUME NEW d \in {"ACTIVE", "REJECTED", "NEEDS_INFO"}, Decide(d) PROVE FilesTypeOK' /\ ScanHasFile'
  BY <1>0, <1>10 DEF Decide, FilesTypeOK, InReview
<1> QED
  BY <1>1, <1>2, <1>3, <1>4, <1>5, <1>6, <1>7, <1>8, <1>9, <1>10 DEF FilesNext

-----------------------------------------------------------------------------
(* Safety *)

(* How a step may change the status of a file.                             *)
Transition(f) ==
    LET old == Status(f)
        new == scan'[f].status
    IN  \/ new = old
        \/ old = "NONE" /\ new = "SAVED"
        \/ old = "SAVED" /\ new = "GONE"
        \/ old = "SAVED" /\ new = "PENDING_SCAN" /\ MayInsert /\ UNCHANGED application
        \/ old \in {"PENDING_SCAN", "SCAN_FAILED"} /\ new = "SCANNING" /\ UNCHANGED application
        \/ /\ old = "SCANNING" /\ new \in {"CLEAN", "INFECTED", "SCAN_FAILED"}
           /\ UNCHANGED application
        \/ new = "GONE" /\ kind = "UPLOAD"

LEMMA Transitions ==
    ASSUME FilesInv, [FilesNext]_fileVars, NEW f \in Files
    PROVE  Transition(f) /\ kind' = kind
<1> USE DEF Transition, Status, scanVars, attachVars, reviewVars
<1>0. /\ scan \in [Files -> [status : ScanStatus, attempts : 0..MaxAttempts]]
      /\ \A g, status : ([scan EXCEPT ![g].status = status])[f].status
                            = IF f = g THEN status ELSE scan[f].status
      /\ \A g, status : Marked(g, status)[f].status =
            IF f = g /\ scan[f].status = "SCANNING" THEN status ELSE scan[f].status
  <2>1. scan \in [Files -> [status : ScanStatus, attempts : 0..MaxAttempts]]
    BY DEF FilesInv, FilesTypeOK
  <2> QED  BY <2>1 DEF Marked, Marks
<1>1. CASE UNCHANGED fileVars
  BY <1>1 DEF fileVars
<1>2. ASSUME NEW g \in Files, Save(g) \/ InsertRow(g) PROVE Transition(f) /\ kind' = kind
  BY <1>0, <1>2 DEF Save, InsertRow
<1>3. ASSUME NEW g \in Files, NEW s \in Scanners, Claim(s, g) PROVE Transition(f) /\ kind' = kind
  BY <1>0, <1>3 DEF Claim, Claimable, Waiting
<1>4. ASSUME NEW s \in Scanners, ScannerStep(s) \/ ScannerDies(s) PROVE Transition(f) /\ kind' = kind
  BY <1>0, <1>4
     DEF ScannerStep, Scan, MarkClean, MarkInfected, RemoveInfected, MarkFailed, ScannerDies
<1>5. ASSUME NEW g \in Files, LeaseExpires(g) \/ PurgeTerminal(g) \/ PurgeConsumed(g) \/ Lapse(g)
      PROVE  Transition(f) /\ kind' = kind
  <2>1. Consumed(g) => kind = "UPLOAD"
    BY DEF Consumed, FilesInv, KindsApart
  <2> QED  BY <1>0, <1>5, <2>1 DEF LeaseExpires, Leased, PurgeTerminal, PurgeConsumed, Lapse
<1>6. ASSUME NEW g \in Files, Cleanup(g) \/ CleanupDies(g) PROVE Transition(f) /\ kind' = kind
  <2>1. cleaning[g] = "removed" => kind = "UPLOAD"
    BY DEF FilesInv, KindsApart
  <2> QED
    BY <1>0, <1>6, <2>1 DEF Cleanup, CleanupReads, CleanupRemoves, CleanupDeletes, CleanupDies
<1>7. ASSUME NEW o \in PhotoOrders, (\E g \in Files : BeginAttach(o, g)) \/ Attach(o)
      PROVE  Transition(f) /\ kind' = kind
  BY <1>7 DEF BeginAttach, Attach
<1>8. ASSUME NEW u \in Submitters, ReadApplication(u) \/ SubmitApplication(u)
      PROVE  Transition(f) /\ kind' = kind
  BY <1>8 DEF ReadApplication, SubmitApplication
<1>9. ASSUME NEW d \in {"ACTIVE", "REJECTED", "NEEDS_INFO"}, Decide(d) PROVE Transition(f) /\ kind' = kind
  BY <1>9 DEF Decide
<1> QED
  BY <1>1, <1>2, <1>3, <1>4, <1>5, <1>6, <1>7, <1>8, <1>9 DEF FilesNext

(* Who attaches, lists, or approves.                                       *)
AttachesAvailable ==
    \/ UNCHANGED attached
    \/ \E o \in PhotoOrders : \E f \in Files :
          attached' = attached \cup {<<o, f>>} /\ Available(f) /\ UNCHANGED scan /\ kind = "UPLOAD"
ListsClean ==
    \/ UNCHANGED listed
    \/ \E f \in Files :
          /\ kind = "EVIDENCE" /\ Status(f) = "SCANNING" /\ scan' = [scan EXCEPT ![f].status = "CLEAN"]
          /\ listed' = listed \cup {f}
ApprovesClean ==
    application' = "ACTIVE" => application = "ACTIVE" \/ (DocumentsClean /\ UNCHANGED scan)

LEMMA Promises ==
    ASSUME FilesInv, [FilesNext]_fileVars
    PROVE  AttachesAvailable /\ ListsClean /\ ApprovesClean /\ KindsApart'
<1> DEFINE Goal == AttachesAvailable /\ ListsClean /\ ApprovesClean /\ KindsApart'
<1> USE DEF scanVars, attachVars, reviewVars
<1>0. ASSUME UNCHANGED <<kind, lapsed, cleaning, attaching, attached, listed, application>> PROVE Goal
  BY <1>0 DEF FilesInv, AttachesAvailable, ListsClean, ApprovesClean, KindsApart
<1>1. CASE UNCHANGED fileVars
  BY <1>0, <1>1 DEF fileVars
<1>2. ASSUME NEW g \in Files, \/ Save(g) \/ InsertRow(g) \/ LeaseExpires(g)
                              \/ PurgeTerminal(g) \/ PurgeConsumed(g)
      PROVE  Goal
  BY <1>0, <1>2 DEF Save, InsertRow, LeaseExpires, PurgeTerminal, PurgeConsumed
<1>3. ASSUME NEW g \in Files, NEW s \in Scanners, Claim(s, g) PROVE Goal
  BY <1>0, <1>3 DEF Claim
<1>4. ASSUME NEW s \in Scanners, Scan(s) \/ MarkInfected(s) \/ RemoveInfected(s) \/ MarkFailed(s) \/ ScannerDies(s)
      PROVE  Goal
  BY <1>0, <1>4 DEF Scan, MarkInfected, RemoveInfected, MarkFailed, ScannerDies
<1>5. ASSUME NEW s \in Scanners, MarkClean(s) PROVE Goal
  <2>1. scanning[s].file \in Files
    BY <1>5 DEF MarkClean, ScannerAt, FilesInv, ScanHasFile
  <2>2. /\ UNCHANGED <<kind, lapsed, cleaning, attaching, attached, application>>
        /\ listed' = listed \/ (kind = "EVIDENCE" /\ listed' = listed \cup {scanning[s].file})
    BY <1>5 DEF MarkClean
  <2>3. ListsClean
    BY <1>5, <2>1 DEF MarkClean, Marked, Marks, ListsClean
  <2>4. KindsApart'
    BY <2>2 DEF FilesInv, KindsApart
  <2> QED  BY <2>2, <2>3, <2>4 DEF AttachesAvailable, ApprovesClean
<1>6. ASSUME NEW g \in Files, Lapse(g) \/ Cleanup(g) \/ CleanupDies(g) PROVE Goal
  <2>1. /\ UNCHANGED <<kind, attaching, attached, listed, application>>
        /\ g \in lapsed => kind = "UPLOAD"
        /\ cleaning[g] # "no" => kind = "UPLOAD"
    BY <1>6 DEF Lapse, Cleanup, CleanupReads, CleanupRemoves, CleanupDeletes, CleanupDies, FilesInv, KindsApart
  <2>2. \/ kind = "UPLOAD" \/ UNCHANGED <<lapsed, cleaning>>
    BY <1>6, <2>1 DEF Lapse, Cleanup, CleanupReads, CleanupRemoves, CleanupDeletes, CleanupDies
  <2>3. KindsApart'
    BY <2>1, <2>2 DEF FilesInv, KindsApart
  <2> QED  BY <2>1, <2>3 DEF AttachesAvailable, ListsClean, ApprovesClean
<1>7. ASSUME NEW o \in PhotoOrders, NEW g \in Files, BeginAttach(o, g) PROVE Goal
  <2>1. kind = "UPLOAD" /\ UNCHANGED <<kind, lapsed, cleaning, attached, listed, application>>
    BY <1>7 DEF BeginAttach
  <2> QED  BY <2>1 DEF FilesInv, KindsApart, AttachesAvailable, ListsClean, ApprovesClean
<1>8. ASSUME NEW o \in PhotoOrders, Attach(o) PROVE Goal
  <2>1. /\ attaching[o] \in Files /\ kind = "UPLOAD"
        /\ UNCHANGED <<kind, scan, lapsed, cleaning, listed, application>>
    BY <1>8, FilesAssumption DEF Attach, FilesInv, KindsApart
  <2>2. AttachesAvailable
    BY <1>8, <2>1 DEF Attach, AttachesAvailable
  <2> QED  BY <2>1, <2>2 DEF FilesInv, KindsApart, ListsClean, ApprovesClean
<1>9. ASSUME NEW u \in Submitters, ReadApplication(u) \/ SubmitApplication(u) PROVE Goal
  <2>1. /\ UNCHANGED <<kind, lapsed, cleaning, attaching, attached, listed>>
        /\ application' = application \/ application' = "PENDING_REVIEW"
    BY <1>9 DEF ReadApplication, SubmitApplication
  <2> QED  BY <2>1 DEF FilesInv, KindsApart, AttachesAvailable, ListsClean, ApprovesClean
<1>10. ASSUME NEW d \in {"ACTIVE", "REJECTED", "NEEDS_INFO"}, Decide(d) PROVE Goal
  <2>1. UNCHANGED <<kind, scan, lapsed, cleaning, attaching, attached, listed>> /\ DocumentsClean
    BY <1>10 DEF Decide
  <2> QED  BY <2>1 DEF FilesInv, KindsApart, AttachesAvailable, ListsClean, ApprovesClean
<1> QED
  BY <1>1, <1>2, <1>3, <1>4, <1>5, <1>6, <1>7, <1>8, <1>9, <1>10 DEF FilesNext, ScannerStep

LEMMA ServedStep == FilesInv /\ [FilesNext]_fileVars => ServedOnlyClean'
<1> SUFFICES ASSUME FilesInv, [FilesNext]_fileVars, NEW f \in Files
             PROVE  /\ Consumed(f)' => Status(f)' \in {"CLEAN", "GONE"}
                    /\ \A x, y \in attached' : x[2] = f /\ y[2] = f => x = y
                    /\ f \in listed' => Status(f)' = "CLEAN"
                    /\ kind' = "DOCUMENT" /\ application' = "ACTIVE" =>
                          Status(f)' \in {"CLEAN", "NONE", "SAVED", "GONE"}
  BY DEF ServedOnlyClean
<1>0. /\ Transition(f) /\ kind' = kind
      /\ AttachesAvailable /\ ListsClean /\ ApprovesClean /\ KindsApart'
      /\ attached \subseteq PhotoOrders \X Files
      /\ scan \in [Files -> [status : ScanStatus, attempts : 0..MaxAttempts]]
  BY Transitions, Promises DEF FilesInv, FilesTypeOK
<1>1. /\ Consumed(f) => Status(f) \in {"CLEAN", "GONE"}
      /\ \A x, y \in attached : x[2] = f /\ y[2] = f => x = y
      /\ f \in listed => Status(f) = "CLEAN"
      /\ kind = "DOCUMENT" /\ application = "ACTIVE" =>
            Status(f) \in {"CLEAN", "NONE", "SAVED", "GONE"}
  BY DEF FilesInv, ServedOnlyClean
<1>2. Consumed(f)' => Consumed(f) \/ (Available(f) /\ UNCHANGED scan)
  BY <1>0 DEF AttachesAvailable, Consumed
<1>3. Consumed(f)' => Status(f)' \in {"CLEAN", "GONE"}
  BY <1>0, <1>1, <1>2 DEF Transition, Available, Status
<1>4. \A x, y \in attached' : x[2] = f /\ y[2] = f => x = y
  <2>1. CASE UNCHANGED attached
    BY <1>1, <2>1
  <2>2. ASSUME NEW o \in PhotoOrders, NEW g \in Files, attached' = attached \cup {<<o, g>>}, ~Consumed(g)
        PROVE  \A x, y \in attached' : x[2] = f /\ y[2] = f => x = y
    <3>1. \A x \in attached : x[2] # g
      BY <1>0, <2>2 DEF Consumed
    <3> QED  BY <1>1, <2>2, <3>1
  <2> QED  BY <1>0, <2>1, <2>2 DEF AttachesAvailable, Available
<1>5. f \in listed' => Status(f)' = "CLEAN"
  <2>1. CASE f \in listed
    <3>1. kind = "EVIDENCE"
      BY <2>1 DEF FilesInv, KindsApart
    <3> QED  BY <1>0, <1>1, <2>1, <3>1 DEF Transition, Status
  <2>2. CASE f \notin listed
    BY <1>0, <2>2 DEF ListsClean, Status
  <2> QED  BY <2>1, <2>2
<1>6. kind' = "DOCUMENT" /\ application' = "ACTIVE" => Status(f)' \in {"CLEAN", "NONE", "SAVED", "GONE"}
  BY <1>0, <1>1 DEF Transition, ApprovesClean, DocumentsClean, MayInsert, InReview, Status
<1> QED
  BY <1>3, <1>4, <1>5, <1>6

LEMMA FilesInvInit == FilesInit => FilesInv
<1> SUFFICES ASSUME FilesInit PROVE ScanHasFile /\ KindsApart /\ ServedOnlyClean
  BY FilesTypeInit DEF FilesInv
<1>1. ScanHasFile /\ KindsApart
  BY DEF FilesInit, ScanHasFile, KindsApart, ScannerAt, NotScanning
<1>2. ServedOnlyClean
  BY DEF FilesInit, ServedOnlyClean, Consumed, Status
<1> QED  BY <1>1, <1>2

(* Whatever is attached, listed or approved is scanned and clean, and a    *)
(* photo belongs to one order: the trigger consume_pending_upload_for_photo, *)
(* the marks of PersistentFileScansService and the lock of the profile.    *)
THEOREM ServedFilesAreClean == FilesSpec => []ServedOnlyClean
<1>1. FilesInit => FilesInv
  BY FilesInvInit
<1>2. FilesInv /\ [FilesNext]_fileVars => FilesInv'
  BY FilesTypeStep, Promises, ServedStep DEF FilesInv
<1>3. FilesInv => ServedOnlyClean
  BY DEF FilesInv
<1> QED
  BY <1>1, <1>2, <1>3, PTL DEF FilesSpec

-----------------------------------------------------------------------------
(* What is lost *)

(* A file that is, or may become, clean while it has not lapsed.           *)
Awaited(f) ==
    /\ f \notin lapsed
    /\ \/ Status(f) \in {"SAVED", "PENDING_SCAN", "SCANNING", "CLEAN"}
       \/ Status(f) = "SCAN_FAILED" /\ scan[f].attempts < MaxAttempts

Accounted(f) == f \in onDisk \cup refuted \cup overdue

(* Whoever removes a file later removes one that is not served, or one of  *)
(* the two late steps.                                                     *)
RemoversKnow ==
    /\ \A s \in Scanners : ScannerAt(s, "remove") =>
          LET f == scanning[s].file
          IN  f \in refuted \/ (Status(f) \in {"INFECTED", "GONE"} /\ ~Consumed(f))
    /\ \A f \in Files : cleaning[f] # "no" => f \in lapsed /\ (Consumed(f) => f \in overdue)

LossInv ==
    /\ FilesInv /\ RemoversKnow
    /\ \A f \in Files : Awaited(f) \/ Consumed(f) => Accounted(f)

(* What a step may do to a file that is awaited, consumed or about to go.  *)
Arrives(f) == Awaited(f)' => Awaited(f) \/ f \in onDisk'
Consumes(f) ==
    Consumed(f)' => Consumed(f) \/ (Status(f) = "CLEAN" /\ UNCHANGED onDisk /\ (f \in lapsed => f \in overdue'))
Removes(f) ==
    f \in onDisk /\ f \notin onDisk' =>
        \/ Status(f) = "SAVED" /\ scan'[f].status = "GONE"
        \/ UNCHANGED scan /\ \E s \in Scanners : ScannerAt(s, "remove") /\ scanning[s].file = f
        \/ UNCHANGED scan /\ lapsed' = lapsed /\ cleaning[f] # "no"
        \/ Terminal(f) /\ ~Consumed(f) /\ (scan'[f] = scan[f] \/ scan'[f].status = "GONE")
Reads(f) ==
    cleaning'[f] # "no" => cleaning[f] # "no" \/ (f \in lapsed /\ ~Consumed(f) /\ UNCHANGED attached)
Refutes(s) ==
    scanning'[s].at = "remove" =>
        \/ ScannerAt(s, "remove") /\ scanning'[s].file = scanning[s].file
        \/ scanning'[s].file \in refuted'
        \/ /\ Status(scanning'[s].file) = "SCANNING" /\ scan'[scanning'[s].file].status = "INFECTED"
           /\ UNCHANGED attached
Grows == refuted \subseteq refuted' /\ overdue \subseteq overdue' /\ lapsed \subseteq lapsed'

LEMMA FileSteps ==
    ASSUME FilesInv, [FilesNext]_fileVars, NEW f \in Files
    PROVE  Arrives(f) /\ Consumes(f) /\ Removes(f) /\ Reads(f) /\ Grows
<1> DEFINE Goal == Arrives(f) /\ Consumes(f) /\ Removes(f) /\ Reads(f) /\ Grows
<1> USE DEF scanVars, attachVars, reviewVars, Status, Arrives, Consumes, Removes, Reads, Grows,
            Awaited, Consumed
<1>0. /\ scan \in [Files -> [status : ScanStatus, attempts : 0..MaxAttempts]]
      /\ cleaning \in [Files -> {"no", "read", "removed"}]
      /\ \A g, status : LET new == [scan EXCEPT ![g].status = status]
                        IN  /\ new[f].status = IF f = g THEN status ELSE scan[f].status
                            /\ new[f].attempts = scan[f].attempts
                            /\ f # g => new[f] = scan[f]
      /\ \A g, status : LET new == Marked(g, status)
                        IN  /\ new[f].status = IF f = g /\ scan[f].status = "SCANNING"
                                               THEN status ELSE scan[f].status
                            /\ new[f].attempts = scan[f].attempts
  <2>1. /\ scan \in [Files -> [status : ScanStatus, attempts : 0..MaxAttempts]]
        /\ cleaning \in [Files -> {"no", "read", "removed"}]
    BY DEF FilesInv, FilesTypeOK
  <2> QED  BY <2>1 DEF Marked, Marks
<1>1. CASE UNCHANGED fileVars
  BY <1>1 DEF fileVars
<1>2. ASSUME NEW g \in Files, Save(g) \/ InsertRow(g) PROVE Goal
  BY <1>0, <1>2 DEF Save, InsertRow
<1>3. ASSUME NEW g \in Files, NEW s \in Scanners, Claim(s, g) PROVE Goal
  BY <1>0, <1>3 DEF Claim, Claimable, Waiting
<1>4. ASSUME NEW s \in Scanners, Scan(s) \/ MarkClean(s) \/ MarkInfected(s) \/ MarkFailed(s) \/ ScannerDies(s)
      PROVE  Goal
  BY <1>0, <1>4 DEF Scan, MarkClean, MarkInfected, MarkFailed, ScannerDies
<1>5. ASSUME NEW s \in Scanners, RemoveInfected(s) PROVE Goal
  BY <1>0, <1>5 DEF RemoveInfected, RemovedBy
<1>6. ASSUME NEW g \in Files, LeaseExpires(g) \/ PurgeConsumed(g) \/ Lapse(g) PROVE Goal
  <2>1. CASE LeaseExpires(g)
    <3>1. /\ scan'[f] = scan[f] \/ (Status(f) = "SCANNING" /\ f = g)
          /\ UNCHANGED <<onDisk, lapsed, cleaning, attached, refuted, overdue>>
      BY <1>0, <2>1 DEF LeaseExpires, Leased
    <3> QED  BY <3>1
  <2>2. CASE PurgeConsumed(g)
    <3>1. /\ scan'[f] = scan[f] \/ scan'[f].status = "GONE"
          /\ UNCHANGED <<onDisk, lapsed, cleaning, attached, refuted, overdue>>
      BY <1>0, <2>2 DEF PurgeConsumed
    <3> QED  BY <3>1
  <2>3. CASE Lapse(g)
    BY <1>0, <2>3 DEF Lapse
  <2> QED  BY <1>6, <2>1, <2>2, <2>3
<1>7. ASSUME NEW g \in Files, PurgeTerminal(g) PROVE Goal
  BY <1>0, <1>7 DEF PurgeTerminal
<1>8. ASSUME NEW g \in Files, Cleanup(g) \/ CleanupDies(g) PROVE Goal
  BY <1>0, <1>8 DEF Cleanup, CleanupReads, CleanupRemoves, CleanupDeletes, CleanupDies, Expendable
<1>9. ASSUME NEW o \in PhotoOrders, NEW g \in Files, BeginAttach(o, g) PROVE Goal
  BY <1>9 DEF BeginAttach
<1>10. ASSUME NEW o \in PhotoOrders, Attach(o) PROVE Goal
  BY <1>10 DEF Attach, Available
<1>11. ASSUME NEW u \in Submitters, ReadApplication(u) \/ SubmitApplication(u) PROVE Goal
  BY <1>11 DEF ReadApplication, SubmitApplication
<1>12. ASSUME NEW d \in {"ACTIVE", "REJECTED", "NEEDS_INFO"}, Decide(d) PROVE Goal
  BY <1>12 DEF Decide
<1> QED
  BY <1>1, <1>2, <1>3, <1>4, <1>5, <1>6, <1>7, <1>8, <1>9, <1>10, <1>11, <1>12 DEF FilesNext, ScannerStep

(* Only MarkInfected sends a scan on to remove its file.                   *)
LEMMA ScanSteps ==
    ASSUME FilesInv, [FilesNext]_fileVars, NEW s \in Scanners
    PROVE  Refutes(s)
<1> USE DEF scanVars, attachVars, reviewVars, Refutes, ScannerAt
<1>0. scanning \in [Scanners -> ScannerType]
  BY DEF FilesInv, FilesTypeOK, ScannerType
<1>1. CASE UNCHANGED scanning
  BY <1>1
<1>2. ASSUME NEW t \in Scanners, NEW f \in Files, Claim(t, f) PROVE Refutes(s)
  BY <1>0, <1>2 DEF Claim
<1>3. ASSUME NEW t \in Scanners, NEW statement \in {"clean", "infected", "failed"}, ScanGoTo(t, statement)
      PROVE  Refutes(s)
  BY <1>0, <1>3 DEF ScanGoTo
<1>4. ASSUME NEW t \in Scanners, ScanEnds(t) PROVE Refutes(s)
  BY <1>0, <1>4 DEF ScanEnds, NotScanning
<1>5. ASSUME NEW t \in Scanners, ScanGoTo(t, "remove"), MarkInfected(t) PROVE Refutes(s)
  <2>1. CASE s # t
    BY <1>0, <1>5, <2>1 DEF ScanGoTo
  <2>2. CASE s = t
    <3>1. scanning'[t].file = scanning[t].file /\ scanning'[t].at = "remove"
      BY <1>0, <1>5 DEF ScanGoTo, ScannerType
    <3>2. PICK f \in Files : f = scanning[t].file
      BY <1>5 DEF MarkInfected, FilesInv, ScanHasFile
    <3>3. /\ UNCHANGED attached /\ scan' = Marked(f, "INFECTED") /\ (~Marks(f) => f \in refuted')
      <4>1. ~ScanGoTo(t, "failed")
        BY <1>0, <3>1 DEF ScanGoTo, ScannerType
      <4> QED  BY <1>5, <3>2, <4>1 DEF MarkInfected
    <3>4. Marks(f) => scan'[f].status = "INFECTED"
      BY <3>3 DEF Marked, FilesInv, FilesTypeOK
    <3> QED  BY <2>2, <3>1, <3>2, <3>3, <3>4 DEF Marks
  <2> QED  BY <2>1, <2>2
<1>6. ASSUME NEW t \in Scanners, ScannerStep(t) \/ ScannerDies(t) PROVE Refutes(s)
  <2>1. CASE Scan(t)
    BY <1>3, <2>1 DEF Scan
  <2>2. CASE MarkClean(t) \/ RemoveInfected(t) \/ MarkFailed(t) \/ ScannerDies(t)
    BY <1>4, <2>2 DEF MarkClean, RemoveInfected, MarkFailed, ScannerDies
  <2>3. CASE MarkInfected(t)
    <3>1. ScanGoTo(t, "remove") \/ ScanGoTo(t, "failed")
      BY <2>3 DEF MarkInfected
    <3> QED  BY <1>3, <1>5, <2>3, <3>1
  <2> QED  BY <1>6, <2>1, <2>2, <2>3 DEF ScannerStep
<1> QED
  <2>1. ASSUME ~UNCHANGED scanning
        PROVE  \/ \E t \in Scanners : ScannerStep(t) \/ ScannerDies(t)
               \/ \E t \in Scanners, f \in Files : Claim(t, f)
    BY <2>1 DEF FilesNext, fileVars, Save, InsertRow, LeaseExpires, Lapse, Cleanup, CleanupReads,
                CleanupRemoves, CleanupDeletes, CleanupDies, PurgeTerminal, PurgeConsumed, BeginAttach,
                Attach, ReadApplication, SubmitApplication, Decide
  <2> QED  BY <1>1, <1>2, <1>6, <2>1

(* What was accounted for stays so, and removers keep what they know.      *)
LEMMA LossStep == LossInv /\ [FilesNext]_fileVars => LossInv'
<1> SUFFICES ASSUME LossInv, [FilesNext]_fileVars PROVE LossInv'
  OBVIOUS
<1>1. FilesInv /\ FilesInv'
  BY FilesTypeStep, Promises, ServedStep DEF LossInv, FilesInv
<1>2. ASSUME NEW f \in Files
      PROVE  /\ Arrives(f) /\ Consumes(f) /\ Removes(f) /\ Reads(f) /\ Grows /\ Transition(f)
             /\ Consumed(f) => Status(f) \in {"CLEAN", "GONE"}
  BY <1>1, FileSteps, Transitions DEF FilesInv, ServedOnlyClean
<1>3. ASSUME NEW f \in Files, Awaited(f)' \/ Consumed(f)' PROVE Accounted(f)'
  <2>1. CASE f \in onDisk'
    BY <2>1 DEF Accounted
  <2>2. CASE f \notin onDisk' /\ f \in onDisk
    <3>1. Awaited(f) \/ Consumed(f)
      BY <1>2, <1>3, <2>2 DEF Arrives, Consumes
    <3>2. CASE Status(f) = "SAVED" /\ scan'[f].status = "GONE"
      BY <1>2, <1>3, <3>2 DEF Awaited, Consumes, Status
    <3>3. CASE /\ UNCHANGED scan
               /\ \E s \in Scanners : ScannerAt(s, "remove") /\ scanning[s].file = f
      <4>1. f \in refuted \/ (Status(f) \in {"INFECTED", "GONE"} /\ ~Consumed(f))
        BY <3>3 DEF LossInv, RemoversKnow
      <4> QED  BY <1>2, <3>1, <4>1 DEF Awaited, Accounted, Grows
    <3>4. CASE UNCHANGED scan /\ lapsed' = lapsed /\ cleaning[f] # "no"
      <4>1. f \in lapsed /\ (Consumed(f) => f \in overdue)
        BY <3>4 DEF LossInv, RemoversKnow
      <4> QED  BY <1>2, <3>1, <4>1 DEF Awaited, Accounted, Grows
    <3>5. CASE Terminal(f) /\ ~Consumed(f)
      <4>1. scan[f].attempts \in 0..MaxAttempts
        BY <1>1 DEF FilesInv, FilesTypeOK
      <4> QED  BY <3>1, <3>5, <4>1, FilesAssumption DEF Awaited, Terminal
    <3> QED  BY <1>2, <2>2, <3>2, <3>3, <3>4, <3>5 DEF Removes
  <2>3. CASE f \notin onDisk' /\ f \notin onDisk
    <3>1. Awaited(f) \/ Consumed(f) \/ f \in overdue'
      BY <1>2, <1>3, <2>3 DEF Arrives, Consumes, Awaited
    <3>2. Awaited(f) \/ Consumed(f) => f \in refuted \cup overdue
      BY <2>3 DEF LossInv, Accounted
    <3> QED  BY <1>2, <3>1, <3>2 DEF Accounted, Grows
  <2> QED  BY <2>1, <2>2, <2>3
<1>4. ASSUME NEW s \in Scanners, NEW f, f = scanning'[s].file, scanning'[s].at = "remove"
      PROVE  f \in refuted' \/ (scan'[f].status \in {"INFECTED", "GONE"} /\ ~Consumed(f)')
  <2>1. f \in Files
    BY <1>1, <1>4 DEF FilesInv, ScanHasFile, ScannerAt
  <2>2. Refutes(s)
    BY <1>1, ScanSteps
  <2>3. CASE ScannerAt(s, "remove") /\ f = scanning[s].file
    <3>1. f \in refuted \/ (Status(f) \in {"INFECTED", "GONE"} /\ ~Consumed(f))
      BY <2>3 DEF LossInv, RemoversKnow
    <3> QED  BY <1>2, <2>1, <3>1 DEF Grows, Consumes, Transition, Status
  <2>4. CASE Status(f) = "SCANNING" /\ scan'[f].status = "INFECTED" /\ UNCHANGED attached
    <3>1. ~Consumed(f)
      BY <1>2, <2>1, <2>4
    <3> QED  BY <2>4, <3>1 DEF Consumed
  <2> QED  BY <1>4, <2>2, <2>3, <2>4 DEF Refutes
<1>5. ASSUME NEW f \in Files, cleaning'[f] # "no" PROVE f \in lapsed' /\ (Consumed(f)' => f \in overdue')
  <2>1. CASE cleaning[f] # "no"
    <3>1. f \in lapsed /\ (Consumed(f) => f \in overdue)
      BY <2>1 DEF LossInv, RemoversKnow
    <3> QED  BY <1>2, <3>1 DEF Grows, Consumes
  <2>2. CASE f \in lapsed /\ ~Consumed(f) /\ UNCHANGED attached
    BY <1>2, <2>2 DEF Grows, Consumed
  <2> QED  BY <1>2, <1>5, <2>1, <2>2 DEF Reads
<1>6. RemoversKnow'
  BY <1>4, <1>5 DEF RemoversKnow, ScannerAt, Status
<1> QED
  BY <1>1, <1>3, <1>6 DEF LossInv

(* A served file disappears by a late step alone: an overtaken scan that   *)
(* calls it infected, or the cleanup of a photo that its order's           *)
(* transaction attached after it had lapsed. No claim, lease sweep, purge  *)
(* or removal of another file takes it.                                    *)
THEOREM OnlyLateStepsLose == FilesSpec => []LostOnlyByLateStep
<1>1. FilesInit => LossInv
  <2> SUFFICES ASSUME FilesInit PROVE LossInv
    OBVIOUS
  <2>1. FilesInv
    BY FilesInvInit
  <2>2. RemoversKnow /\ \A f \in Files : ~Awaited(f) /\ ~Consumed(f)
    BY DEF FilesInit, RemoversKnow, Awaited, Consumed, Status, ScannerAt, NotScanning
  <2> QED  BY <2>1, <2>2 DEF LossInv
<1>2. LossInv => LostOnlyByLateStep
  <2> SUFFICES ASSUME LossInv, NEW f \in Files,
                      Consumed(f) \/ f \in listed \/ (Status(f) = "CLEAN" /\ f \notin lapsed)
               PROVE  f \in onDisk \cup refuted \cup overdue
    BY DEF LostOnlyByLateStep
  <2>1. f \in listed => Status(f) = "CLEAN" /\ f \notin lapsed
    BY DEF LossInv, FilesInv, KindsApart, ServedOnlyClean
  <2> QED  BY <2>1 DEF LossInv, Awaited, Accounted
<1> QED
  BY <1>1, <1>2, LossStep, PTL DEF FilesSpec

(* Every variable of StoredFiles keeps its type; in particular no file is  *)
(* scanned more often than MaxAttempts.                                    *)
THEOREM FilesTypeCorrect == FilesSpec => []FilesTypeOK
<1>1. FilesInv /\ [FilesNext]_fileVars => FilesInv'
  BY FilesTypeStep, Promises, ServedStep DEF FilesInv
<1>2. FilesInv => FilesTypeOK
  BY DEF FilesInv
<1> QED
  BY <1>1, <1>2, FilesInvInit, PTL DEF FilesSpec
=============================================================================
