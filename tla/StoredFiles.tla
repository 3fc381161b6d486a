---------------------------- MODULE StoredFiles ----------------------------
(***************************************************************************)
(* Files that users store: the photos of an order to be (PendingUpload),   *)
(* a master's documents and the evidence of a dispute. They are scanned    *)
(* under a lease by PendingUploadsService and PersistentFileScansService,  *)
(* served once they are CLEAN, and removed by the scanner, by the cleanup  *)
(* of expired uploads or by SecurityRetentionService. A photo is attached  *)
(* by the trigger of the order's transaction, an application is approved   *)
(* on its documents. A claim may come at any time: every job may be sent   *)
(* again, by the sweep each five minutes or by the queue.                  *)
(***************************************************************************)
EXTENDS Integers, FiniteSets

CONSTANTS
    Files,
    FileKinds,     \* the kinds checked: UPLOAD, DOCUMENT, EVIDENCE
    Scanners,      \* bound: how many scans run at once
    PhotoOrders,   \* orders whose transactions attach a photo
    Submitters,    \* bound: how many submissions of the application run at once
    MaxAttempts,   \* UPLOAD_SCAN_MAX_ATTEMPTS
    NoFile

ASSUME FilesAssumption ==
    /\ FileKinds \subseteq {"UPLOAD", "DOCUMENT", "EVIDENCE"}
    /\ MaxAttempts \in Nat \ {0} /\ NoFile \notin Files

VARIABLES
    kind,         \* what the files are
    scan,         \* scanStatus, attempts; NONE without a row, SAVED before it, GONE after it
    onDisk,       \* files in the storage
    lapsed,       \* uploads with expiresAt in the past
    scanning,     \* per scanner: its file and its next statement
    cleaning,     \* per file: what cleanupExpired has done of it
    attaching,    \* per order: the photo its open transaction, begun in time, will attach
    attached,     \* OrderPhoto rows; consumedAt of the photo
    listed,       \* evidence in evidenceDocIds of its dispute
    application,  \* MasterProfile.status
    submitting,   \* submissions that have read the status
    refuted,      \* history: files a scan called infected after another had ended it
    overdue       \* history: photos attached after they had lapsed

scanVars == <<scan, onDisk, scanning, refuted>>
attachVars == <<lapsed, cleaning, attaching, attached, overdue>>
reviewVars == <<application, submitting>>
fileVars == <<kind, scanVars, attachVars, listed, reviewVars>>

-----------------------------------------------------------------------------
ScanStatus == {"NONE", "SAVED", "PENDING_SCAN", "SCANNING", "CLEAN", "INFECTED",
               "SCAN_FAILED", "GONE"}
InReview == {"PENDING_REVIEW", "NEEDS_INFO"}
NotScanning == [at |-> "idle", file |-> NoFile]
Status(f) == scan[f].status
Consumed(f) == \E o \in PhotoOrders : <<o, f>> \in attached

FilesTypeOK ==
    /\ kind \in FileKinds
    /\ scan \in [Files -> [status : ScanStatus, attempts : 0..MaxAttempts]]
    /\ onDisk \subseteq Files /\ lapsed \subseteq Files /\ listed \subseteq Files
    /\ scanning \in [Scanners -> [at : {"idle", "scan", "clean", "infected", "remove", "failed"},
                                  file : Files \cup {NoFile}]]
    /\ cleaning \in [Files -> {"no", "read", "removed"}]
    /\ attaching \in [PhotoOrders -> Files \cup {NoFile}]
    /\ attached \subseteq PhotoOrders \X Files
    /\ application \in {"NONE", "ACTIVE", "REJECTED"} \cup InReview
    /\ submitting \in [Submitters -> {"idle", "create", "update"}]
    /\ refuted \subseteq Files /\ overdue \subseteq Files

FilesInit ==
    /\ kind \in FileKinds
    /\ scan = [f \in Files |-> [status |-> "NONE", attempts |-> 0]]
    /\ onDisk = {} /\ lapsed = {} /\ listed = {} /\ attached = {}
    /\ scanning = [s \in Scanners |-> NotScanning]
    /\ cleaning = [f \in Files |-> "no"]
    /\ attaching = [o \in PhotoOrders |-> NoFile]
    /\ application = "NONE" /\ submitting = [u \in Submitters |-> "idle"]
    /\ refuted = {} /\ overdue = {}

-----------------------------------------------------------------------------
(* A file is saved, and then its row is inserted *)

Save(f) ==
    /\ Status(f) = "NONE"
    /\ kind = "DOCUMENT" => application \in InReview
    /\ scan' = [scan EXCEPT ![f].status = "SAVED"]
    /\ onDisk' = onDisk \cup {f}
    /\ UNCHANGED <<kind, scanning, refuted, attachVars, listed, reviewVars>>

\* A document is inserted under the lock of the profile, its status read again.
MayInsert == kind = "DOCUMENT" => application \in InReview

\* The row, or its file removed; a crash instead leaves the file without a row.
InsertRow(f) ==
    /\ Status(f) = "SAVED"
    /\ \/ MayInsert /\ scan' = [scan EXCEPT ![f].status = "PENDING_SCAN"] /\ UNCHANGED onDisk
       \/ scan' = [scan EXCEPT ![f].status = "GONE"] /\ onDisk' = onDisk \ {f}
       \/ scan' = [scan EXCEPT ![f].status = "GONE"] /\ UNCHANGED onDisk
    /\ UNCHANGED <<kind, scanning, refuted, attachVars, listed, reviewVars>>

-----------------------------------------------------------------------------
(* Scans *)

ScannerAt(s, statement) == scanning[s].at = statement
ScanGoTo(s, statement) == scanning' = [scanning EXCEPT ![s].at = statement]
ScanEnds(s) == scanning' = [scanning EXCEPT ![s] = NotScanning]

Waiting(f) == Status(f) \in {"PENDING_SCAN", "SCAN_FAILED"}

BugNoAttemptLimit(f) == Waiting(f) /\ ~Consumed(f) /\ f \notin lapsed
Claimable(f) ==
    /\ Waiting(f) /\ scan[f].attempts < MaxAttempts
    /\ ~Consumed(f) /\ f \notin lapsed

Claim(s, f) ==
    /\ ScannerAt(s, "idle") /\ Claimable(f)
    /\ scan' = [scan EXCEPT ![f] = [status |-> "SCANNING", attempts |-> scan[f].attempts + 1]]
    /\ scanning' = [scanning EXCEPT ![s] = [at |-> "scan", file |-> f]]
    /\ UNCHANGED <<kind, onDisk, refuted, attachVars, listed, reviewVars>>

\* The scanner is asked, or the file is missing. Two scans of a file may differ.
Scan(s) ==
    /\ ScannerAt(s, "scan")
    /\ \E verdict \in {"clean", "infected", "failed"} :
          /\ scanning[s].file \notin onDisk => verdict = "failed"
          /\ ScanGoTo(s, verdict)
    /\ UNCHANGED <<kind, scan, onDisk, refuted, attachVars, listed, reviewVars>>

\* The condition of each mark: another scan of the same file may have ended it.
Marks(f) == Status(f) = "SCANNING"
Marked(f, status) == IF Marks(f) THEN [scan EXCEPT ![f].status = status] ELSE scan

\* For evidence the same statement lists the file in its dispute.
MarkClean(s) ==
    LET f == scanning[s].file
    IN  /\ ScannerAt(s, "clean")
        /\ scan' = Marked(f, "CLEAN")
        /\ listed' = IF kind = "EVIDENCE" /\ Marks(f) THEN listed \cup {f} ELSE listed
        /\ ScanEnds(s)
        /\ UNCHANGED <<kind, onDisk, refuted, attachVars, reviewVars>>

MarkInfected(s) ==
    LET f == scanning[s].file
    IN  /\ ScannerAt(s, "infected")
        /\ \/ /\ scan' = Marked(f, "INFECTED")
              /\ refuted' = IF Marks(f) THEN refuted ELSE refuted \cup {f}
              /\ ScanGoTo(s, "remove")
           \/ UNCHANGED <<scan, refuted>> /\ ScanGoTo(s, "failed")
        /\ UNCHANGED <<kind, onDisk, attachVars, listed, reviewVars>>

\* The file goes whether the mark has matched or not. The storage may refuse.
RemovedBy(s) == onDisk \ {scanning[s].file}

RemoveInfected(s) ==
    /\ ScannerAt(s, "remove")
    /\ onDisk' \in {onDisk, RemovedBy(s)}
    /\ ScanEnds(s)
    /\ UNCHANGED <<kind, scan, refuted, attachVars, listed, reviewVars>>

MarkFailed(s) ==
    /\ ScannerAt(s, "failed")
    /\ scan' = Marked(scanning[s].file, "SCAN_FAILED")
    /\ ScanEnds(s)
    /\ UNCHANGED <<kind, onDisk, refuted, attachVars, listed, reviewVars>>

\* The process dies, or a statement fails and throws.
ScannerDies(s) ==
    /\ ~ScannerAt(s, "idle")
    /\ ScanEnds(s)
    /\ UNCHANGED <<kind, scan, onDisk, refuted, attachVars, listed, reviewVars>>

BugLeaseOfLastAttempt(f) == Status(f) = "SCANNING" /\ scan[f].attempts < MaxAttempts
Leased(f) == Status(f) = "SCANNING" /\ ~Consumed(f)

\* scanPending, five minutes after the claim, whether its scan is over or slow.
LeaseExpires(f) ==
    /\ Leased(f)
    /\ scan' = [scan EXCEPT ![f].status = "SCAN_FAILED"]
    /\ UNCHANGED <<kind, onDisk, scanning, refuted, attachVars, listed, reviewVars>>

-----------------------------------------------------------------------------
(* A photo is attached to an order, or lapses and is cleaned up *)

Lapse(f) ==
    /\ kind = "UPLOAD" /\ Status(f) \notin {"NONE", "GONE"} /\ f \notin lapsed
    /\ lapsed' = lapsed \cup {f}
    /\ UNCHANGED <<kind, scanVars, cleaning, attaching, attached, overdue, listed, reviewVars>>

\* assertAvailable and the start of the transaction, whose time it keeps.
BeginAttach(o, f) ==
    /\ kind = "UPLOAD" /\ attaching[o] = NoFile /\ ~\E g \in Files : <<o, g>> \in attached
    /\ Status(f) = "CLEAN" /\ ~Consumed(f) /\ f \notin lapsed /\ f \in onDisk
    /\ attaching' = [attaching EXCEPT ![o] = f]
    /\ UNCHANGED <<kind, scanVars, lapsed, cleaning, attached, overdue, listed, reviewVars>>

BugConsumeTwice(f) == Status(f) = "CLEAN"
Available(f) == Status(f) = "CLEAN" /\ ~Consumed(f)

\* consume_pending_upload_for_photo, or the transaction rolls back.
Attach(o) ==
    LET f == attaching[o]
    IN  /\ f \in Files
        /\ attaching' = [attaching EXCEPT ![o] = NoFile]
        /\ \/ /\ Available(f)
              /\ attached' = attached \cup {<<o, f>>}
              /\ overdue' = IF f \in lapsed THEN overdue \cup {f} ELSE overdue
           \/ UNCHANGED <<attached, overdue>>
        /\ UNCHANGED <<kind, scanVars, lapsed, cleaning, listed, reviewVars>>

BugCleanOnlyScanned(f) == Status(f) \in {"SCANNING", "CLEAN"} /\ ~Consumed(f)
BugCleanConsumed(f) == Status(f) \in {"PENDING_SCAN", "SCANNING", "CLEAN"}
Expendable(f) == Status(f) \in {"PENDING_SCAN", "SCANNING", "CLEAN"} /\ ~Consumed(f)

\* cleanupExpired reads the row, removes the file, and deletes what still matches.
CleanupReads(f) ==
    /\ f \in lapsed /\ Expendable(f) /\ cleaning[f] = "no"
    /\ cleaning' = [cleaning EXCEPT ![f] = "read"]
    /\ UNCHANGED <<kind, scanVars, lapsed, attaching, attached, overdue, listed, reviewVars>>

CleanupRemoves(f) ==
    /\ cleaning[f] = "read"
    /\ onDisk' = onDisk \ {f}
    /\ cleaning' = [cleaning EXCEPT ![f] = "removed"]
    /\ UNCHANGED <<kind, scan, scanning, refuted, lapsed, attaching, attached, overdue, listed, reviewVars>>

CleanupDeletes(f) ==
    /\ cleaning[f] = "removed"
    /\ cleaning' = [cleaning EXCEPT ![f] = "no"]
    /\ scan' = IF Expendable(f) THEN [scan EXCEPT ![f].status = "GONE"] ELSE scan
    /\ UNCHANGED <<kind, onDisk, scanning, refuted, lapsed, attaching, attached, overdue, listed, reviewVars>>

CleanupDies(f) ==
    /\ cleaning[f] # "no"
    /\ cleaning' = [cleaning EXCEPT ![f] = "no"]
    /\ UNCHANGED <<kind, scanVars, lapsed, attaching, attached, overdue, listed, reviewVars>>

-----------------------------------------------------------------------------
(* Retention, thirty days later *)

Terminal(f) ==
    \/ Status(f) = "INFECTED"
    \/ Status(f) = "SCAN_FAILED" /\ scan[f].attempts >= MaxAttempts

\* A terminal file and, for an upload, its row; nothing can change it meanwhile.
PurgeTerminal(f) ==
    /\ Terminal(f) /\ ~Consumed(f) /\ f \in onDisk
    /\ onDisk' = onDisk \ {f}
    /\ scan' = IF kind = "UPLOAD" THEN [scan EXCEPT ![f].status = "GONE"] ELSE scan
    /\ UNCHANGED <<kind, scanning, refuted, attachVars, listed, reviewVars>>

PurgeConsumed(f) ==
    /\ Consumed(f) /\ Status(f) # "GONE"
    /\ scan' = [scan EXCEPT ![f].status = "GONE"]
    /\ UNCHANGED <<kind, onDisk, scanning, refuted, attachVars, listed, reviewVars>>

-----------------------------------------------------------------------------
(* The application of a master *)

ReadApplication(u) ==
    /\ kind = "DOCUMENT" /\ submitting[u] = "idle"
    /\ application \notin {"PENDING_REVIEW", "ACTIVE"}
    /\ submitting' = [submitting EXCEPT ![u] = IF application = "NONE" THEN "create" ELSE "update"]
    /\ UNCHANGED <<kind, scanVars, attachVars, listed, application>>

\* The profile is unique, and an update asks for nothing but its id.
SubmitApplication(u) ==
    /\ submitting[u] # "idle"
    /\ application' = IF submitting[u] = "create" /\ application # "NONE" THEN application
                      ELSE "PENDING_REVIEW"
    /\ submitting' = [submitting EXCEPT ![u] = "idle"]
    /\ UNCHANGED <<kind, scanVars, attachVars, listed>>

DocumentsClean == \A f \in Files : Status(f) \in {"CLEAN", "NONE", "SAVED", "GONE"}

\* Under the lock that an insertion takes too.
Decide(decision) ==
    /\ application = "PENDING_REVIEW" /\ DocumentsClean
    /\ application' = decision
    /\ UNCHANGED <<kind, scanVars, attachVars, listed, submitting>>

-----------------------------------------------------------------------------
ScannerStep(s) ==
    Scan(s) \/ MarkClean(s) \/ MarkInfected(s) \/ RemoveInfected(s) \/ MarkFailed(s)
Cleanup(f) == CleanupReads(f) \/ CleanupRemoves(f) \/ CleanupDeletes(f)

FilesNext ==
    \/ \E f \in Files :
          \/ Save(f) \/ InsertRow(f) \/ LeaseExpires(f) \/ Lapse(f)
          \/ Cleanup(f) \/ CleanupDies(f) \/ PurgeTerminal(f) \/ PurgeConsumed(f)
          \/ \E s \in Scanners : Claim(s, f)
          \/ \E o \in PhotoOrders : BeginAttach(o, f)
    \/ \E s \in Scanners : ScannerStep(s) \/ ScannerDies(s)
    \/ \E o \in PhotoOrders : Attach(o)
    \/ \E u \in Submitters : ReadApplication(u) \/ SubmitApplication(u)
    \/ \E d \in {"ACTIVE", "REJECTED", "NEEDS_INFO"} : Decide(d)

FilesSpec == FilesInit /\ [][FilesNext]_fileVars

\* The sweep comes each five minutes and the queue works; the cleanup comes each
\* hour and is not interrupted for ever; retention comes each night.
FilesFairness ==
    /\ \A s \in Scanners : WF_fileVars(ScannerStep(s))
    /\ \A f \in Files :
          /\ WF_fileVars(\E s \in Scanners : Claim(s, f))
          /\ WF_fileVars(LeaseExpires(f))
          /\ SF_fileVars(CleanupReads(f)) /\ SF_fileVars(CleanupRemoves(f))
          /\ WF_fileVars(PurgeTerminal(f))

-----------------------------------------------------------------------------
(* Properties *)

\* What is attached to an order, listed in a dispute, or on an approved application
\* is CLEAN (or its upload's metadata has been purged since), and a photo belongs to
\* one order, whatever slow scans, sweeps, cleanups, stale submissions and rival
\* transactions ran beside it.
ServedOnlyClean ==
    \A f \in Files :
        /\ Consumed(f) => Status(f) \in {"CLEAN", "GONE"}
        /\ \A x, y \in attached : x[2] = f /\ y[2] = f => x = y
        /\ f \in listed => Status(f) = "CLEAN"
        /\ kind = "DOCUMENT" /\ application = "ACTIVE" =>
               Status(f) \in {"CLEAN", "NONE", "SAVED", "GONE"}

\* A file that is served disappears in two ways only: a scan that another one has
\* overtaken calls it infected, and its mark matches nothing; or the transaction
\* that attached it began before it lapsed and ended after the cleanup's read.
LostOnlyByLateStep ==
    \A f \in Files : Consumed(f) \/ f \in listed \/ (Status(f) = "CLEAN" /\ f \notin lapsed)
        => f \in onDisk \cup refuted \cup overdue

\* A file that waits is scanned to a verdict or out of its attempts, although
\* scans die: the lease is swept and the job sent again. Unless it lapses first.
ScansEnd ==
    \A f \in Files : Status(f) = "PENDING_SCAN" ~>
        \/ Status(f) \in {"CLEAN", "INFECTED", "GONE"} \/ f \in lapsed
        \/ Status(f) = "SCAN_FAILED" /\ scan[f].attempts = MaxAttempts

\* What nobody attached is cleaned up after it has lapsed. A scan that fails then,
\* with attempts left, keeps its file for ever: neither the cleanup nor retention
\* selects it, and no scan claims it.
LapsedIsCleaned ==
    \A f \in Files :
        f \in lapsed /\ Status(f) \in {"PENDING_SCAN", "SCANNING", "CLEAN"} /\ ~Consumed(f) ~>
        \/ f \notin onDisk \/ Consumed(f)
        \/ Status(f) = "SCAN_FAILED" /\ scan[f].attempts < MaxAttempts
=============================================================================
