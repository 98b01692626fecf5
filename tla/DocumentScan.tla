---------------------------- MODULE DocumentScan ----------------------------
(***************************************************************************)
(* The documents of one draft: DocumentsService creates an upload intent    *)
(* and confirms the upload, DocumentScanQueueService puts a job on the      *)
(* BullMQ queue, document-scan-worker gives the verdict, and submitDraft    *)
(* admits the draft once every required document is scan-clean.             *)
(*                                                                         *)
(* The row, the queue and the object store are three systems: nothing       *)
(* makes a step on two of them atomic.  The queue delivers at least once:   *)
(* a job whose worker died, or lost its lock while it went on working, is   *)
(* delivered again.  The presigned URL of an intent can be used again, so   *)
(* the file may be replaced at any time.  Client scan simulation is off (it *)
(* is what turns the queue on) and the object store is enabled.             *)
(***************************************************************************)
EXTENDS Naturals, FiniteSets

CONSTANTS
  Documents,      \* documents of the draft
  Fields,         \* required file fields of the form
  FieldOf,        \* the field each document is uploaded for (its document_code)
  Requests,       \* API handlers that can be in flight at one time
  Workers,        \* jobs the worker process runs at once (its concurrency)
  IntentLimit,    \* maxUploadIntentsPerApplicationPerHour
  Attempts,       \* attempts of a scan job (3 in enqueueScan)
  MaxStalls,      \* stalls before BullMQ fails a job (1 by default)
  MaxFaults,      \* deaths, lost locks and failed attempts in one behaviour
  MaxPuts,        \* files put into the object store in one behaviour
  None

Verdicts == {"clean", "infected", "failed"}

ASSUME FieldAssumption   == FieldOf \in [Documents -> Fields]
ASSUME BoundAssumption   == /\ {IntentLimit, Attempts} \subseteq Nat \ {0}
                            /\ {MaxStalls, MaxFaults, MaxPuts} \subseteq Nat
ASSUME NoneAssumption    == None \notin Documents \cup Workers \cup Verdicts

Row == [upload : {"absent", "intent_created", "uploaded", "rejected"},
        scan   : {"pending", "processing"} \cup Verdicts]

Job == [state  : {"none", "waiting", "active", "completed", "failed"},
        tries  : 0 .. Attempts,                \* attempts that have thrown
        stalls : 0 .. MaxStalls,
        owner  : Workers \cup {None}]          \* the worker that holds the job's lock

Request == [pc : {"idle", "create", "head", "save", "enqueue", "save_submit", "created", "save_created"},
            doc : Documents \cup {None}]

Worker == [pc : {"idle", "load", "mark", "fetch", "apply"}, doc : Documents \cup {None},
           found : Verdicts \cup {None}]       \* what scanObjectBytes said of the bytes fetched

VARIABLES
  rows,        \* the application_documents table
  bytes,       \* the object store: what scanObjectBytes would say of the file now under each key
  jobs,        \* the document-scan queue; a document's job has the id scan-<document>
  req,         \* API handlers in flight
  worker,      \* jobs being processed
  submitted,   \* how the draft has been submitted: with the documents checked, or by create()
  scanned,     \* (observation) what workers found in the files they fetched for each document
  lost,        \* (observation) documents whose job ended without a verdict or was never added
  faults,      \* (bound) faults so far
  puts         \* (bound) files put so far

apiVars == <<req, submitted>>
storeVars == <<bytes, puts>>
vars == <<rows, storeVars, jobs, req, worker, submitted, scanned, lost, faults>>

NoJob == [state |-> "none", tries |-> 0, stalls |-> 0, owner |-> None]
Idle  == [pc |-> "idle", doc |-> None]
Free  == [pc |-> "idle", doc |-> None, found |-> None]

TypeOK ==
  /\ rows \in [Documents -> Row]
  /\ bytes \in [Documents -> Verdicts \cup {None}]
  /\ jobs \in [Documents -> Job]
  /\ req \in [Requests -> Request]
  /\ worker \in [Workers -> Worker]
  /\ submitted \in SUBSET {"checked", "unchecked"}
  /\ scanned \in [Documents -> SUBSET Verdicts]
  /\ lost \in SUBSET Documents
  /\ faults \in 0 .. MaxFaults
  /\ puts \in 0 .. MaxPuts

\* The draft has just been saved by createDraft: the caller has it, or create() goes on to
\* submit it.
Init ==
  /\ rows = [d \in Documents |-> [upload |-> "absent", scan |-> "pending"]]
  /\ bytes = [d \in Documents |-> None]
  /\ jobs = [d \in Documents |-> NoJob]
  /\ \E creators \in {{}} \cup {{r} : r \in Requests} :
       req = [r \in Requests |-> IF r \in creators THEN [pc |-> "created", doc |-> None] ELSE Idle]
  /\ worker = [w \in Workers |-> Free]
  /\ submitted = {}
  /\ scanned = [d \in Documents |-> {}]
  /\ lost = {}
  /\ faults = 0 /\ puts = 0

Intents == {d \in Documents : rows[d].upload # "absent"}
Decided(d) == rows[d].scan \in Verdicts

Begin(r, step, d) == /\ req[r].pc = "idle"
                     /\ req' = [req EXCEPT ![r] = [pc |-> step, doc |-> d]]
Goto(r, step) == req' = [req EXCEPT ![r].pc = step]
Finish(r)     == req' = [req EXCEPT ![r] = Idle]

-----------------------------------------------------------------------------
(* createUploadIntent: count the last hour's intents, then insert a row      *)

CreateUploadIntent(r) ==
  /\ Cardinality(Intents) < IntentLimit
  /\ Begin(r, "create", None)
  /\ UNCHANGED <<rows, storeVars, jobs, worker, submitted, scanned, lost, faults>>

InsertIntent(r, d) ==
  /\ req[r].pc = "create"
  /\ rows[d].upload = "absent"
  /\ rows' = [rows EXCEPT ![d].upload = "intent_created"]
  /\ Finish(r)
  /\ UNCHANGED <<storeVars, jobs, worker, submitted, scanned, lost, faults>>

\* The client puts a file under the presigned URL: a first one, or another in its place.  The
\* URL is good for its TTL, which no other step waits for, and no row knows of the put.
PutObject(d) ==
  /\ rows[d].upload # "absent"
  /\ puts < MaxPuts
  /\ puts' = puts + 1
  /\ \E v \in Verdicts : bytes' = [bytes EXCEPT ![d] = v]
  /\ UNCHANGED <<rows, jobs, req, worker, submitted, scanned, lost, faults>>

-----------------------------------------------------------------------------
(* confirmUpload and enqueueScan *)

\* The row is read once.  A rejected upload is refused, and one that has left
\* pending is answered as it is, whatever the object store says.
ConfirmUpload(r, d) ==
  /\ \/ rows[d].upload = "intent_created"
     \/ rows[d].upload = "uploaded" /\ rows[d].scan = "pending"
  /\ Begin(r, "head", d)
  /\ UNCHANGED <<rows, storeVars, jobs, worker, submitted, scanned, lost, faults>>

\* headObject must find the object, or the call fails.
HeadObject(r) ==
  /\ req[r].pc = "head"
  /\ IF bytes[req[r].doc] # None THEN Goto(r, "save") ELSE Finish(r)
  /\ UNCHANGED <<rows, storeVars, jobs, worker, submitted, scanned, lost, faults>>

\* The update goes by id alone, whatever the row has become since it was read.
SaveUploaded(r) ==
  /\ req[r].pc = "save"
  /\ rows' = [rows EXCEPT ![req[r].doc].upload = "uploaded"]
  /\ Goto(r, "enqueue")
  /\ UNCHANGED <<storeVars, jobs, worker, submitted, scanned, lost, faults>>

\* queue.add with the document's own job id adds nothing while a job with that id
\* is kept, also a completed or failed one.
EnqueueScan(r) ==
  LET d == req[r].doc
  IN /\ req[r].pc = "enqueue"
     /\ jobs' = IF jobs[d].state = "none"
                THEN [jobs EXCEPT ![d].state = "waiting"] ELSE jobs
     /\ Finish(r)
     /\ UNCHANGED <<rows, storeVars, worker, submitted, scanned, lost, faults>>

-----------------------------------------------------------------------------
(* submitDraft: the documents are read from their table, the draft saved later *)

\* Mutant: an uploaded document counts until the scanner objects.
NotYetRefused(f) == \E d \in Documents : /\ FieldOf[d] = f
                                         /\ rows[d].upload = "uploaded"
                                         /\ rows[d].scan \notin {"infected", "failed"}

HasCleanDocument(f) == \E d \in Documents : FieldOf[d] = f /\ rows[d].scan = "clean"

SubmitDraft(r) ==
  /\ submitted = {}
  /\ \A f \in Fields : HasCleanDocument(f)
  /\ Begin(r, "save_submit", None)
  /\ UNCHANGED <<rows, storeVars, jobs, worker, submitted, scanned, lost, faults>>

\* create() submits the draft it saved with enforceCleanDocuments false: no document is asked
\* for.
SubmitCreated(r) ==
  /\ req[r].pc = "created"
  /\ IF submitted = {} THEN Goto(r, "save_created") ELSE Finish(r)
  /\ UNCHANGED <<rows, storeVars, jobs, worker, submitted, scanned, lost, faults>>

SaveSubmission(r) ==
  /\ \/ req[r].pc = "save_submit"  /\ submitted' = submitted \cup {"checked"}
     \/ req[r].pc = "save_created" /\ submitted' = submitted \cup {"unchecked"}
  /\ Finish(r)
  /\ UNCHANGED <<rows, storeVars, jobs, worker, scanned, lost, faults>>

-----------------------------------------------------------------------------
(* The worker: processScan *)

Holds(w) == worker[w].pc # "idle" /\ jobs[worker[w].doc].owner = w

\* The job function returned: a worker that lost the lock completes nothing.
EndJob(w) ==
  /\ worker' = [worker EXCEPT ![w] = Free]
  /\ jobs' = IF Holds(w)
             THEN [jobs EXCEPT ![worker[w].doc] = [@ EXCEPT !.state = "completed", !.owner = None]]
             ELSE jobs

Take(w, d) ==
  /\ worker[w].pc = "idle"
  /\ jobs[d].state = "waiting"
  /\ jobs' = [jobs EXCEPT ![d] = [@ EXCEPT !.state = "active", !.owner = w]]
  /\ worker' = [worker EXCEPT ![w] = [pc |-> "load", doc |-> d, found |-> None]]
  /\ UNCHANGED <<rows, storeVars, apiVars, scanned, lost, faults>>

\* Mutant: a document another attempt is processing is skipped.
SkipProcessing(row) == row.upload # "uploaded" \/ row.scan \in {"processing", "clean", "infected"}

NothingToScan(row) == row.upload # "uploaded" \/ row.scan \in {"clean", "infected"}

LoadDocument(w) ==
  /\ worker[w].pc = "load"
  /\ IF NothingToScan(rows[worker[w].doc])
     THEN EndJob(w)
     ELSE worker' = [worker EXCEPT ![w].pc = "mark"] /\ UNCHANGED jobs
  /\ UNCHANGED <<rows, storeVars, apiVars, scanned, lost, faults>>

\* Mutant: the update without its condition on scan_status.
AnyStatus(row) == row.upload # "absent"

StillUndecided(row) == row.scan \in {"pending", "processing"}

MarkProcessing(w) ==
  LET d == worker[w].doc
  IN /\ worker[w].pc = "mark"
     /\ rows' = IF StillUndecided(rows[d]) THEN [rows EXCEPT ![d].scan = "processing"] ELSE rows
     /\ worker' = [worker EXCEPT ![w].pc = "fetch"]
     /\ UNCHANGED <<storeVars, jobs, apiVars, scanned, lost, faults>>

\* The bytes are fetched; an object the store does not have makes the call throw.
FetchObject(w) ==
  LET d == worker[w].doc
  IN /\ worker[w].pc = "fetch"
     /\ bytes[d] # None
     /\ worker' = [worker EXCEPT ![w] = [pc |-> "apply", doc |-> d, found |-> bytes[d]]]
     /\ scanned' = [scanned EXCEPT ![d] = @ \cup {bytes[d]}]
     /\ UNCHANGED <<rows, storeVars, jobs, apiVars, lost, faults>>

\* Mutant: upload_status takes the verdict's own name.
UploadNamedAfter(found) == IF found = "failed" THEN "failed" ELSE "uploaded"

UploadAfter(found) == IF found = "failed" THEN "rejected" ELSE "uploaded"

\* applyScanVerdict, by id alone: the verdict of the bytes fetched, whatever the row has become.
ApplyScanVerdict(w) ==
  LET v == worker[w].found
  IN /\ worker[w].pc = "apply"
     /\ rows' = [rows EXCEPT ![worker[w].doc] = [upload |-> UploadAfter(v), scan |-> v]]
     /\ EndJob(w)
     /\ UNCHANGED <<storeVars, apiVars, scanned, lost, faults>>

-----------------------------------------------------------------------------
(* Faults, and what BullMQ does about them *)

Fault == faults < MaxFaults /\ faults' = faults + 1

\* A statement of the job throws: the job is retried until its attempts are used up.
AttemptFails(w) ==
  LET d == worker[w].doc
      n == jobs[d].tries + 1
  IN /\ worker[w].pc # "idle"
     /\ Fault
     /\ worker' = [worker EXCEPT ![w] = Free]
     /\ IF Holds(w)
        THEN /\ jobs' = [jobs EXCEPT ![d] = [@ EXCEPT !.state = IF n < Attempts THEN "waiting" ELSE "failed",
                                                      !.tries = n, !.owner = None]]
             /\ lost' = IF n < Attempts THEN lost ELSE lost \cup {d}
        ELSE UNCHANGED <<jobs, lost>>
     /\ UNCHANGED <<rows, storeVars, apiVars, scanned>>

\* The lock of a job is not renewed in time: its worker died, or it was held up and goes on.
LoseLock(w) ==
  /\ Holds(w)
  /\ Fault
  /\ jobs' = [jobs EXCEPT ![worker[w].doc].owner = None]
  /\ worker' \in {worker, [worker EXCEPT ![w] = Free]}
  /\ UNCHANGED <<rows, storeVars, apiVars, scanned, lost>>

\* The stalled check puts an active job without a lock back, once; then it fails it.
RecoverStalled(d) ==
  /\ jobs[d].state = "active" /\ jobs[d].owner = None
  /\ IF jobs[d].stalls < MaxStalls
     THEN /\ jobs' = [jobs EXCEPT ![d].state = "waiting", ![d].stalls = @ + 1]
          /\ UNCHANGED lost
     ELSE /\ jobs' = [jobs EXCEPT ![d].state = "failed"]
          /\ lost' = lost \cup {d}
  /\ UNCHANGED <<rows, storeVars, worker, apiVars, scanned, faults>>

\* removeOnComplete and removeOnFail: the jobs of other documents push an ended job out.
Evict(d) ==
  /\ jobs[d].state \in {"completed", "failed"}
  /\ jobs' = [jobs EXCEPT ![d] = NoJob]
  /\ UNCHANGED <<rows, storeVars, worker, apiVars, scanned, lost, faults>>

\* The API process dies, or an awaited call throws, before handler r has finished.
RequestDies(r) ==
  /\ req[r].pc # "idle"
  /\ Fault
  /\ lost' = IF req[r].pc = "enqueue" THEN lost \cup {req[r].doc} ELSE lost
  /\ Finish(r)
  /\ UNCHANGED <<rows, storeVars, jobs, worker, submitted, scanned>>

-----------------------------------------------------------------------------

Call(r) ==
  \/ CreateUploadIntent(r) \/ SubmitDraft(r)
  \/ \E d \in Documents : ConfirmUpload(r, d)

Continue(r) ==
  \/ \E d \in Documents : InsertIntent(r, d)
  \/ HeadObject(r) \/ SaveUploaded(r) \/ EnqueueScan(r) \/ SubmitCreated(r) \/ SaveSubmission(r)

Process(w) == LoadDocument(w) \/ MarkProcessing(w) \/ FetchObject(w) \/ ApplyScanVerdict(w)

Next ==
  \/ \E r \in Requests : Call(r) \/ Continue(r) \/ RequestDies(r)
  \/ \E w \in Workers : Process(w) \/ AttemptFails(w) \/ LoseLock(w)
  \/ \E d \in Documents : PutObject(d) \/ RecoverStalled(d) \/ Evict(d)
  \/ \E w \in Workers, d \in Documents : Take(w, d)

Spec == Init /\ [][Next]_vars

\* The event loops resume what was awaited, an idle worker takes the next job, and the
\* stalled check runs every few seconds.  Clients and faults owe nothing.
FairSpec ==
  /\ Spec
  /\ \A r \in Requests : WF_vars(Continue(r))
  /\ \A w \in Workers : WF_vars(Process(w))
  /\ \A d \in Documents : WF_vars(\E w \in Workers : Take(w, d)) /\ WF_vars(RecoverStalled(d))

-----------------------------------------------------------------------------
(* What must hold *)

\* A confirmed document that still waits for its verdict is somewhere on its way to one: a
\* job is queued or running, a handler is about to add it, or it is known to be lost.
AwaitedVerdictHasJob ==
  \A d \in Documents :
    (rows[d].upload = "uploaded" /\ ~Decided(d)) =>
      \/ jobs[d].state \in {"waiting", "active"}
      \/ \E r \in Requests : req[r] = [pc |-> "enqueue", doc |-> d]
      \/ d \in lost

\* A verdict stands: a job delivered twice, or a worker that lost its lock, takes no decided
\* document back to processing, and gives it another verdict only if the file was replaced
\* between the fetches of two workers, so that both verdicts were found.
VerdictStands ==
  [][\A d \in Documents : Decided(d) => {rows[d].scan, rows'[d].scan} \subseteq scanned[d]]_vars

\* A draft submitted through the documents check has for every required field a document whose
\* file was found clean, and whose status is clean still unless another file was found in its
\* place, although the gate read them before the draft was saved, workers may still be running,
\* and a late confirmation may have marked a rejected upload as uploaded again.
SubmittedFieldsClean ==
  "checked" \in submitted =>
    \A f \in Fields : \E d \in Documents : /\ FieldOf[d] = f
                                          /\ "clean" \in scanned[d]
                                          /\ rows[d].scan \in scanned[d]

\* A queued document is decided in the end, unless its attempts or its stalls were used up.
QueuedIsDecided ==
  \A d \in Documents : jobs[d].state = "waiting" ~> (Decided(d) \/ d \in lost)

=============================================================================
