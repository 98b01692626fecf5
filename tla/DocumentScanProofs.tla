-------------------------- MODULE DocumentScanProofs --------------------------
(***************************************************************************)
(* Proofs about DocumentScan for any number of documents, handlers,         *)
(* concurrent jobs, attempts, stalls and faults: a verdict stands, the      *)
(* submit gate is not fooled, and no document is forgotten.                 *)
(***************************************************************************)
EXTENDS DocumentScan, FiniteSetTheorems, TLAPS

\* A row, with what workers found in its files: a decided row shows one of it, and only a
\* decided one can have been rejected.
RowSound(row, found) ==
  /\ row.scan \in Verdicts => row.scan \in found
  /\ row.upload = "rejected" => row.scan \in Verdicts

\* A job of document d is there only for an uploaded file; one that ended without being failed
\* has left a verdict, one that failed is known to be lost; a lock belongs to an active job.
JobSound(d) ==
  /\ jobs[d].state # "none" => rows[d].upload \in {"uploaded", "rejected"}
  /\ jobs[d].state = "completed" => Decided(d)
  /\ jobs[d].state = "failed" => d \in lost
  /\ jobs[d].state \in {"none", "waiting", "active"} => jobs[d].tries < Attempts
  /\ jobs[d].owner # None => jobs[d].state = "active"

\* A worker has a job of an uploaded file, and a verdict only of a file it fetched.
WorkerSound(w) ==
  worker[w].pc # "idle" =>
    /\ worker[w].doc \in Documents
    /\ rows[worker[w].doc].upload \in {"uploaded", "rejected"}
    /\ worker[w].pc = "apply" => worker[w].found \in scanned[worker[w].doc]

\* A field has a document that was found clean and shows what was found.
FieldSound(f) == \E d \in Documents : /\ FieldOf[d] = f
                                     /\ "clean" \in scanned[d]
                                     /\ rows[d].scan \in scanned[d]

\* A handler adds a job for an uploaded file only, and saves a submission it checked only
\* while the fields have the documents it read as clean.
RequestSound(r) ==
  /\ req[r].pc \in {"head", "save", "enqueue"} => req[r].doc \in Documents
  /\ req[r].pc = "enqueue" => rows[req[r].doc].upload \in {"uploaded", "rejected"}
  /\ req[r].pc = "save_submit" => \A f \in Fields : FieldSound(f)

IInv ==
  /\ TypeOK
  /\ \A d \in Documents : RowSound(rows[d], scanned[d]) /\ JobSound(d)
  /\ \A w \in Workers : WorkerSound(w)
  /\ \A r \in Requests : RequestSound(r)
  /\ AwaitedVerdictHasJob
  /\ SubmittedFieldsClean

\* What every step does to the rows: what was found stays found, a decided row shows some of
\* it, and an uploaded file stays uploaded or is rejected.
RowsKept ==
  \A d \in Documents :
    /\ scanned[d] \subseteq scanned'[d]
    /\ Decided(d) => rows'[d].scan \in scanned'[d]
    /\ rows[d].upload \in {"uploaded", "rejected"} => rows'[d].upload \in {"uploaded", "rejected"}

-----------------------------------------------------------------------------

LEMMA Shapes ==
  /\ Idle \in Request /\ Idle.pc = "idle" /\ Free \in Worker /\ Free.pc = "idle"
  /\ NoJob \in Job /\ NoJob.state = "none" /\ NoJob.owner = None /\ NoJob.tries = 0
  /\ Verdicts = {"clean", "infected", "failed"}
<1>1. 0 \in 0 .. Attempts /\ 0 \in 0 .. MaxStalls
  BY BoundAssumption
<1>2. NoJob \in Job
  BY <1>1 DEF NoJob, Job
<1>3. Idle \in Request /\ Idle.pc = "idle" /\ Free \in Worker /\ Free.pc = "idle"
  BY DEF Idle, Free, Request, Worker
<1>4. NoJob.state = "none" /\ NoJob.owner = None /\ NoJob.tries = 0
  BY DEF NoJob
<1>. QED BY <1>2, <1>3, <1>4 DEF Verdicts

LEMMA InitIInv == Init => IInv
<1>. SUFFICES ASSUME Init PROVE IInv
  OBVIOUS
<1>1. TypeOK
  <2>1. [upload |-> "absent", scan |-> "pending"] \in Row
    BY DEF Row
  <2>2. 0 \in 0 .. MaxFaults /\ 0 \in 0 .. MaxPuts
    BY BoundAssumption
  <2>3. req \in [Requests -> Request]
    BY Shapes DEF Init, Request
  <2>. QED BY <2>1, <2>2, <2>3, Shapes DEF Init, TypeOK
<1>2. \A d \in Documents : RowSound(rows[d], scanned[d]) /\ JobSound(d)
  BY Shapes, BoundAssumption DEF Init, RowSound, JobSound
<1>3. (\A w \in Workers : WorkerSound(w)) /\ \A r \in Requests : RequestSound(r)
  <2>1. \A r \in Requests : req[r].pc \in {"idle", "created"}
    BY Shapes DEF Init
  <2>. QED BY <2>1, Shapes DEF Init, WorkerSound, RequestSound
<1>4. AwaitedVerdictHasJob /\ SubmittedFieldsClean
  BY DEF Init, AwaitedVerdictHasJob, SubmittedFieldsClean
<1>. QED BY <1>1, <1>2, <1>3, <1>4 DEF IInv

\* A document read as clean was found clean; a field that has such a document keeps it.
LEMMA CleanIsSound ==
  ASSUME IInv, NEW f \in Fields, HasCleanDocument(f)
  PROVE  FieldSound(f)
<1>1. PICK d \in Documents : FieldOf[d] = f /\ rows[d].scan = "clean"
  BY DEF HasCleanDocument
<1>2. RowSound(rows[d], scanned[d])
  BY DEF IInv
<1>. QED BY <1>1, <1>2, Shapes DEF RowSound, FieldSound

LEMMA FieldStays ==
  ASSUME IInv, RowsKept, NEW f \in Fields, FieldSound(f)
  PROVE  FieldSound(f)'
<1>1. PICK d \in Documents : FieldOf[d] = f /\ "clean" \in scanned[d] /\ rows[d].scan \in scanned[d]
  BY DEF FieldSound
<1>2. Decided(d)
  BY <1>1 DEF IInv, TypeOK, Decided
<1>. QED BY <1>1, <1>2 DEF RowsKept, FieldSound

LEMMA SubmissionKept ==
  ASSUME IInv, RowsKept,
         "checked" \in submitted' =>
           "checked" \in submitted \/ \E r \in Requests : req[r].pc = "save_submit"
  PROVE  SubmittedFieldsClean'
<1>1. "checked" \in submitted' => \A f \in Fields : FieldSound(f)
  BY DEF IInv, SubmittedFieldsClean, FieldSound, RequestSound
<1>2. "checked" \in submitted' => \A f \in Fields : FieldSound(f)'
  BY <1>1, FieldStays
<1>. QED BY <1>2 DEF SubmittedFieldsClean, FieldSound

\* A step that leaves scan statuses, uploads and finds alone keeps the rows.
LEMMA RowsUntouched ==
  ASSUME IInv, UNCHANGED scanned,
         \A d \in Documents : /\ rows'[d].scan = rows[d].scan
                              /\ rows[d].upload \in {"uploaded", "rejected"} =>
                                   rows'[d].upload \in {"uploaded", "rejected"}
  PROVE  RowsKept
<1>1. \A d \in Documents : RowSound(rows[d], scanned[d])
  BY DEF IInv
<1>. QED BY <1>1 DEF RowsKept, RowSound, Decided

-----------------------------------------------------------------------------
(* API handlers: they touch no worker; the queue only in EnqueueScan *)

\* A handler moves to q and leaves rows and queue alone.
LEMMA HandlerStep ==
  ASSUME IInv, NEW r \in Requests, NEW q \in Request, req' = [req EXCEPT ![r] = q],
         UNCHANGED <<rows, storeVars, jobs, worker, scanned>>, faults' \in 0 .. MaxFaults,
         submitted' \in SUBSET {"checked", "unchecked"},
         lost \subseteq lost', lost' \in SUBSET Documents,
         req[r].pc = "enqueue" => req[r].doc \in lost',
         "checked" \in submitted' => "checked" \in submitted \/ req[r].pc = "save_submit",
         q.pc \in {"head", "save"} => q.doc \in Documents, q.pc # "enqueue",
         q.pc = "save_submit" => \A f \in Fields : FieldSound(f)
  PROVE  IInv'
<1>1. TypeOK'
  BY DEF IInv, TypeOK, storeVars
<1>2. RowsKept
  BY RowsUntouched
<1>3. SubmittedFieldsClean'
  BY <1>2, SubmissionKept
<1>4. req'[r] = q /\ \A s \in Requests \ {r} : req'[s] = req[s]
  BY DEF IInv, TypeOK
<1>5. \A s \in Requests : RequestSound(s)'
  BY <1>4 DEF IInv, RequestSound, FieldSound
<1>6. \A d \in Documents : (RowSound(rows[d], scanned[d]) /\ JobSound(d))'
  BY DEF IInv, JobSound, Decided, RowSound
<1>7. \A w \in Workers : WorkerSound(w)'
  BY DEF IInv, WorkerSound
<1>8. AwaitedVerdictHasJob'
  <2>1. SUFFICES ASSUME NEW d \in Documents, rows[d].upload = "uploaded", ~Decided(d)
                 PROVE  \/ jobs[d].state \in {"waiting", "active"}
                        \/ \E s \in Requests : req'[s] = [pc |-> "enqueue", doc |-> d]
                        \/ d \in lost'
    BY DEF AwaitedVerdictHasJob, Decided
  <2>2. \/ jobs[d].state \in {"waiting", "active"}
        \/ \E s \in Requests : req[s] = [pc |-> "enqueue", doc |-> d]
        \/ d \in lost
    BY <2>1 DEF IInv, AwaitedVerdictHasJob
  <2>3. ASSUME NEW s \in Requests, req[s] = [pc |-> "enqueue", doc |-> d]
        PROVE  (\E t \in Requests : req'[t] = [pc |-> "enqueue", doc |-> d]) \/ d \in lost'
    <3>1. CASE s = r
      <4>1. req[r].pc = "enqueue" /\ req[r].doc = d
        BY <2>3, <3>1
      <4>. QED BY <4>1
    <3>2. CASE s # r
      BY <1>4, <2>3, <3>2
    <3>. QED BY <3>1, <3>2
  <2>. QED BY <2>2, <2>3
<1>. QED BY <1>1, <1>3, <1>5, <1>6, <1>7, <1>8 DEF IInv

LEMMA FinishStep ==
  ASSUME IInv, NEW r \in Requests, Finish(r), UNCHANGED <<rows, storeVars, jobs, worker, scanned>>,
         faults' \in 0 .. MaxFaults, submitted' \in SUBSET {"checked", "unchecked"},
         lost \subseteq lost', lost' \in SUBSET Documents,
         req[r].pc = "enqueue" => req[r].doc \in lost',
         "checked" \in submitted' => "checked" \in submitted \/ req[r].pc = "save_submit"
  PROVE  IInv'
  BY HandlerStep, Shapes DEF Finish

LEMMA CallSteps ==
  ASSUME IInv, NEW r \in Requests, Call(r)
  PROVE  IInv'
<1>. USE DEF IInv, TypeOK, Begin
<1>1. ASSUME NEW step \in {"create", "head", "save_submit"}, NEW d \in Documents \cup {None},
             Begin(r, step, d), UNCHANGED <<rows, storeVars, jobs, worker, submitted, scanned, lost, faults>>,
             step = "head" => d \in Documents,
             step = "save_submit" => \A f \in Fields : FieldSound(f)
      PROVE  IInv'
  <2>1. PICK q : q = [pc |-> step, doc |-> d]
    OBVIOUS
  <2>2. q \in Request /\ q.pc = step /\ q.doc = d
    BY <2>1 DEF Request
  <2>. QED BY <1>1, <2>1, <2>2, HandlerStep
<1>2. CASE CreateUploadIntent(r)
  BY <1>1, <1>2 DEF CreateUploadIntent
<1>3. CASE SubmitDraft(r)
  BY <1>1, <1>3, CleanIsSound DEF SubmitDraft
<1>4. ASSUME NEW d \in Documents, ConfirmUpload(r, d) PROVE IInv'
  BY <1>1, <1>4 DEF ConfirmUpload
<1>. QED BY <1>2, <1>3, <1>4 DEF Call

\* Rows change for one document, by an API handler: the row it gets is sound and only a row
\* nobody has decided moves on.
LEMMA SaveUploadedStep ==
  ASSUME IInv, NEW r \in Requests, SaveUploaded(r)
  PROVE  IInv'
<1>. DEFINE d == req[r].doc
<1>1. req[r].pc = "save" /\ d \in Documents /\ req[r] \in Request
  BY DEF SaveUploaded, IInv, TypeOK, RequestSound
<1>2. PICK q : q = [req[r] EXCEPT !.pc = "enqueue"]
  OBVIOUS
<1>3. q \in Request /\ q = [pc |-> "enqueue", doc |-> d]
  BY <1>1, <1>2 DEF Request
<1>4. req' = [req EXCEPT ![r] = q]
  BY <1>2 DEF SaveUploaded, Goto, IInv, TypeOK
<1>5. req'[r] = q /\ \A s \in Requests \ {r} : req'[s] = req[s]
  BY <1>4 DEF IInv, TypeOK
<1>6. UNCHANGED <<storeVars, jobs, worker, submitted, scanned, lost, faults>>
  BY DEF SaveUploaded
<1>7. rows' = [rows EXCEPT ![d].upload = "uploaded"]
  BY DEF SaveUploaded
<1>8. \A e \in Documents : /\ rows'[e].scan = rows[e].scan
                           /\ rows'[e].upload = IF e = d THEN "uploaded" ELSE rows[e].upload
  BY <1>1, <1>7 DEF IInv, TypeOK, Row
<1>9. RowsKept
  BY <1>6, <1>8, RowsUntouched
<1>10. TypeOK'
  BY <1>1, <1>3, <1>4, <1>6, <1>7 DEF IInv, TypeOK, Row, storeVars
<1>11. \A e \in Documents : (RowSound(rows[e], scanned[e]) /\ JobSound(e))'
  BY <1>6, <1>8 DEF IInv, RowSound, JobSound, Decided
<1>12. \A w \in Workers : WorkerSound(w)'
  BY <1>6, <1>8 DEF IInv, WorkerSound
<1>13. ASSUME NEW s \in Requests PROVE RequestSound(s)'
  <2>1. RequestSound(s) /\ RequestSound(r)
    BY DEF IInv
  <2>2. (\A f \in Fields : FieldSound(f)) => \A f \in Fields : FieldSound(f)'
    BY <1>9, FieldStays
  <2>. QED BY <1>1, <1>3, <1>5, <1>8, <1>9, <2>1, <2>2 DEF RequestSound, RowsKept
<1>14. AwaitedVerdictHasJob'
  <2>1. SUFFICES ASSUME NEW e \in Documents, rows'[e].upload = "uploaded", ~Decided(e)
                 PROVE  \/ jobs[e].state \in {"waiting", "active"}
                        \/ \E s \in Requests : req'[s] = [pc |-> "enqueue", doc |-> e]
                        \/ e \in lost
    BY <1>6, <1>8 DEF AwaitedVerdictHasJob, Decided
  <2>2. CASE e = d
    BY <1>3, <1>5, <2>2
  <2>3. CASE e # d
    <3>1. \/ jobs[e].state \in {"waiting", "active"}
          \/ \E s \in Requests : req[s] = [pc |-> "enqueue", doc |-> e]
          \/ e \in lost
      BY <1>8, <2>1, <2>3 DEF IInv, AwaitedVerdictHasJob
    <3>2. ASSUME NEW s \in Requests, req[s] = [pc |-> "enqueue", doc |-> e] PROVE s # r
      BY <1>1, <3>2
    <3>. QED BY <1>5, <3>1, <3>2
  <2>. QED BY <2>2, <2>3
<1>15. SubmittedFieldsClean'
  BY <1>6, <1>9, SubmissionKept
<1>. QED BY <1>10, <1>11, <1>12, <1>13, <1>14, <1>15 DEF IInv

LEMMA InsertIntentStep ==
  ASSUME IInv, NEW r \in Requests, NEW d \in Documents, InsertIntent(r, d)
  PROVE  IInv'
<1>1. req' = [req EXCEPT ![r] = Idle] /\ req[r].pc = "create"
  BY DEF InsertIntent, Finish
<1>2. UNCHANGED <<storeVars, jobs, worker, submitted, scanned, lost, faults>>
  BY DEF InsertIntent
<1>3. rows[d].upload = "absent" /\ rows' = [rows EXCEPT ![d].upload = "intent_created"]
  BY DEF InsertIntent
<1>4. /\ \A e \in Documents : rows'[e].scan = rows[e].scan
      /\ \A e \in Documents \ {d} : rows'[e].upload = rows[e].upload
      /\ rows'[d].upload = "intent_created"
  BY <1>3 DEF IInv, TypeOK, Row
<1>5. RowsKept
  <2>1. \A e \in Documents : rows[e].upload \in {"uploaded", "rejected"} =>
                               rows'[e].upload \in {"uploaded", "rejected"}
    BY <1>3, <1>4
  <2>. QED BY <1>2, <1>4, <2>1, RowsUntouched
<1>6. req'[r] = Idle /\ \A s \in Requests \ {r} : req'[s] = req[s]
  BY <1>1 DEF IInv, TypeOK
<1>7. TypeOK'
  BY <1>1, <1>2, <1>3, Shapes DEF IInv, TypeOK, Row, storeVars
<1>8. \A e \in Documents : (RowSound(rows[e], scanned[e]) /\ JobSound(e))'
  BY <1>2, <1>3, <1>4 DEF IInv, RowSound, JobSound, Decided
<1>9. \A w \in Workers : WorkerSound(w)'
  BY <1>2, <1>3, <1>4 DEF IInv, WorkerSound
<1>10. ASSUME NEW s \in Requests PROVE RequestSound(s)'
  <2>1. RequestSound(s)
    BY DEF IInv
  <2>2. (\A f \in Fields : FieldSound(f)) => \A f \in Fields : FieldSound(f)'
    BY <1>5, FieldStays
  <2>. QED BY <1>5, <1>6, <2>1, <2>2, Shapes DEF RequestSound, RowsKept
<1>11. AwaitedVerdictHasJob'
  <2>1. SUFFICES ASSUME NEW e \in Documents, rows'[e].upload = "uploaded", ~Decided(e)
                 PROVE  \/ jobs[e].state \in {"waiting", "active"}
                        \/ \E s \in Requests : req'[s] = [pc |-> "enqueue", doc |-> e]
                        \/ e \in lost
    BY <1>2, <1>4 DEF AwaitedVerdictHasJob, Decided
  <2>2. \/ jobs[e].state \in {"waiting", "active"}
        \/ \E s \in Requests : req[s] = [pc |-> "enqueue", doc |-> e]
        \/ e \in lost
    BY <1>4, <2>1 DEF IInv, AwaitedVerdictHasJob
  <2>3. ASSUME NEW s \in Requests, req[s] = [pc |-> "enqueue", doc |-> e] PROVE s # r
    BY <1>1, <2>3
  <2>. QED BY <1>6, <2>2, <2>3
<1>12. SubmittedFieldsClean'
  BY <1>2, <1>5, SubmissionKept
<1>. QED BY <1>7, <1>8, <1>9, <1>10, <1>11, <1>12 DEF IInv

LEMMA ContinueSteps ==
  ASSUME IInv, NEW r \in Requests,
         HeadObject(r) \/ SubmitCreated(r) \/ SaveSubmission(r) \/ RequestDies(r)
  PROVE  IInv'
<1>. USE DEF IInv, TypeOK
<1>1. CASE HeadObject(r) /\ bytes[req[r].doc] # None
  <2>1. PICK q : q = [req[r] EXCEPT !.pc = "save"]
    OBVIOUS
  <2>2. q \in Request /\ q.pc = "save" /\ q.doc = req[r].doc
    BY <2>1 DEF Request
  <2>3. req' = [req EXCEPT ![r] = q]
    BY <1>1, <2>1 DEF HeadObject, Goto
  <2>4. req[r].pc = "head" /\ req[r].doc \in Documents
    BY <1>1 DEF HeadObject, RequestSound
  <2>. QED BY <1>1, <2>2, <2>3, <2>4, HandlerStep DEF HeadObject
<1>2. CASE HeadObject(r) /\ bytes[req[r].doc] = None
  BY <1>2, FinishStep DEF HeadObject
<1>3. CASE SaveSubmission(r)
  BY <1>3, FinishStep DEF SaveSubmission
<1>4. CASE RequestDies(r)
  <2>1. req[r].pc = "enqueue" => req[r].doc \in Documents
    BY DEF RequestSound
  <2>2. lost \subseteq lost' /\ lost' \in SUBSET Documents
    BY <1>4, <2>1 DEF RequestDies
  <2>3. faults' \in 0 .. MaxFaults
    BY <1>4, BoundAssumption DEF RequestDies, Fault
  <2>. QED BY <1>4, <2>2, <2>3, FinishStep DEF RequestDies
<1>5. CASE SubmitCreated(r) /\ submitted = {}
  <2>1. PICK q : q = [req[r] EXCEPT !.pc = "save_created"]
    OBVIOUS
  <2>2. q \in Request /\ q.pc = "save_created"
    BY <2>1 DEF Request
  <2>3. req' = [req EXCEPT ![r] = q]
    BY <1>5, <2>1 DEF SubmitCreated, Goto
  <2>4. req[r].pc = "created"
    BY <1>5 DEF SubmitCreated
  <2>. QED BY <1>5, <2>2, <2>3, <2>4, HandlerStep DEF SubmitCreated
<1>6. CASE SubmitCreated(r) /\ submitted # {}
  BY <1>6, FinishStep DEF SubmitCreated
<1>. QED BY <1>1, <1>2, <1>3, <1>4, <1>5, <1>6

\* An added job is new, and so are its attempts; a kept one that ended has left a verdict or
\* is known to be lost.
LEMMA EnqueueScanStep ==
  ASSUME IInv, NEW r \in Requests, EnqueueScan(r)
  PROVE  IInv'
<1>. DEFINE d == req[r].doc
<1>1. req[r].pc = "enqueue" /\ d \in Documents /\ rows[d].upload \in {"uploaded", "rejected"}
  BY DEF EnqueueScan, IInv, RequestSound
<1>2. UNCHANGED <<rows, storeVars, worker, submitted, scanned, lost, faults>>
  BY DEF EnqueueScan
<1>3. jobs' = IF jobs[d].state = "none" THEN [jobs EXCEPT ![d].state = "waiting"] ELSE jobs
  BY DEF EnqueueScan
<1>4. /\ \A e \in Documents \ {d} : jobs'[e] = jobs[e]
      /\ jobs[d].state # "none" => jobs'[d] = jobs[d]
      /\ jobs[d].state = "none" => jobs'[d] = [jobs[d] EXCEPT !.state = "waiting"]
  BY <1>1, <1>3 DEF IInv, TypeOK
<1>5. jobs' \in [Documents -> Job]
  BY <1>1, <1>3 DEF IInv, TypeOK, Job
<1>6. req'[r] = Idle /\ \A s \in Requests \ {r} : req'[s] = req[s]
  BY DEF EnqueueScan, Finish, IInv, TypeOK
<1>7. TypeOK'
  BY <1>2, <1>5, Shapes DEF EnqueueScan, Finish, IInv, TypeOK, storeVars
<1>8. \A e \in Documents : (RowSound(rows[e], scanned[e]))'
  BY <1>2 DEF IInv, RowSound
<1>9. ASSUME NEW e \in Documents PROVE JobSound(e)'
  <2>1. JobSound(e) /\ jobs[e] \in Job
    BY DEF IInv, TypeOK
  <2>2. CASE e # d \/ jobs[d].state # "none"
    BY <1>2, <1>4, <2>1, <2>2 DEF JobSound, Decided
  <2>3. CASE e = d /\ jobs[d].state = "none"
    <3>1. jobs'[e].state = "waiting" /\ jobs'[e].tries = jobs[e].tries /\ jobs'[e].owner = jobs[e].owner
      BY <1>4, <2>1, <2>3 DEF Job
    <3>. QED BY <1>1, <1>2, <2>1, <2>3, <3>1 DEF JobSound
  <2>. QED BY <2>2, <2>3
<1>10. \A w \in Workers : WorkerSound(w)'
  BY <1>2 DEF IInv, WorkerSound
<1>11. \A s \in Requests : RequestSound(s)'
  BY <1>2, <1>6, Shapes DEF IInv, RequestSound, FieldSound
<1>12. AwaitedVerdictHasJob'
  <2>1. SUFFICES ASSUME NEW e \in Documents, rows[e].upload = "uploaded", ~Decided(e)
                 PROVE  \/ jobs'[e].state \in {"waiting", "active"}
                        \/ \E s \in Requests : req'[s] = [pc |-> "enqueue", doc |-> e]
                        \/ e \in lost
    BY <1>2 DEF AwaitedVerdictHasJob, Decided
  <2>2. CASE e = d
    <3>1. JobSound(d) /\ jobs[d] \in Job
      BY <1>1 DEF IInv, TypeOK
    <3>2. jobs[d].state = "none" => jobs'[d].state = "waiting"
      BY <1>4, <3>1 DEF Job
    <3>3. jobs[d].state # "none" => jobs[d].state \in {"waiting", "active"} \/ d \in lost
      BY <2>1, <2>2, <3>1 DEF JobSound, Job
    <3>. QED BY <1>4, <2>2, <3>2, <3>3
  <2>3. CASE e # d
    <3>1. \/ jobs[e].state \in {"waiting", "active"}
          \/ \E s \in Requests : req[s] = [pc |-> "enqueue", doc |-> e]
          \/ e \in lost
      BY <2>1 DEF IInv, AwaitedVerdictHasJob
    <3>2. ASSUME NEW s \in Requests, req[s] = [pc |-> "enqueue", doc |-> e] PROVE s # r
      BY <2>3, <3>2
    <3>. QED BY <1>4, <1>6, <2>3, <3>1, <3>2
  <2>. QED BY <2>2, <2>3
<1>13. SubmittedFieldsClean'
  BY <1>2 DEF IInv, SubmittedFieldsClean
<1>. QED BY <1>7, <1>8, <1>9, <1>10, <1>11, <1>12, <1>13 DEF IInv

-----------------------------------------------------------------------------
(* The queue and its workers: a step is about one document, and no handler takes part *)

\* The row of d, if the step writes one, is sound and stays decided if it was.
RowFits(d) ==
  /\ rows' \in [Documents -> Row]
  /\ \A e \in Documents \ {d} : rows'[e] = rows[e]
  /\ \/ rows'[d] = rows[d]
     \/ {rows[d].upload, rows'[d].upload} \subseteq {"uploaded", "rejected"}
  /\ RowSound(rows'[d], scanned'[d])
  /\ Decided(d) => rows'[d].scan \in Verdicts

\* The job of d is the old one or its sound successor: what ends leaves a verdict or is lost.
JobFits(d) ==
  /\ jobs' \in [Documents -> Job]
  /\ \A e \in Documents \ {d} : jobs'[e] = jobs[e]
  /\ jobs'[d].state # "none" => jobs[d].state # "none"
  /\ jobs'[d].state = "completed" => rows'[d].scan \in Verdicts
  /\ jobs'[d].state = "failed" => d \in lost'
  /\ jobs'[d].state \in {"none", "waiting", "active"} => jobs'[d].tries < Attempts
  /\ jobs'[d].owner # None => jobs'[d].state = "active"
  /\ jobs[d].state \in {"waiting", "active"} =>
       jobs'[d].state \in {"waiting", "active"} \/ rows'[d].scan \in Verdicts \/ d \in lost'

\* A worker keeps its document, or takes the job of d, and has the verdict it had or one found.
WorkersFit(d) ==
  /\ worker' \in [Workers -> Worker]
  /\ \A w \in Workers : worker'[w].pc = "apply" =>
       worker'[w] = worker[w] \/ worker'[w].found \in scanned'[worker'[w].doc]
  /\ \A w \in Workers : worker'[w].pc # "idle" =>
       \/ worker[w].pc # "idle" /\ worker'[w].doc = worker[w].doc
       \/ worker'[w].doc = d /\ jobs[d].state # "none"

\* What was found stays found.
ScannedFits ==
  /\ scanned' \in [Documents -> SUBSET Verdicts]
  /\ \A e \in Documents : scanned[e] \subseteq scanned'[e]

LEMMA QueueStep ==
  ASSUME IInv, NEW d \in Documents, RowFits(d), JobFits(d), WorkersFit(d),
         UNCHANGED <<storeVars, req, submitted>>,
         ScannedFits,
         lost \subseteq lost', lost' \in SUBSET Documents, faults' \in 0 .. MaxFaults
  PROVE  IInv'
<1>1. TypeOK'
  BY DEF IInv, TypeOK, RowFits, JobFits, WorkersFit, ScannedFits, storeVars
<1>3. \A e \in Documents : Decided(e) => Decided(e)'
  BY DEF RowFits, Decided
<1>4. ASSUME NEW e \in Documents PROVE RowSound(rows[e], scanned[e])'
  <2>1. RowSound(rows[e], scanned[e])
    BY DEF IInv
  <2>. QED BY <2>1 DEF RowFits, RowSound, ScannedFits
<1>2. RowsKept
  <2>1. ASSUME NEW e \in Documents
        PROVE  rows[e].upload \in {"uploaded", "rejected"} => rows'[e].upload \in {"uploaded", "rejected"}
    BY DEF RowFits
  <2>2. ASSUME NEW e \in Documents, Decided(e) PROVE rows'[e].scan \in scanned'[e]
    BY <1>3, <1>4, <2>2 DEF RowSound, Decided
  <2>. QED BY <2>1, <2>2 DEF RowsKept, ScannedFits
<1>5. ASSUME NEW e \in Documents PROVE JobSound(e)'
  <2>1. JobSound(e)
    BY DEF IInv
  <2>2. CASE e = d
    BY <1>2, <1>3, <2>1, <2>2 DEF JobFits, JobSound, Decided, RowsKept
  <2>3. CASE e # d
    <3>1. jobs'[e] = jobs[e] /\ rows'[e] = rows[e]
      BY <2>3 DEF JobFits, RowFits
    <3>. QED BY <2>1, <3>1 DEF JobSound, Decided
  <2>. QED BY <2>2, <2>3
<1>6. ASSUME NEW w \in Workers PROVE WorkerSound(w)'
  <2>1. WorkerSound(w) /\ JobSound(d)
    BY DEF IInv
  <2>. QED BY <1>2, <2>1 DEF WorkersFit, WorkerSound, JobSound, RowsKept
<1>7. ASSUME NEW s \in Requests PROVE RequestSound(s)'
  <2>1. RequestSound(s)
    BY DEF IInv
  <2>2. (\A f \in Fields : FieldSound(f)) => \A f \in Fields : FieldSound(f)'
    BY <1>2, FieldStays
  <2>. QED BY <1>2, <2>1, <2>2 DEF RequestSound, RowsKept
<1>8. AwaitedVerdictHasJob'
  <2>1. SUFFICES ASSUME NEW e \in Documents, rows'[e].upload = "uploaded", rows'[e].scan \notin Verdicts
                 PROVE  \/ jobs'[e].state \in {"waiting", "active"}
                        \/ \E s \in Requests : req[s] = [pc |-> "enqueue", doc |-> e]
                        \/ e \in lost'
    BY DEF AwaitedVerdictHasJob, Decided
  <2>2. ~Decided(e)
    BY <1>3, <2>1 DEF Decided
  <2>3. rows[e].upload = "uploaded"
    <3>1. RowSound(rows[e], scanned[e])
      BY DEF IInv
    <3>. QED BY <2>1, <2>2, <3>1 DEF RowFits, RowSound, Decided
  <2>4. \/ jobs[e].state \in {"waiting", "active"}
        \/ \E s \in Requests : req[s] = [pc |-> "enqueue", doc |-> e]
        \/ e \in lost
    BY <2>2, <2>3 DEF IInv, AwaitedVerdictHasJob
  <2>. QED BY <2>1, <2>4 DEF JobFits
<1>9. SubmittedFieldsClean'
  BY <1>2, SubmissionKept
<1>. QED BY <1>1, <1>4, <1>5, <1>6, <1>7, <1>8, <1>9 DEF IInv

-----------------------------------------------------------------------------
(* One lemma per step of the queue: the step fits *)

LEMMA Kept ==
  ASSUME IInv, NEW d \in Documents
  PROVE  /\ UNCHANGED <<rows, scanned>> => RowFits(d)
         /\ UNCHANGED <<jobs, lost, rows>> => JobFits(d)
         /\ UNCHANGED worker => WorkersFit(d)
         /\ UNCHANGED scanned => ScannedFits
<1>1. RowSound(rows[d], scanned[d]) /\ JobSound(d) /\ TypeOK
  BY DEF IInv
<1>2. UNCHANGED <<rows, scanned>> => RowFits(d)
  BY <1>1 DEF TypeOK, RowFits, RowSound, Decided
<1>3. UNCHANGED <<jobs, lost, rows>> => JobFits(d)
  BY <1>1 DEF TypeOK, JobFits, JobSound, Decided
<1>4. UNCHANGED worker => WorkersFit(d)
  BY <1>1 DEF TypeOK, WorkersFit
<1>5. UNCHANGED scanned => ScannedFits
  BY <1>1 DEF TypeOK, ScannedFits
<1>. QED BY <1>2, <1>3, <1>4, <1>5

\* The document a worker has, and its row and job.
LEMMA WorkersDocument ==
  ASSUME IInv, NEW w \in Workers, worker[w].pc # "idle"
  PROVE  LET d == worker[w].doc
         IN /\ d \in Documents /\ rows[d] \in Row /\ jobs[d] \in Job
            /\ rows[d].upload \in {"uploaded", "rejected"}
            /\ scanned[d] \in SUBSET Verdicts /\ RowSound(rows[d], scanned[d]) /\ JobSound(d)
            /\ Holds(w) => jobs[d].state = "active" /\ jobs[d].tries < Attempts
<1>. DEFINE d == worker[w].doc
<1>1. WorkerSound(w)
  BY DEF IInv
<1>2. d \in Documents /\ rows[d].upload \in {"uploaded", "rejected"}
  BY <1>1 DEF WorkerSound
<1>3. rows[d] \in Row /\ jobs[d] \in Job /\ scanned[d] \in SUBSET Verdicts
  BY <1>2 DEF IInv, TypeOK
<1>4. RowSound(rows[d], scanned[d]) /\ JobSound(d)
  BY <1>2 DEF IInv
<1>5. Holds(w) => jobs[d].owner = w /\ w # None
  BY NoneAssumption DEF Holds
<1>. QED BY <1>2, <1>3, <1>4, <1>5 DEF JobSound

\* A worker that moves on keeps its document; one that stops has none.
LEMMA WorkerMoves ==
  ASSUME IInv, NEW w \in Workers, NEW d \in Documents,
         \/ worker' = [worker EXCEPT ![w] = Free]
         \/ worker[w].pc # "idle" /\ \E step \in {"mark", "fetch"} :
              worker' = [worker EXCEPT ![w].pc = step]
  PROVE  WorkersFit(d)
<1>1. worker \in [Workers -> Worker]
  BY DEF IInv, TypeOK
<1>2. CASE worker' = [worker EXCEPT ![w] = Free]
  BY <1>1, <1>2, Shapes DEF WorkersFit
<1>3. ASSUME NEW step \in {"mark", "fetch"}, worker[w].pc # "idle",
             worker' = [worker EXCEPT ![w].pc = step]
      PROVE  WorkersFit(d)
  <2>1. worker'[w] = [worker[w] EXCEPT !.pc = step] /\ \A v \in Workers \ {w} : worker'[v] = worker[v]
    BY <1>1, <1>3
  <2>2. worker'[w].doc = worker[w].doc /\ worker'[w].pc = step
    BY <1>1, <2>1 DEF Worker
  <2>3. worker' \in [Workers -> Worker]
    BY <1>1, <1>3 DEF Worker
  <2>. QED BY <1>3, <2>1, <2>2, <2>3 DEF WorkersFit
<1>. QED BY <1>2, <1>3

\* The job function may return once the document has its verdict.
LEMMA EndJobFits ==
  ASSUME IInv, NEW w \in Workers, worker[w].pc # "idle", EndJob(w),
         rows'[worker[w].doc].scan \in Verdicts, UNCHANGED lost
  PROVE  JobFits(worker[w].doc)
<1>. DEFINE d == worker[w].doc
<1>1. d \in Documents /\ jobs[d] \in Job /\ JobSound(d) /\ jobs \in [Documents -> Job]
  BY WorkersDocument DEF IInv, TypeOK
<1>2. CASE ~Holds(w)
  <2>1. jobs' = jobs
    BY <1>2 DEF EndJob
  <2>. QED BY <1>1, <2>1 DEF JobFits, JobSound, Decided
<1>3. CASE Holds(w)
  <2>1. PICK j : j = [jobs[d] EXCEPT !.state = "completed", !.owner = None]
    OBVIOUS
  <2>2. j \in Job /\ j.state = "completed" /\ j.owner = None
    BY <1>1, <2>1 DEF Job
  <2>3. jobs' = [jobs EXCEPT ![d] = j]
    BY <1>1, <1>3, <2>1 DEF EndJob
  <2>4. jobs[d].state = "active"
    BY <1>3, WorkersDocument
  <2>. QED BY <1>1, <2>2, <2>3, <2>4 DEF JobFits
<1>. QED BY <1>2, <1>3

LEMMA ProcessSteps ==
  ASSUME IInv, NEW w \in Workers, Process(w)
  PROVE  IInv'
<1>. DEFINE d == worker[w].doc
<1>1. worker[w].pc # "idle"
  BY DEF Process, LoadDocument, MarkProcessing, FetchObject, ApplyScanVerdict
<1>2. /\ d \in Documents /\ rows[d] \in Row /\ scanned[d] \in SUBSET Verdicts
      /\ rows[d].upload \in {"uploaded", "rejected"} /\ RowSound(rows[d], scanned[d])
  BY <1>1, WorkersDocument
<1>3. /\ lost \in SUBSET Documents /\ faults \in 0 .. MaxFaults /\ rows \in [Documents -> Row]
      /\ scanned \in [Documents -> SUBSET Verdicts] /\ worker \in [Workers -> Worker]
      /\ bytes \in [Documents -> Verdicts \cup {None}]
  BY DEF IInv, TypeOK
<1>4. CASE LoadDocument(w)
  <2>1. UNCHANGED <<rows, storeVars, req, submitted, scanned, lost, faults>>
    BY <1>4 DEF LoadDocument, apiVars
  <2>2. CASE NothingToScan(rows[d])
    <3>1. EndJob(w)
      BY <1>4, <2>2 DEF LoadDocument
    <3>2. rows'[d].scan \in Verdicts
      BY <1>2, <2>1, <2>2 DEF NothingToScan, RowSound, Verdicts
    <3>3. WorkersFit(d)
      BY <1>2, <3>1, WorkerMoves DEF EndJob
    <3>. QED BY <1>1, <1>2, <1>3, <2>1, <3>1, <3>2, <3>3, EndJobFits, Kept, QueueStep
  <2>3. CASE ~NothingToScan(rows[d])
    <3>1. worker' = [worker EXCEPT ![w].pc = "mark"] /\ UNCHANGED jobs
      BY <1>4, <2>3 DEF LoadDocument
    <3>2. WorkersFit(d)
      BY <1>1, <1>2, <3>1, WorkerMoves
    <3>. QED BY <1>2, <1>3, <2>1, <3>1, <3>2, Kept, QueueStep
  <2>. QED BY <2>2, <2>3
<1>5. CASE MarkProcessing(w)
  <2>1. UNCHANGED <<storeVars, jobs, req, submitted, scanned, lost, faults>>
    BY <1>5 DEF MarkProcessing, apiVars
  <2>2. WorkersFit(d)
    BY <1>1, <1>2, <1>5, WorkerMoves DEF MarkProcessing
  <2>3. CASE ~StillUndecided(rows[d])
    <3>1. UNCHANGED rows
      BY <1>5, <2>3 DEF MarkProcessing
    <3>. QED BY <1>2, <1>3, <2>1, <2>2, <3>1, Kept, QueueStep
  <2>4. CASE StillUndecided(rows[d])
    <3>1. rows' = [rows EXCEPT ![d].scan = "processing"]
      BY <1>5, <2>4 DEF MarkProcessing
    <3>2. /\ rows'[d].scan = "processing" /\ rows'[d].upload = rows[d].upload
          /\ \A e \in Documents \ {d} : rows'[e] = rows[e]
          /\ rows' \in [Documents -> Row]
      BY <1>2, <1>3, <3>1 DEF Row
    <3>3. rows[d].scan \notin Verdicts
      BY <2>4, Shapes DEF StillUndecided
    <3>4. "processing" \notin Verdicts
      BY Shapes
    <3>5. RowFits(d)
      BY <1>2, <2>1, <3>2, <3>3, <3>4 DEF RowFits, RowSound, Decided
    <3>6. JobSound(d) /\ jobs \in [Documents -> Job]
      BY <1>2 DEF IInv, TypeOK
    <3>7. JobFits(d)
      BY <2>1, <3>3, <3>6 DEF JobFits, JobSound, Decided
    <3>. QED BY <1>2, <1>3, <2>1, <2>2, <3>5, <3>7, Kept, QueueStep
  <2>. QED BY <2>3, <2>4
<1>6. CASE FetchObject(w)
  <2>1. /\ UNCHANGED <<rows, storeVars, jobs, req, submitted, lost, faults>>
        /\ bytes[d] \in Verdicts
        /\ scanned' = [scanned EXCEPT ![d] = @ \cup {bytes[d]}]
    BY <1>2, <1>3, <1>6 DEF FetchObject, apiVars
  <2>2. scanned'[d] = scanned[d] \cup {bytes[d]} /\ ScannedFits
    BY <1>2, <1>3, <2>1 DEF ScannedFits
  <2>3. PICK k : k = [pc |-> "apply", doc |-> d, found |-> bytes[d]]
    OBVIOUS
  <2>4. k \in Worker /\ k.pc = "apply" /\ k.doc = d /\ k.found = bytes[d]
    BY <1>2, <2>1, <2>3 DEF Worker
  <2>5. worker' = [worker EXCEPT ![w] = k]
    BY <1>6, <2>3 DEF FetchObject
  <2>6. WorkersFit(d)
    BY <1>1, <1>3, <2>2, <2>4, <2>5 DEF WorkersFit
  <2>7. RowFits(d)
    BY <1>2, <1>3, <2>1, <2>2 DEF RowFits, RowSound, Decided, ScannedFits
  <2>. QED BY <1>2, <1>3, <2>1, <2>2, <2>6, <2>7, Kept, QueueStep
<1>7. CASE ApplyScanVerdict(w)
  <2>1. UNCHANGED <<storeVars, req, submitted, scanned, lost, faults>> /\ EndJob(w)
    BY <1>7 DEF ApplyScanVerdict, apiVars
  <2>. DEFINE v == worker[w].found
  <2>9. v \in scanned[d] /\ v \in Verdicts
    BY <1>1, <1>2, <1>7 DEF ApplyScanVerdict, IInv, WorkerSound
  <2>2. PICK row : row = [upload |-> UploadAfter(v), scan |-> v]
    OBVIOUS
  <2>3. row \in Row /\ row.scan = v /\ row.upload \in {"uploaded", "rejected"}
    BY <2>2, <2>9 DEF Row, UploadAfter
  <2>4. rows' = [rows EXCEPT ![d] = row]
    BY <1>7, <2>2 DEF ApplyScanVerdict
  <2>5. rows'[d] = row /\ rows' \in [Documents -> Row] /\ \A e \in Documents \ {d} : rows'[e] = rows[e]
    BY <1>2, <1>3, <2>3, <2>4
  <2>6. RowFits(d)
    BY <1>2, <2>1, <2>3, <2>5, <2>9 DEF RowFits, RowSound, Decided
  <2>7. JobFits(d)
    BY <1>1, <1>2, <2>1, <2>3, <2>5, <2>9, EndJobFits
  <2>8. WorkersFit(d)
    BY <1>2, <2>1, WorkerMoves DEF EndJob
  <2>. QED BY <1>2, <1>3, <2>1, <2>6, <2>7, <2>8, Kept, QueueStep
<1>. QED BY <1>4, <1>5, <1>6, <1>7 DEF Process

LEMMA TakeStep ==
  ASSUME IInv, NEW w \in Workers, NEW d \in Documents, Take(w, d)
  PROVE  IInv'
<1>1. /\ UNCHANGED <<rows, storeVars, req, submitted, scanned, lost, faults>>
      /\ jobs[d].state = "waiting" /\ worker[w].pc = "idle"
  BY DEF Take, apiVars
<1>2. lost \in SUBSET Documents /\ faults \in 0 .. MaxFaults
  BY DEF IInv, TypeOK
<1>3. jobs \in [Documents -> Job] /\ worker \in [Workers -> Worker] /\ JobSound(d)
  BY DEF IInv, TypeOK
<1>4. PICK j : j = [jobs[d] EXCEPT !.state = "active", !.owner = w]
  OBVIOUS
<1>5. j \in Job /\ j.state = "active" /\ j.tries = jobs[d].tries
  BY <1>3, <1>4 DEF Job
<1>6. jobs' = [jobs EXCEPT ![d] = j]
  BY <1>3, <1>4 DEF Take
<1>7. JobFits(d)
  BY <1>1, <1>3, <1>5, <1>6 DEF JobFits, JobSound
<1>8. PICK k : k = [pc |-> "load", doc |-> d, found |-> None]
  OBVIOUS
<1>9. k \in Worker /\ k.doc = d /\ k.pc = "load"
  BY <1>8 DEF Worker
<1>10. worker' = [worker EXCEPT ![w] = k]
  BY <1>8 DEF Take
<1>11. WorkersFit(d)
  BY <1>1, <1>3, <1>9, <1>10 DEF WorkersFit
<1>. QED BY <1>1, <1>2, <1>7, <1>11, Kept, QueueStep

LEMMA AttemptFailsStep ==
  ASSUME IInv, NEW w \in Workers, AttemptFails(w)
  PROVE  IInv'
<1>. DEFINE d == worker[w].doc
            n == jobs[d].tries + 1
<1>1. worker[w].pc # "idle" /\ UNCHANGED <<rows, storeVars, req, submitted, scanned>>
  BY DEF AttemptFails, apiVars
<1>2. /\ d \in Documents /\ jobs[d] \in Job
      /\ Holds(w) => jobs[d].state = "active" /\ jobs[d].tries < Attempts
  BY <1>1, WorkersDocument
<1>3. lost \in SUBSET Documents /\ jobs \in [Documents -> Job]
  BY DEF IInv, TypeOK
<1>4. faults' \in 0 .. MaxFaults
  BY BoundAssumption DEF AttemptFails, Fault, IInv, TypeOK
<1>5. WorkersFit(d)
  BY <1>2, WorkerMoves DEF AttemptFails
<1>6. CASE ~Holds(w)
  <2>1. UNCHANGED <<jobs, lost>>
    BY <1>6 DEF AttemptFails
  <2>. QED BY <1>1, <1>2, <1>3, <1>4, <1>5, <2>1, Kept, QueueStep
<1>7. CASE Holds(w)
  <2>1. lost' = IF n < Attempts THEN lost ELSE lost \cup {d}
    BY <1>7 DEF AttemptFails
  <2>2. PICK j : j = [jobs[d] EXCEPT !.state = IF n < Attempts THEN "waiting" ELSE "failed",
                                     !.tries = n, !.owner = None]
    OBVIOUS
  <2>3. jobs' = [jobs EXCEPT ![d] = j]
    BY <1>3, <1>7, <2>2 DEF AttemptFails
  <2>4. n \in 0 .. Attempts
    BY <1>2, <1>7, BoundAssumption DEF Job
  <2>5. /\ j.state = IF n < Attempts THEN "waiting" ELSE "failed"
        /\ j.tries = n /\ j.owner = None
    BY <1>2, <2>2 DEF Job
  <2>6. j \in Job
    BY <1>2, <2>2, <2>4 DEF Job
  <2>7. JobFits(d)
    BY <1>2, <1>3, <1>7, <2>1, <2>3, <2>5, <2>6 DEF JobFits
  <2>. QED BY <1>1, <1>2, <1>3, <1>4, <1>5, <2>1, <2>7, Kept, QueueStep
<1>. QED BY <1>6, <1>7

LEMMA LoseLockStep ==
  ASSUME IInv, NEW w \in Workers, LoseLock(w)
  PROVE  IInv'
<1>. DEFINE d == worker[w].doc
<1>1. /\ worker[w].pc # "idle" /\ Holds(w)
      /\ UNCHANGED <<rows, storeVars, req, submitted, scanned, lost>>
  BY DEF LoseLock, Holds, apiVars
<1>2. /\ d \in Documents /\ jobs[d] \in Job
      /\ jobs[d].state = "active" /\ jobs[d].tries < Attempts
  BY <1>1, WorkersDocument
<1>3. lost \in SUBSET Documents /\ jobs \in [Documents -> Job]
  BY DEF IInv, TypeOK
<1>4. faults' \in 0 .. MaxFaults
  BY BoundAssumption DEF LoseLock, Fault, IInv, TypeOK
<1>5. WorkersFit(d)
  BY <1>2, WorkerMoves, Kept DEF LoseLock
<1>6. jobs' = [jobs EXCEPT ![d].owner = None]
  BY DEF LoseLock
<1>7. PICK j : j = [jobs[d] EXCEPT !.owner = None]
  OBVIOUS
<1>8. j \in Job /\ j.state = "active" /\ j.tries = jobs[d].tries /\ j.owner = None
  BY <1>2, <1>7 DEF Job
<1>9. jobs' = [jobs EXCEPT ![d] = j]
  BY <1>3, <1>6, <1>7
<1>10. JobFits(d)
  BY <1>2, <1>3, <1>8, <1>9 DEF JobFits
<1>. QED BY <1>1, <1>2, <1>3, <1>4, <1>5, <1>10, Kept, QueueStep

LEMMA RecoverStalledStep ==
  ASSUME IInv, NEW d \in Documents, RecoverStalled(d)
  PROVE  IInv'
<1>1. /\ UNCHANGED <<rows, storeVars, worker, req, submitted, scanned, faults>>
      /\ jobs[d].state = "active" /\ jobs[d].owner = None
  BY DEF RecoverStalled, apiVars
<1>2. /\ lost \in SUBSET Documents /\ faults \in 0 .. MaxFaults
      /\ jobs \in [Documents -> Job] /\ jobs[d] \in Job /\ JobSound(d)
  BY DEF IInv, TypeOK
<1>3. CASE jobs[d].stalls < MaxStalls
  <2>1. lost' = lost
    BY <1>3 DEF RecoverStalled
  <2>2. PICK j : j = [jobs[d] EXCEPT !.state = "waiting", !.stalls = jobs[d].stalls + 1]
    OBVIOUS
  <2>3. jobs[d].stalls + 1 \in 0 .. MaxStalls
    BY <1>2, <1>3, BoundAssumption DEF Job
  <2>4. j \in Job /\ j.state = "waiting" /\ j.tries = jobs[d].tries /\ j.owner = None
    BY <1>1, <1>2, <2>2, <2>3 DEF Job
  <2>5. jobs' = [jobs EXCEPT ![d] = j]
    BY <1>2, <1>3, <2>2 DEF RecoverStalled
  <2>6. JobFits(d)
    BY <1>1, <1>2, <2>4, <2>5 DEF JobFits, JobSound
  <2>. QED BY <1>1, <1>2, <2>1, <2>6, Kept, QueueStep
<1>4. CASE ~(jobs[d].stalls < MaxStalls)
  <2>1. lost' = lost \cup {d}
    BY <1>4 DEF RecoverStalled
  <2>2. PICK j : j = [jobs[d] EXCEPT !.state = "failed"]
    OBVIOUS
  <2>3. j \in Job /\ j.state = "failed" /\ j.owner = None
    BY <1>1, <1>2, <2>2 DEF Job
  <2>4. jobs' = [jobs EXCEPT ![d] = j]
    BY <1>2, <1>4, <2>2 DEF RecoverStalled
  <2>5. JobFits(d)
    BY <1>1, <1>2, <2>1, <2>3, <2>4 DEF JobFits
  <2>. QED BY <1>1, <1>2, <2>1, <2>5, Kept, QueueStep
<1>. QED BY <1>3, <1>4

LEMMA EvictStep ==
  ASSUME IInv, NEW d \in Documents, Evict(d)
  PROVE  IInv'
<1>1. /\ UNCHANGED <<rows, storeVars, worker, req, submitted, scanned, lost, faults>>
      /\ jobs[d].state \in {"completed", "failed"} /\ jobs' = [jobs EXCEPT ![d] = NoJob]
  BY DEF Evict, apiVars
<1>2. /\ lost \in SUBSET Documents /\ faults \in 0 .. MaxFaults /\ jobs \in [Documents -> Job]
  BY DEF IInv, TypeOK
<1>3. 0 < Attempts
  BY BoundAssumption
<1>4. JobFits(d)
  BY <1>1, <1>2, <1>3, Shapes DEF JobFits
<1>. QED BY <1>1, <1>2, <1>4, Kept, QueueStep

\* Nothing but the types speaks of the object store and its bound.
LEMMA RestKept ==
  ASSUME IInv, TypeOK', UNCHANGED <<rows, jobs, req, worker, submitted, scanned, lost, faults>>
  PROVE  IInv'
<1>. USE DEF IInv
<1>1. AwaitedVerdictHasJob' /\ SubmittedFieldsClean'
  BY DEF AwaitedVerdictHasJob, SubmittedFieldsClean, Decided
<1>2. \A e \in Documents : (RowSound(rows[e], scanned[e]) /\ JobSound(e))'
  BY DEF RowSound, JobSound, Decided
<1>3. (\A w \in Workers : WorkerSound(w)') /\ \A r \in Requests : RequestSound(r)'
  BY DEF WorkerSound, RequestSound, FieldSound
<1>. QED BY <1>1, <1>2, <1>3

LEMMA PutObjectStep ==
  ASSUME IInv, NEW d \in Documents, PutObject(d)
  PROVE  IInv'
<1>1. /\ UNCHANGED <<rows, jobs, req, worker, submitted, scanned, lost, faults>>
      /\ puts' \in 0 .. MaxPuts /\ bytes' \in [Documents -> Verdicts \cup {None}]
  BY BoundAssumption DEF PutObject, IInv, TypeOK
<1>2. TypeOK'
  BY <1>1 DEF IInv, TypeOK
<1>. QED BY <1>1, <1>2, RestKept

LEMMA StutterStep ==
  ASSUME IInv, UNCHANGED vars
  PROVE  IInv'
<1>1. TypeOK'
  BY DEF IInv, TypeOK, vars, storeVars
<1>. QED BY <1>1, RestKept DEF vars

LEMMA NextIInv == IInv /\ [Next]_vars => IInv'
<1>. SUFFICES ASSUME IInv, [Next]_vars PROVE IInv'
  OBVIOUS
<1>1. ASSUME NEW r \in Requests, Call(r) \/ Continue(r) \/ RequestDies(r) PROVE IInv'
  BY <1>1, CallSteps, ContinueSteps, SaveUploadedStep, InsertIntentStep, EnqueueScanStep DEF Continue
<1>2. ASSUME NEW w \in Workers, Process(w) \/ AttemptFails(w) \/ LoseLock(w) PROVE IInv'
  BY <1>2, ProcessSteps, AttemptFailsStep, LoseLockStep
<1>3. ASSUME NEW d \in Documents, PutObject(d) \/ RecoverStalled(d) \/ Evict(d) PROVE IInv'
  BY <1>3, PutObjectStep, RecoverStalledStep, EvictStep
<1>4. ASSUME NEW w \in Workers, NEW d \in Documents, Take(w, d) PROVE IInv'
  BY <1>4, TakeStep
<1>. QED BY <1>1, <1>2, <1>3, <1>4, StutterStep DEF Next

\* The scan status of a decided document: no step but the two of the worker writes one, and of
\* these one leaves decided rows alone and the other writes what that worker found.
LEMMA DecidedKept ==
  ASSUME IInv, [Next]_vars, NEW d \in Documents, Decided(d)
  PROVE  rows'[d].scan = rows[d].scan \/ rows'[d].scan \in scanned[d]
<1>. DEFINE Goal == rows'[d].scan = rows[d].scan \/ rows'[d].scan \in scanned[d]
<1>1. rows \in [Documents -> Row] /\ rows[d] \in Row
  BY DEF IInv, TypeOK
<1>2. ASSUME rows' = rows PROVE Goal
  BY <1>2
<1>3. ASSUME NEW r \in Requests, Call(r) \/ Continue(r) \/ RequestDies(r) PROVE Goal
  <2>1. rows'[d].scan = rows[d].scan
    BY <1>1, <1>3 DEF Call, Continue, CreateUploadIntent, SubmitDraft, ConfirmUpload, InsertIntent,
       HeadObject, SaveUploaded, EnqueueScan, SubmitCreated, SaveSubmission, RequestDies, Row
  <2>. QED BY <2>1
<1>4. ASSUME NEW w \in Workers, Process(w) \/ AttemptFails(w) \/ LoseLock(w) PROVE Goal
  <2>1. CASE MarkProcessing(w)
    <3>1. StillUndecided(rows[d]) => FALSE
      BY Shapes DEF StillUndecided, Decided
    <3>2. rows'[d] = rows[d]
      BY <1>1, <2>1, <3>1 DEF MarkProcessing
    <3>. QED BY <3>2
  <2>2. CASE ApplyScanVerdict(w)
    <3>. DEFINE v == worker[w].found
    <3>1. PICK row : row = [upload |-> UploadAfter(v), scan |-> v]
      OBVIOUS
    <3>2. worker[w].doc = d => row.scan \in scanned[d]
      BY <2>2, <3>1 DEF ApplyScanVerdict, IInv, WorkerSound
    <3>3. rows' = [rows EXCEPT ![worker[w].doc] = row]
      BY <2>2, <3>1 DEF ApplyScanVerdict
    <3>. QED BY <1>1, <3>2, <3>3
  <2>3. CASE LoadDocument(w) \/ FetchObject(w) \/ AttemptFails(w) \/ LoseLock(w)
    BY <1>2, <2>3 DEF LoadDocument, FetchObject, AttemptFails, LoseLock
  <2>. QED BY <1>4, <2>1, <2>2, <2>3 DEF Process
<1>5. ASSUME NEW e \in Documents, PutObject(e) \/ RecoverStalled(e) \/ Evict(e) PROVE Goal
  BY <1>2, <1>5 DEF PutObject, RecoverStalled, Evict
<1>6. ASSUME NEW w \in Workers, NEW e \in Documents, Take(w, e) PROVE Goal
  BY <1>2, <1>6 DEF Take
<1>. QED BY <1>2, <1>3, <1>4, <1>5, <1>6 DEF Next, vars

-----------------------------------------------------------------------------
(* The theorems *)

\* The rows, jobs, handlers and workers stay within their types, and the counters of attempts,
\* stalls and faults within their bounds.
THEOREM TypeCorrect == Spec => []TypeOK
<1>1. IInv => TypeOK
  BY DEF IInv
<1>. QED BY <1>1, InitIInv, NextIInv, PTL DEF Spec

\* Whatever dies or throws between confirmUpload's update and the end of processScan, a
\* confirmed document that waits for its verdict has a job, a handler about to add one, or is
\* one of those known to be lost.
THEOREM AwaitedVerdictHasJobHolds == Spec => []AwaitedVerdictHasJob
<1>1. IInv => AwaitedVerdictHasJob
  BY DEF IInv
<1>. QED BY <1>1, InitIInv, NextIInv, PTL DEF Spec

\* What submitDraft read as clean was found clean by a worker, and when the draft is saved, and
\* ever after, the document shows what workers found in its files.
THEOREM SubmittedFieldsCleanHolds == Spec => []SubmittedFieldsClean
<1>1. IInv => SubmittedFieldsClean
  BY DEF IInv
<1>. QED BY <1>1, InitIInv, NextIInv, PTL DEF Spec

\* However often a job is delivered, applyScanVerdict and the conditional update to processing
\* leave a decided document with a verdict some worker found in a file it fetched for it: the
\* one it had, unless two fetches found two different files.
THEOREM VerdictStandsHolds == Spec => VerdictStands
<1>. DEFINE Step == \A d \in Documents : Decided(d) => {rows[d].scan, rows'[d].scan} \subseteq scanned[d]
<1>1. ASSUME IInv, [Next]_vars PROVE [Step]_vars
  <2>1. ASSUME NEW d \in Documents, Decided(d) PROVE {rows[d].scan, rows'[d].scan} \subseteq scanned[d]
    <3>1. RowSound(rows[d], scanned[d])
      BY <1>1 DEF IInv
    <3>2. rows[d].scan \in scanned[d]
      BY <2>1, <3>1 DEF RowSound, Decided
    <3>3. rows'[d].scan = rows[d].scan \/ rows'[d].scan \in scanned[d]
      BY <1>1, <2>1, DecidedKept
    <3>. QED BY <3>2, <3>3
  <2>. QED BY <2>1
<1>. QED BY <1>1, InitIInv, NextIInv, PTL DEF Spec, VerdictStands

=============================================================================
