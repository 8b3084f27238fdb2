---------------------------- MODULE ProcessingJobs ----------------------------
(***************************************************************************)
(* The jobs of the reference server                                        *)
(* (backend/integration/http_reference_server.py): context discovery,      *)
(* which extracts Zeek evidence and registers it, and PCAP analysis, which *)
(* leases retained evidence (or runs Zeek itself) and saves a report.      *)
(* Each job is one thread of EvidenceCache: the request handler first, the *)
(* worker it starts afterwards. Clients poll, cancel and prune jobs while  *)
(* workers run; a worker's check of the cancel flag and its update of the  *)
(* job are separate critical sections, and so are they here.               *)
(*                                                                         *)
(* The server runs with authentication enabled, so the report store and    *)
(* the capture store are present; they appear as the sets of what they     *)
(* hold.                                                                   *)
(***************************************************************************)
EXTENDS EvidenceCache

CONSTANTS Discoveries,   \* identities of context-discovery jobs
          Analyses,      \* identities of analysis jobs
          FinishedTTL,   \* FINISHED_JOB_TTL_SECONDS, in ticks
          StuckUploads,  \* jobs whose temporary file cannot be unlinked
          NoPcap         \* "no capture"

ASSUME JobsAssumption == /\ Threads = Discoveries \cup Analyses
                         /\ Discoveries \cap Analyses = {}
ASSUME FinishedTTLAssumption == FinishedTTL \in Nat
ASSUME NoPcapAssumption == NoPcap \notin Pcaps

VARIABLES
    pc,          \* where the handler or worker of a job is
    status,      \* the "status" field; "none" when the table has no such job
    canceled,    \* the "cancelRequested" field
    finishedAt,  \* "updatedAt" of a finished job; nothing reads it earlier
    request,     \* what the client asked for; a discovery keeps the token of
                 \* the evidence it makes here
    known,       \* tokens returned to the client, which may keep them forever
    temps,       \* jobs whose upload or copy is in the temporary directory
    captures,    \* retained captures (CaptureStore)
    reports      \* jobs whose report is saved (ReportStore)

jobVars == <<pc, status, canceled, finishedAt, request, known, temps,
             captures, reports>>
vars == <<evidenceVars, jobVars>>

Finished == {"completed", "failed", "canceled"}
Statuses == {"none", "queued", "running", "canceling"} \cup Finished

(* "lost": the process stopped under the job. "rejected": the request got  *)
(* an error before a job existed. "abandoned": it got one afterwards.      *)
(* "stillborn": the worker raised outside its try block.                   *)
HandlerSteps == {"snapshot", "precheck", "prerelease", "copy", "insert",
                 "checkcapture"}
WorkerSteps  == {"mkdir", "acquire", "working", "progressing", "register",
                 "retain", "save", "saved", "complete", "raised", "erring",
                 "finally", "unlink"}
EndSteps     == {"absent", "done", "rejected", "abandoned", "stillborn",
                 "lost"}

Request == [token : Tokens \cup {NoToken}, pcap : Pcaps \cup {NoPcap},
            capture : Pcaps \cup {NoPcap}]
NoRequest == [token |-> NoToken, pcap |-> NoPcap, capture |-> NoPcap]

JobsTypeOK ==
    /\ TypeOK
    /\ pc \in [Threads -> HandlerSteps \cup WorkerSteps \cup EndSteps]
    /\ status \in [Threads -> Statuses]
    /\ canceled \in [Threads -> BOOLEAN]
    /\ finishedAt \in [Threads -> Nat]
    /\ request \in [Threads -> Request]
    /\ known \in SUBSET Tokens
    /\ temps \in SUBSET Threads
    /\ captures \in SUBSET Pcaps
    /\ reports \in SUBSET Analyses

Init ==
    /\ EvidenceInit
    /\ pc = [j \in Threads |-> "absent"]
    /\ status = [j \in Threads |-> "none"]
    /\ canceled = [j \in Threads |-> FALSE]
    /\ finishedAt = [j \in Threads |-> 0]
    /\ request = [j \in Threads |-> NoRequest]
    /\ known = {}
    /\ temps = {}
    /\ captures = {}
    /\ reports = {}

-----------------------------------------------------------------------------
(* Steps of a thread. *)

Goto(j, from, to) == /\ Running
                     /\ pc[j] = from
                     /\ pc' = [pc EXCEPT ![j] = to]

(* _job_update and _analysis_job_update: no effect on a job that is gone. *)
SetStatus(j, s) ==
    /\ status' = [status EXCEPT ![j] = IF @ = "none" THEN "none" ELSE s]
    /\ finishedAt' = [finishedAt EXCEPT
                         ![j] = IF s \in Finished /\ status[j] # "none" THEN now ELSE @]

(* _raise_if_..._canceled *)
UnlessCanceled(j, from, to) ==
    Goto(j, from, IF canceled[j] THEN "raised" ELSE to)

-----------------------------------------------------------------------------
(* Requests. *)

(* An upload that cannot be written: the error may leave a part of it.     *)
RejectUpload(j) ==
    /\ Goto(j, "absent", "rejected")
    /\ temps' \in {temps, temps \cup {j}}

(* POST pcap-context-discovery: store the upload, enter the job, start the *)
(* worker.                                                                 *)
PostDiscovery(j, p) ==
    /\ process = "serving"
    /\ \/ /\ Goto(j, "absent", "mkdir")
          /\ temps' = temps \cup {j}
          /\ status' = [status EXCEPT ![j] = "queued"]
       \/ RejectUpload(j) /\ UNCHANGED status
    /\ request' = [request EXCEPT ![j] = [NoRequest EXCEPT !.pcap = p]]
    /\ UNCHANGED <<evidenceVars, canceled, finishedAt, known, captures,
                   reports>>

(* POST pcap-analysis with an evidence token. The client holds a token it  *)
(* was given, names the capture it believes it belongs to, and may name a  *)
(* retained capture.                                                       *)
PostReuse(j, k, p, c) ==
    /\ process = "serving"
    /\ k \in known
    /\ Goto(j, "absent", "snapshot")
    /\ request' = [request EXCEPT ![j] = [token |-> k, pcap |-> p, capture |-> c]]
    /\ UNCHANGED <<evidenceVars, status, canceled, finishedAt, known, temps,
                   captures, reports>>

(* POST pcap-analysis with an upload: retain the capture, then store the   *)
(* upload for the worker; each may fail before a job exists.               *)
PostUpload(j, p) ==
    /\ process = "serving"
    /\ \/ /\ Goto(j, "absent", "insert")
          /\ captures' = captures \cup {p}
          /\ temps' = temps \cup {j}
       \/ /\ RejectUpload(j)
          /\ captures' = captures \cup {p}
       \/ /\ Goto(j, "absent", "rejected")
          /\ UNCHANGED <<captures, temps>>
    /\ request' = [request EXCEPT ![j] =
                      [token |-> NoToken, pcap |-> p, capture |-> p]]
    /\ UNCHANGED <<evidenceVars, status, canceled, finishedAt, known, reports>>

(* POST captures/<id>/analyze: the capture is looked up ...                *)
PostRetained(j, p) ==
    /\ process = "serving"
    /\ p \in captures
    /\ Goto(j, "absent", "copy")
    /\ request' = [request EXCEPT ![j] =
                      [token |-> NoToken, pcap |-> p, capture |-> p]]
    /\ UNCHANGED <<evidenceVars, status, canceled, finishedAt, known, temps,
                   captures, reports>>

(* ... and copied to a temporary file that already exists when the copy    *)
(* fails because the capture has been deleted meanwhile.                   *)
CopyRetained(j) ==
    /\ temps' = temps \cup {j}
    /\ \/ /\ request[j].pcap \in captures
          /\ Goto(j, "copy", "working")
          /\ status' = [status EXCEPT ![j] = "queued"]
       \/ /\ request[j].pcap \notin captures
          /\ Goto(j, "copy", "rejected")
          /\ UNCHANGED status
    /\ UNCHANGED <<evidenceVars, canceled, finishedAt, request, known,
                   captures, reports>>

InsertAnalysis(j) ==
    /\ Goto(j, "insert", "checkcapture")
    /\ status' = [status EXCEPT ![j] = "queued"]
    /\ UNCHANGED <<evidenceVars, canceled, finishedAt, request, known, temps,
                   captures, reports>>

(* The job is in the table when the capture is looked up: a 404 leaves it  *)
(* there and starts no worker.                                             *)
CheckCapture(j) ==
    /\ \/ /\ request[j].capture \in captures \cup {NoPcap}
          /\ Goto(j, "checkcapture",
                  IF request[j].token = NoToken THEN "working" ELSE "acquire")
       \/ /\ request[j].capture \notin captures \cup {NoPcap}
          /\ Goto(j, "checkcapture", "abandoned")
    /\ UNCHANGED <<evidenceVars, status, canceled, finishedAt, request, known,
                   temps, captures, reports>>

(* Fault: a cancellation that does not look whether the job is finished. *)
CancelFinishedToo(j) ==
    /\ process = "serving"
    /\ status[j] # "none"
    /\ canceled' = [canceled EXCEPT ![j] = TRUE]
    /\ status' = [status EXCEPT ![j] = "canceling"]
    /\ UNCHANGED <<evidenceVars, pc, finishedAt, request, known, temps,
                   captures, reports>>

(* DELETE on the job: a finished job stays as it is.                       *)
Cancel(j) ==
    /\ process = "serving"
    /\ status[j] \in {"queued", "running", "canceling"}
    /\ canceled' = [canceled EXCEPT ![j] = TRUE]
    /\ status' = [status EXCEPT ![j] = "canceling"]
    /\ UNCHANGED <<evidenceVars, pc, finishedAt, request, known, temps,
                   captures, reports>>

(* GET processing-jobs prunes one table, then the other.                   *)
Prune(table) ==
    /\ process = "serving"
    /\ LET old == {j \in table : /\ status[j] \in Finished
                                 /\ now - finishedAt[j] > FinishedTTL}
       IN /\ old # {}
          /\ status' = [j \in Threads |-> IF j \in old THEN "none" ELSE status[j]]
          /\ canceled' = [j \in Threads |-> j \notin old /\ canceled[j]]
          /\ finishedAt' = [j \in Threads |-> IF j \in old THEN 0 ELSE finishedAt[j]]
    /\ UNCHANGED <<evidenceVars, pc, request, known, temps, captures, reports>>

(* A capture is deleted by its owner or expires.                           *)
DropCapture(p) ==
    /\ process = "serving"
    /\ p \in captures
    /\ captures' = captures \ {p}
    /\ UNCHANGED <<evidenceVars, pc, status, canceled, finishedAt, request,
                   known, temps, reports>>

-----------------------------------------------------------------------------
(* Evidence operations, run by the thread of a job.                        *)

SweepSteps == {"snapshot", "precheck", "acquire", "register"}

SweepFor(j) ==
    /\ pc[j] \in SweepSteps
    /\ Sweep(j) \/ RemoveSwept(j)
    /\ UNCHANGED jobVars

TakeSnapshot(j) ==
    /\ LookUp(j)
    /\ Goto(j, "snapshot", IF Cached(request[j].token) THEN "precheck"
                                                        ELSE "rejected")
    /\ UNCHANGED <<status, canceled, finishedAt, request, known, temps,
                   captures, reports>>

(* The handler leases the evidence to validate the request and returns the *)
(* lease at once; the worker leases it again. Either fails when the        *)
(* evidence is not usable, or when no Zeek runtime can be resolved to      *)
(* compare with.                                                           *)
LeaseFor(j, from, ok, fail) ==
    /\ \/ /\ Acquire(j, request[j].token, request[j].pcap)
          /\ Goto(j, from, ok)
       \/ LookUp(j) /\ Goto(j, from, fail)
    /\ UNCHANGED <<status, canceled, finishedAt, request, known, temps,
                   captures, reports>>

(* Fault: a worker that only validates. *)
AcquireWithoutLease(j) ==
    /\ LookUp(j)
    /\ Goto(j, "acquire", IF Usable(request[j].token, request[j].pcap)
                          THEN "working" ELSE "erring")
    /\ UNCHANGED <<status, canceled, finishedAt, request, known, temps,
                   captures, reports>>

Precheck(j) == LeaseFor(j, "precheck", "prerelease", "rejected")
AcquireForAnalysis(j) == LeaseFor(j, "acquire", "working", "erring")

Return(j, from) ==
    /\ pc[j] = from
    /\ Release(j)
    /\ UNCHANGED jobVars

(* After the directories of a released lease are gone, or when there was   *)
(* no lease to return, the thread goes on.                                 *)
Returned(j, from, to) ==
    /\ Goto(j, from, to)
    /\ \/ RemoveReleased(j)
       \/ /\ phase[j] = "idle"
          /\ lease[j] = NoToken
          /\ extracting[j] = NoToken
          /\ UNCHANGED evidenceVars
    /\ UNCHANGED <<status, canceled, finishedAt, request, known, temps,
                   captures, reports>>

-----------------------------------------------------------------------------
(* Workers.                                                                *)

MakeEvidenceDir(j, k) ==
    /\ StartExtraction(j, k)
    /\ Goto(j, "mkdir", "working")
    /\ request' = [request EXCEPT ![j].token = k]
    /\ UNCHANGED <<status, canceled, finishedAt, known, temps, captures,
                   reports>>

(* mkdtemp raises ahead of the try block: the thread is gone, the job and  *)
(* the upload stay.                                                        *)
FailEvidenceDir(j) ==
    /\ Goto(j, "mkdir", "stillborn")
    /\ UNCHANGED <<evidenceVars, status, canceled, finishedAt, request, known,
                   temps, captures, reports>>

(* progress(): the check ...                                               *)
CheckProgress(j) ==
    /\ UnlessCanceled(j, "working", "progressing")
    /\ UNCHANGED <<evidenceVars, status, canceled, finishedAt, request, known,
                   temps, captures, reports>>

(* ... and the update, which overwrites a "canceling" entered in between.  *)
UpdateProgress(j) ==
    /\ Goto(j, "progressing", "working")
    /\ SetStatus(j, "running")
    /\ UNCHANGED <<evidenceVars, canceled, request, known, temps, captures,
                   reports>>

(* Fault: a worker that does not look at the flag when its work is done. *)
EndWorkUnchecked(j) ==
    /\ \/ Goto(j, "working", IF j \in Discoveries THEN "register" ELSE "save")
       \/ Goto(j, "working", "erring")
    /\ UNCHANGED <<evidenceVars, status, canceled, finishedAt, request, known,
                   temps, captures, reports>>

(* Extraction or analysis ends in an exception, or in a result, which the  *)
(* worker uses only if the job has not been canceled.                      *)
EndWork(j) ==
    /\ \/ UnlessCanceled(j, "working", IF j \in Discoveries THEN "register"
                                                            ELSE "save")
       \/ Goto(j, "working", "erring")
    /\ UNCHANGED <<evidenceVars, status, canceled, finishedAt, request, known,
                   temps, captures, reports>>

(* _register_evidence; it raises when no Zeek runtime can be resolved.     *)
RegisterEvidence(j) ==
    /\ \/ Register(j, request[j].pcap) /\ Goto(j, "register", "retain")
       \/ LookUp(j) /\ Goto(j, "register", "erring")
    /\ UNCHANGED <<status, canceled, finishedAt, request, known, temps,
                   captures, reports>>

(* save_bytes succeeds, or raises (quota, store closed or unreachable).    *)
RetainCapture(j) ==
    /\ \/ /\ process = "serving"
          /\ Goto(j, "retain", "saved")
          /\ captures' = captures \cup {request[j].pcap}
       \/ /\ Goto(j, "retain", "erring")
          /\ UNCHANGED captures
    /\ UNCHANGED <<evidenceVars, status, canceled, finishedAt, request, known,
                   temps, reports>>

(* Fault: an error of the report store is swallowed. *)
SaveReportOrIgnore(j) ==
    /\ Goto(j, "save", "saved")
    /\ reports' = IF process = "serving" THEN reports \cup {j} ELSE reports
    /\ UNCHANGED <<evidenceVars, status, canceled, finishedAt, request, known,
                   temps, captures>>

(* The report store saves the report; or it raises before the report is    *)
(* visible, or after.                                                      *)
SaveReport(j) ==
    /\ \/ /\ process = "serving"
          /\ Goto(j, "save", "saved") \/ Goto(j, "save", "erring")
          /\ reports' = reports \cup {j}
       \/ /\ Goto(j, "save", "erring")
          /\ UNCHANGED reports
    /\ UNCHANGED <<evidenceVars, status, canceled, finishedAt, request, known,
                   temps, captures>>

CheckSaved(j) ==
    /\ UnlessCanceled(j, "saved", "complete")
    /\ UNCHANGED <<evidenceVars, status, canceled, finishedAt, request, known,
                   temps, captures, reports>>

(* The result of a discovery carries its token to the client.              *)
Complete(j) ==
    /\ Goto(j, "complete", "finally")
    /\ SetStatus(j, "completed")
    /\ known' = known \cup (IF j \in Discoveries THEN {request[j].token} ELSE {})
    /\ UNCHANGED <<evidenceVars, canceled, request, temps, captures, reports>>

(* Fault: a job that is canceled has no exception handler. *)
FailOnlyErrors(j) ==
    /\ Goto(j, "erring", "finally") /\ SetStatus(j, "failed")
    /\ UNCHANGED <<evidenceVars, canceled, request, known, temps, captures,
                   reports>>

(* The exception handlers. *)
Fail(j) ==
    /\ \/ Goto(j, "raised", "finally") /\ SetStatus(j, "canceled")
       \/ Goto(j, "erring", "finally") /\ SetStatus(j, "failed")
    /\ UNCHANGED <<evidenceVars, canceled, request, known, temps, captures,
                   reports>>

(* Fault: the evidence is deleted although it was registered. *)
CleanUpRegistered(j) ==
    /\ Goto(j, "finally", "unlink")
    /\ dirs' = Remaining({request[j].token})
    /\ extracting' = [extracting EXCEPT ![j] = NoToken]
    /\ UNCHANGED <<process, now, signature, cache, issued, madeWith, phase,
                   doomed, lease, exitDoomed, status, canceled, finishedAt,
                   request, known, temps, captures, reports>>

(* The finally branch: the lease is returned, or evidence that was not     *)
(* registered is deleted; then the temporary file goes.                    *)
CleanUp(j) ==
    \/ Return(j, "finally")
    \/ /\ DiscardExtraction(j)
       /\ Goto(j, "finally", "unlink")
       /\ UNCHANGED <<status, canceled, finishedAt, request, known, temps,
                      captures, reports>>
    \/ Returned(j, "finally", "unlink")

(* Fault: the upload stays in the temporary directory of a canceled job. *)
UnlinkUnlessCanceled(j) ==
    /\ Goto(j, "unlink", "done")
    /\ temps' = IF canceled[j] THEN temps ELSE temps \ ({j} \ StuckUploads)
    /\ UNCHANGED <<evidenceVars, status, canceled, finishedAt, request, known,
                   captures, reports>>

(* An OSError of the unlink is passed over.                                *)
Unlink(j) ==
    /\ Goto(j, "unlink", "done")
    /\ temps' = temps \ ({j} \ StuckUploads)
    /\ UNCHANGED <<evidenceVars, status, canceled, finishedAt, request, known,
                   captures, reports>>

-----------------------------------------------------------------------------
(* The process. *)

(* What lives in memory is lost with the process; temporary files, the     *)
(* stores and the client's tokens are not.                                 *)
StopJobs ==
    /\ Stop
    /\ pc' = [j \in Threads |-> IF pc[j] = "absent" THEN "absent" ELSE "lost"]
    /\ status' = [j \in Threads |-> "none"]
    /\ canceled' = [j \in Threads |-> FALSE]
    /\ finishedAt' = [j \in Threads |-> 0]
    /\ request' = [j \in Threads |-> NoRequest]
    /\ UNCHANGED <<known, temps, captures, reports>>

Environment ==
    \/ (Tick \/ ChangeRuntime \/ Exit \/ RemoveAtExit \/ Restart) /\ UNCHANGED jobVars
    \/ StopJobs

Client ==
    \/ \E j \in Discoveries, p \in Pcaps : PostDiscovery(j, p)
    \/ \E j \in Analyses, p \in Pcaps :
          \/ \E k \in Tokens, c \in Pcaps \cup {NoPcap} : PostReuse(j, k, p, c)
          \/ PostUpload(j, p)
          \/ PostRetained(j, p)
    \/ \E j \in Threads : Cancel(j)
    \/ Prune(Discoveries)
    \/ Prune(Analyses)
    \/ \E p \in Pcaps : DropCapture(p)

HandlerStep(j) ==
    \/ CopyRetained(j)
    \/ TakeSnapshot(j)
    \/ Precheck(j)
    \/ Return(j, "prerelease")
    \/ Returned(j, "prerelease", "insert")
    \/ InsertAnalysis(j)
    \/ CheckCapture(j)

WorkerStep(j) ==
    \/ \E k \in Tokens : MakeEvidenceDir(j, k)
    \/ FailEvidenceDir(j)
    \/ AcquireForAnalysis(j)
    \/ CheckProgress(j)
    \/ UpdateProgress(j)
    \/ EndWork(j)
    \/ RegisterEvidence(j)
    \/ RetainCapture(j)
    \/ SaveReport(j)
    \/ CheckSaved(j)
    \/ Complete(j)
    \/ Fail(j)
    \/ CleanUp(j)
    \/ Unlink(j)

JobStep(j) == SweepFor(j) \/ HandlerStep(j) \/ WorkerStep(j)

Next == Environment \/ Client \/ \E j \in Threads : JobStep(j)

Spec == Init /\ [][Next]_vars

(* Threads are scheduled; Zeek, log parsing and the detectors terminate,   *)
(* so the progress loop of a worker is left in the end.                    *)
Fairness == \A j \in Threads : WF_vars(JobStep(j)) /\ SF_vars(EndWork(j))

FairSpec == Spec /\ Fairness
-----------------------------------------------------------------------------
(* Steps at which an analysis of retained evidence reads the evidence.     *)
Reads(j) == /\ j \in Analyses
            /\ request[j].token # NoToken
            /\ pc[j] \in {"working", "progressing", "save", "saved",
                          "complete"}

(* An analysis of retained evidence has that very evidence on disk from    *)
(* the moment it is leased to the end of the job, whatever other requests, *)
(* expiry, cancellations and prunings do meanwhile.                        *)
AnalysisHasEvidence ==
    process = "serving" => \A j \in Analyses : Reads(j) =>
        lease[j] = request[j].token /\ request[j].token \in dirs

(* A worker that has ended left nothing behind: no lease, no unregistered  *)
(* directory, no temporary file (if that can be unlinked), and a job that  *)
(* is finished or pruned.                                                  *)
EndsClean(j) ==
    pc[j] = "done" => /\ lease[j] = NoToken
                      /\ extracting[j] = NoToken
                      /\ j \in temps => j \in StuckUploads
                      /\ status[j] \in Finished \cup {"none"}

(* The response to a request that was rejected before a job existed leaves *)
(* no lease either: the validating lease was returned.                     *)
RejectedHoldsNothing(j) ==
    pc[j] \in {"rejected", "abandoned"} => lease[j] = NoToken

(* The parts of the inductive invariant that are not properties of their   *)
(* own. The steps that a job of one kind never takes.                      *)
Steps == HandlerSteps \cup WorkerSteps \cup EndSteps

Route(j) ==
    /\ j \in Discoveries => pc[j] \in Steps \ (HandlerSteps \cup
                                {"acquire", "save", "abandoned"})
    /\ j \in Analyses => pc[j] \in Steps \ {"mkdir", "register", "retain",
                                            "stillborn"}

(* What is known of the request at a step: its capture, the token of the   *)
(* directory a discovery has made, and that a retained capture is analysed *)
(* without one.                                                            *)
RequestKnown(j) ==
    /\ pc[j] \notin {"absent", "lost"} => request[j].pcap \in Pcaps
    /\ j \in Discoveries /\ pc[j] \notin {"absent", "mkdir", "rejected",
                                          "stillborn", "lost"}
          => request[j].token \in Tokens
    /\ pc[j] = "copy" => request[j].token = NoToken

(* Only a discovery fills a directory, and only until it cleans up.        *)
ExtractionInHand(j) ==
    extracting[j] # NoToken =>
        /\ j \in Discoveries
        /\ extracting[j] = request[j].token
        /\ pc[j] \in {"working", "progressing", "register", "raised", "erring",
                      "finally"}

(* Only an analysis holds a lease: in its handler between the validation   *)
(* and the return, in its worker from the second lease to the cleanup. A   *)
(* reader has its lease, also while the process exits.                     *)
LeaseInHand(j) ==
    /\ lease[j] # NoToken =>
          /\ j \in Analyses
          /\ lease[j] = request[j].token
          /\ pc[j] \in {"prerelease", "working", "progressing", "save",
                        "saved", "complete", "raised", "erring", "finally"}
    /\ phase[j] = "freeing" => /\ pc[j] \in {"prerelease", "finally"}
                               /\ lease[j] = NoToken
                               /\ extracting[j] = NoToken
    /\ Reads(j) => lease[j] = request[j].token

(* The job is in its table from its entry to the end of its worker, and    *)
(* finished exactly when the worker has only to clean up.                  *)
StatusFollows(j) ==
    /\ pc[j] \in {"absent", "snapshot", "precheck", "prerelease", "copy",
                  "insert", "rejected", "lost"} => status[j] = "none"
    /\ status[j] \in Finished => pc[j] \in {"finally", "unlink", "done"}
    /\ pc[j] \in {"finally", "unlink", "done"} =>
          status[j] \in Finished \cup {"none"}
    /\ status[j] = "none" => pc[j] \in (HandlerSteps \ {"checkcapture"})
                                 \cup EndSteps \cup {"finally", "unlink"}

(* A report is saved by one step of the worker of its analysis, and stays  *)
(* when the job is completed.                                              *)
ReportFollows(j) ==
    /\ j \in Analyses /\ pc[j] \in {"saved", "complete"} => j \in reports
    /\ j \in Analyses /\ status[j] = "completed" => j \in reports
    /\ j \in reports => pc[j] \in {"saved", "complete", "raised", "erring",
                                   "finally", "unlink", "done", "lost"}

JobSound(j) ==
    /\ EndsClean(j)
    /\ RejectedHoldsNothing(j)
    /\ Route(j)
    /\ RequestKnown(j)
    /\ ExtractionInHand(j)
    /\ LeaseInHand(j)
    /\ StatusFollows(j)
    /\ ReportFollows(j)

(* Whatever way a request or a worker ends (its result, an error, a        *)
(* cancellation, a rejection), it holds no lease, directory or upload      *)
(* afterwards, and the tables of jobs have their types. With the parts     *)
(* above and EvidenceInv this is inductive.                                *)
JobsInv == JobsTypeOK /\ \A j \in Threads : JobSound(j)

(* The client is told "completed" only of a report that was saved.         *)
CompletedIsSaved ==
    \A j \in Analyses : status[j] = "completed" => j \in reports

(* A finished job never changes again: no late progress update or          *)
(* cancellation revives it. And a job leaves the table only when it is     *)
(* finished or the process stops: the pruning of a poll never takes a job  *)
(* whose worker will still report.                                         *)
JobsKeepTheirEnd ==
    [][\A j \in Threads :
          /\ status[j] \in Finished => status'[j] \in {status[j], "none"}
          /\ status[j] # "none" /\ status'[j] = "none" =>
                process' = "down" \/ (status[j] \in Finished
                                      /\ pc[j] \in {"finally", "unlink", "done"})]_vars

(* A cancellation accepted before the worker's last check ahead of the     *)
(* report store keeps the report from being saved.                         *)
CancelInTimeWins ==
    \A j \in Analyses :
        [](canceled[j] /\ pc[j] \in {"checkcapture", "acquire", "working",
                                      "progressing"}
             => [](j \notin reports))

(* Every job whose worker was started finishes, unless the process stops   *)
(* or a discovery cannot make its directory; and a cancellation the server *)
(* has acknowledged comes to an end: the job does not stay "canceling" for *)
(* ever, as one without a worker does.                                     *)
JobsEnd ==
    \A j \in Threads :
        /\ pc[j] \in WorkerSteps ~> pc[j] \in {"done", "stillborn", "lost"}
        /\ status[j] = "canceling" ~>
              status[j] # "canceling" \/ pc[j] \in {"abandoned", "stillborn"}

-----------------------------------------------------------------------------
(* "absence of partial report publication on failure/cancel"               *)
(* (backend/regression/README.md:69): the library holds no report of a job *)
(* that the client was told has failed or was canceled.                    *)
UnsuccessfulNeverPublishes ==
    \A j \in Analyses : status[j] \in {"canceled", "failed"} => j \notin reports
=============================================================================
