------------------------- MODULE ProcessingJobsProofs -------------------------
(***************************************************************************)
(* Proofs about ProcessingJobs, for any number of jobs, captures, tokens   *)
(* and signatures and any expiry times. JobsInv is inductive together with *)
(* EvidenceInv: a step of the server is a step of the evidence cache, so   *)
(* EvidenceInv comes from EvidenceCacheProofs; JobsInv is proved one       *)
(* action at a time.                                                       *)
(***************************************************************************)
EXTENDS ProcessingJobs, EvidenceCacheProofs

-----------------------------------------------------------------------------
(* The cache under the jobs. *)

(* Evidence is leased for a capture, since its record names one.           *)
LEMMA LeaseIsAcquire ==
    ASSUME JobsInv, NEW j \in Threads, NEW k, NEW p, Acquire(j, k, p)
    PROVE  \E t \in Tokens, c \in Pcaps : Acquire(j, t, c)
<1>1. k \in Tokens /\ cache[k] \in EvidenceRecord /\ cache[k].pcap = p
  BY DEF JobsInv, JobsTypeOK, TypeOK, Acquire, Usable, Cached
<1>2. p \in Pcaps
  BY <1>1 DEF EvidenceRecord
<1> QED
  BY <1>1, <1>2

(* What the jobs do to the evidence cache is what its threads may do.      *)
LEMMA CacheStep ==
    ASSUME JobsInv, [Next]_vars
    PROVE  [EvidenceNext]_evidenceVars
<1>1. CASE Environment
  BY <1>1 DEF Environment, StopJobs, EvidenceNext
<1>2. CASE Client
  BY <1>2 DEF Client, PostDiscovery, PostReuse, PostUpload, PostRetained,
              Cancel, Prune, DropCapture
<1>3. ASSUME NEW j \in Threads, JobStep(j)
      PROVE  [EvidenceNext]_evidenceVars
  <2>1. CASE SweepFor(j)
    BY <2>1 DEF SweepFor, EvidenceNext, ThreadStep
  <2>2. ASSUME NEW from, NEW ok, NEW fail, LeaseFor(j, from, ok, fail)
        PROVE  EvidenceNext
    BY <2>2, LeaseIsAcquire DEF LeaseFor, EvidenceNext, ThreadStep
  <2>3. CASE HandlerStep(j)
    BY <2>2, <2>3
    DEF HandlerStep, CopyRetained, TakeSnapshot, Precheck, Return, Returned,
        InsertAnalysis, CheckCapture, EvidenceNext, ThreadStep
  <2>4. CASE RegisterEvidence(j)
    <3>1. pc[j] = "register" => request[j].pcap \in Pcaps
      BY DEF JobsInv, JobSound, RequestKnown
    <3> QED
      BY <2>4, <3>1 DEF RegisterEvidence, Goto, EvidenceNext, ThreadStep
  <2>5. CASE CleanUp(j)
    BY <2>5 DEF CleanUp, Return, Returned, EvidenceNext, ThreadStep
  <2>6. CASE \E k \in Tokens : MakeEvidenceDir(j, k)
    BY <2>6 DEF MakeEvidenceDir, EvidenceNext, ThreadStep
  <2>7. CASE AcquireForAnalysis(j)
    BY <2>2, <2>7 DEF AcquireForAnalysis
  <2>8. CASE \/ FailEvidenceDir(j) \/ CheckProgress(j) \/ UpdateProgress(j)
             \/ EndWork(j) \/ RetainCapture(j) \/ SaveReport(j)
             \/ CheckSaved(j) \/ Complete(j) \/ Fail(j) \/ Unlink(j)
    BY <2>8 DEF FailEvidenceDir, CheckProgress, UpdateProgress, EndWork,
        RetainCapture, SaveReport, CheckSaved, Complete, Fail, Unlink
  <2> QED
    BY <1>3, <2>1, <2>3, <2>4, <2>5, <2>6, <2>7, <2>8 DEF JobStep, WorkerStep
<1>4. CASE UNCHANGED vars
  BY <1>4 DEF vars
<1> QED
  BY <1>1, <1>2, <1>3, <1>4 DEF Next

-----------------------------------------------------------------------------
(* Requests. *)
LEMMA ClientKeeps ==
    ASSUME JobsInv, TypeOK', Client
    PROVE  JobsInv'
<1> USE JobsAssumption
    DEF JobsInv, JobsTypeOK, JobSound, EndsClean, RejectedHoldsNothing, Route,
        RequestKnown, ExtractionInHand, LeaseInHand, StatusFollows,
        ReportFollows, Reads, Request, NoRequest, Goto, Running, Statuses,
        Finished, Steps, HandlerSteps, WorkerSteps, EndSteps, evidenceVars,
        threadVars
<1>1. ASSUME NEW i \in Discoveries, NEW p \in Pcaps, PostDiscovery(i, p)
      PROVE  JobsInv'
  BY <1>1 DEF PostDiscovery, RejectUpload
<1>2. ASSUME NEW i \in Analyses, NEW k \in Tokens, NEW p \in Pcaps,
             NEW c \in Pcaps \cup {NoPcap}, PostReuse(i, k, p, c)
      PROVE  JobsInv'
  BY <1>2 DEF PostReuse
<1>3. ASSUME NEW i \in Analyses, NEW p \in Pcaps, PostUpload(i, p)
      PROVE  JobsInv'
  BY <1>3 DEF PostUpload, RejectUpload
<1>4. ASSUME NEW i \in Analyses, NEW p \in Pcaps, PostRetained(i, p)
      PROVE  JobsInv'
  BY <1>4 DEF PostRetained
<1>5. ASSUME NEW i \in Threads, Cancel(i)
      PROVE  JobsInv'
  BY <1>5 DEF Cancel
<1>6. ASSUME NEW table \in {Discoveries, Analyses}, Prune(table)
      PROVE  JobsInv'
  BY <1>6 DEF Prune
<1>7. ASSUME NEW p \in Pcaps, DropCapture(p)
      PROVE  JobsInv'
  BY <1>7 DEF DropCapture
<1> QED
  BY <1>1, <1>2, <1>3, <1>4, <1>5, <1>6, <1>7 DEF Client

(* Handlers: a lease taken to validate the request is returned before the  *)
(* job exists.                                                             *)
LEMMA HandlerKeeps ==
    ASSUME JobsInv, TypeOK', NEW i \in Threads, HandlerStep(i)
    PROVE  JobsInv'
<1> USE JobsAssumption
    DEF JobsInv, JobsTypeOK, JobSound, EndsClean, RejectedHoldsNothing, Route,
        RequestKnown, ExtractionInHand, LeaseInHand, StatusFollows,
        ReportFollows, Reads, Request, NoRequest, Goto, Running, Statuses,
        Finished, Steps, HandlerSteps, WorkerSteps, EndSteps, evidenceVars,
        threadVars,
        jobVars, TypeOK, Enter
<1>1. CASE CopyRetained(i)
  BY <1>1 DEF CopyRetained
<1>2. CASE TakeSnapshot(i)
  BY <1>2 DEF TakeSnapshot, LookUp
<1>3. CASE Precheck(i)
  BY <1>3 DEF Precheck, LeaseFor, LookUp, Acquire
<1>4. CASE Return(i, "prerelease")
  BY <1>4 DEF Return, Release
<1>5. CASE Returned(i, "prerelease", "insert")
  BY <1>5 DEF Returned, RemoveReleased
<1>6. CASE InsertAnalysis(i)
  BY <1>6 DEF InsertAnalysis
<1>7. CASE CheckCapture(i)
  BY <1>7 DEF CheckCapture
<1> QED
  BY <1>1, <1>2, <1>3, <1>4, <1>5, <1>6, <1>7 DEF HandlerStep

(* Workers: what a worker has in hand it gives back in its finally branch, *)
(* and its job is finished by then.                                        *)
LEMMA WorkerKeeps ==
    ASSUME JobsInv, TypeOK', NEW i \in Threads, WorkerStep(i)
    PROVE  JobsInv'
<1> USE JobsAssumption
    DEF JobsInv, JobsTypeOK, JobSound, EndsClean, RejectedHoldsNothing, Route,
        RequestKnown, ExtractionInHand, LeaseInHand, StatusFollows,
        ReportFollows, Reads, Request, NoRequest, Goto, Running, Statuses,
        Finished, Steps, HandlerSteps, WorkerSteps, EndSteps, evidenceVars,
        threadVars,
        jobVars, TypeOK, Enter, SetStatus, UnlessCanceled
<1>1. CASE \E k \in Tokens : MakeEvidenceDir(i, k)
  BY <1>1 DEF MakeEvidenceDir, StartExtraction
<1>2. CASE FailEvidenceDir(i)
  BY <1>2 DEF FailEvidenceDir
<1>3. CASE AcquireForAnalysis(i)
  BY <1>3 DEF AcquireForAnalysis, LeaseFor, LookUp, Acquire
<1>4. CASE CheckProgress(i)
  BY <1>4 DEF CheckProgress
<1>5. CASE UpdateProgress(i)
  BY <1>5 DEF UpdateProgress
<1>6. CASE EndWork(i)
  BY <1>6 DEF EndWork
<1>7. CASE RegisterEvidence(i)
  BY <1>7 DEF RegisterEvidence, Register, LookUp
<1>8. CASE RetainCapture(i)
  BY <1>8 DEF RetainCapture
<1>9. CASE SaveReport(i)
  BY <1>9 DEF SaveReport
<1>10. CASE CheckSaved(i)
  BY <1>10 DEF CheckSaved
<1>11. CASE Complete(i)
  BY <1>11 DEF Complete
<1>12. CASE Fail(i)
  BY <1>12 DEF Fail
<1>13. CASE CleanUp(i)
  BY <1>13 DEF CleanUp, Return, Returned, DiscardExtraction, Release,
              RemoveReleased
<1>14. CASE Unlink(i)
  BY <1>14 DEF Unlink
<1> QED
  BY <1>1, <1>2, <1>3, <1>4, <1>5, <1>6, <1>7, <1>8, <1>9, <1>10, <1>11, <1>12, <1>13, <1>14 DEF WorkerStep

(* The sweep ahead of an evidence operation, and the process.              *)
LEMMA OtherKeeps ==
    ASSUME JobsInv, TypeOK', [Next]_vars,
           ~Client, \A i \in Threads : ~HandlerStep(i) /\ ~WorkerStep(i)
    PROVE  JobsInv'
<1> USE JobsAssumption
    DEF JobsInv, JobsTypeOK, JobSound, EndsClean, RejectedHoldsNothing, Route,
        RequestKnown, ExtractionInHand, LeaseInHand, StatusFollows,
        ReportFollows, Reads, Request, NoRequest, Goto, Running, Statuses,
        Finished, Steps, HandlerSteps, WorkerSteps, EndSteps, evidenceVars,
        threadVars,
        jobVars, TypeOK, Enter
<1>1. ASSUME NEW i \in Threads, SweepFor(i) PROVE JobsInv'
  BY <1>1 DEF SweepFor, Sweep, RemoveSwept
<1>2. CASE Environment /\ ~StopJobs
  BY <1>2 DEF Environment, Tick, ChangeRuntime, Exit, RemoveAtExit, Restart
<1>3. CASE StopJobs
  BY <1>3 DEF StopJobs, Stop
<1>4. CASE UNCHANGED vars
  BY <1>4 DEF vars
<1> QED
  BY <1>1, <1>2, <1>3, <1>4 DEF Next, JobStep

-----------------------------------------------------------------------------
(* Every step keeps both invariants.                                       *)
LEMMA JobsStep ==
    EvidenceInv /\ JobsInv /\ [Next]_vars => EvidenceInv' /\ JobsInv'
<1> SUFFICES ASSUME EvidenceInv, JobsInv, [Next]_vars
             PROVE  EvidenceInv' /\ JobsInv'
  OBVIOUS
<1>1. EvidenceInv'
  BY CacheStep, EvidenceStep
<1>2. TypeOK'
  BY <1>1 DEF EvidenceInv
<1> QED
  BY <1>1, <1>2, ClientKeeps, HandlerKeeps, WorkerKeeps, OtherKeeps

LEMMA JobsInitially == Init => EvidenceInv /\ JobsInv
<1> SUFFICES ASSUME Init PROVE EvidenceInv /\ JobsInv
  OBVIOUS
<1>1. EvidenceInv
  BY EvidenceInitially DEF Init
<1> QED
  BY <1>1
  DEF Init, EvidenceInit, NoThreadState, EvidenceInv, JobsInv, JobsTypeOK,
      JobSound, EndsClean, RejectedHoldsNothing, Route, RequestKnown,
      ExtractionInHand, LeaseInHand, StatusFollows, ReportFollows, Reads,
      Request, NoRequest, Statuses, Finished, Steps, HandlerSteps, WorkerSteps,
      EndSteps

LEMMA BothInvariants == Spec => [](EvidenceInv /\ JobsInv)
<1> QED
  BY JobsInitially, JobsStep, PTL DEF Spec

(* Whatever way a request or a worker ends, it leaves no lease, directory  *)
(* or upload behind (http_reference_server.py, the finally branches of     *)
(* _run_discovery_job and _run_analysis_job).                              *)
THEOREM JobsInvariant == Spec => []JobsInv
<1> QED
  BY BothInvariants, PTL

(* The server with its jobs implements the evidence cache: what is proved  *)
(* of the cache holds under every interleaving of handlers and workers.    *)
THEOREM JobsImplementCache == Spec => EvidenceSpec
<1>1. JobsInv /\ [Next]_vars => [EvidenceNext]_evidenceVars
  BY CacheStep
<1>2. Init => EvidenceInit
  BY DEF Init
<1> QED
  BY <1>1, <1>2, JobsInvariant, PTL DEF Spec, EvidenceSpec

(* An analysis of retained evidence has that evidence leased and on disk   *)
(* from its lease to the end of its work, whatever expires, is canceled or *)
(* pruned meanwhile (_acquire_evidence, _run_analysis_job).                *)
THEOREM EvidenceWhileAnalyzing == Spec => []AnalysisHasEvidence
<1>1. EvidenceInv /\ JobsInv => AnalysisHasEvidence
  <2> SUFFICES ASSUME EvidenceInv, JobsInv, process = "serving",
                      NEW j \in Analyses, Reads(j)
               PROVE  lease[j] = request[j].token /\ request[j].token \in dirs
    BY DEF AnalysisHasEvidence
  <2>0. j \in Threads
    BY JobsAssumption
  <2>1. lease[j] = request[j].token /\ lease[j] # NoToken
    BY <2>0 DEF JobsInv, JobSound, LeaseInHand, Reads
  <2>2. lease[j] \in Tokens /\ Cached(lease[j])
    BY <2>0, <2>1 DEF EvidenceInv, LeasesKept, TypeOK
  <2> QED
    BY <2>1, <2>2 DEF EvidenceInv, CachedOnDisk
<1> QED
  BY <1>1, BothInvariants, PTL

(* "completed" means saved (http_reference_server.py 462-466): the report  *)
(* of a completed analysis is in the report store.                         *)
THEOREM CompletedMeansSaved == Spec => []CompletedIsSaved
<1>1. JobsInv => CompletedIsSaved
  BY JobsAssumption DEF JobsInv, JobSound, ReportFollows, CompletedIsSaved
<1> QED
  BY <1>1, JobsInvariant, PTL

-----------------------------------------------------------------------------
(* What steps never do. *)

(* A job that is in a table leaves it only when it is finished, or with    *)
(* the process; a finished one only leaves it.                             *)
LEMMA EndKept ==
    ASSUME JobsInv, [Next]_vars, NEW j \in Threads
    PROVE  /\ status[j] \in Finished => status'[j] \in {status[j], "none"}
           /\ status[j] # "none" /\ status'[j] = "none" =>
                process' = "down" \/ (status[j] \in Finished
                                      /\ pc[j] \in {"finally", "unlink", "done"})
<1> USE DEF JobsInv, JobsTypeOK, JobSound, StatusFollows, Finished, Statuses,
            Goto, SetStatus, UnlessCanceled, jobVars
<1>1. CASE Environment
  BY <1>1 DEF Environment, StopJobs, Stop
<1>2. CASE Client
  BY <1>2 DEF Client, PostDiscovery, RejectUpload, PostReuse, PostUpload,
              PostRetained, Cancel, Prune, DropCapture
<1>3. ASSUME NEW i \in Threads, SweepFor(i) \/ HandlerStep(i)
      PROVE  \/ UNCHANGED status
             \/ /\ pc[i] \in {"copy", "insert"}
                /\ status' = [status EXCEPT ![i] = "queued"]
  BY <1>3 DEF SweepFor, HandlerStep, CopyRetained, TakeSnapshot, Precheck,
              LeaseFor, Return, Returned, InsertAnalysis, CheckCapture
<1>4. ASSUME NEW i \in Threads, WorkerStep(i)
      PROVE  \/ UNCHANGED status
             \/ /\ pc[i] \in {"progressing", "complete", "raised", "erring"}
                /\ \E s \in {"running"} \cup Finished : SetStatus(i, s)
  BY <1>4 DEF WorkerStep, MakeEvidenceDir, FailEvidenceDir,
      AcquireForAnalysis, LeaseFor, CheckProgress, UpdateProgress, EndWork,
      RegisterEvidence, RetainCapture, SaveReport, CheckSaved, Complete, Fail,
      CleanUp, Return, Returned, Unlink
<1>5. CASE UNCHANGED vars
  BY <1>5 DEF vars
<1> QED
  BY <1>1, <1>2, <1>3, <1>4, <1>5 DEF Next, JobStep

(* No late progress update, cancellation or pruning revives a finished job *)
(* or removes one that a worker will still report on.                      *)
THEOREM FinishedIsFinal == Spec => JobsKeepTheirEnd
<1>1. JobsInv /\ [Next]_vars =>
        [\A j \in Threads :
           /\ status[j] \in Finished => status'[j] \in {status[j], "none"}
           /\ status[j] # "none" /\ status'[j] = "none" =>
                process' = "down" \/ (status[j] \in Finished
                               /\ pc[j] \in {"finally", "unlink", "done"})]_vars
  BY EndKept
<1> QED
  BY <1>1, JobsInvariant, PTL DEF Spec, JobsKeepTheirEnd

(* Where a canceled analysis that has not saved its report can be.         *)
CanceledUnsaved(j) ==
    /\ j \notin reports
    /\ \/ canceled[j] /\ pc[j] \in {"checkcapture", "acquire", "working",
                                    "progressing"}
       \/ pc[j] \in {"raised", "erring", "finally", "unlink", "done",
                      "abandoned", "lost"}

(* Once there, it never gets to the report store.                          *)
LEMMA CanceledUnsavedStays ==
    ASSUME JobsInv, [Next]_vars, NEW j \in Analyses, CanceledUnsaved(j)
    PROVE  CanceledUnsaved(j)'
<1> USE JobsAssumption
    DEF JobsInv, JobsTypeOK, JobSound, StatusFollows, Finished, Statuses,
        CanceledUnsaved, Goto, SetStatus, UnlessCanceled, jobVars
<1>1. CASE Environment
  BY <1>1 DEF Environment, StopJobs, Stop
<1>2. CASE Client
  BY <1>2 DEF Client, PostDiscovery, RejectUpload, PostReuse, PostUpload,
              PostRetained, Cancel, Prune, DropCapture
<1>3. ASSUME NEW i \in Threads, SweepFor(i) \/ HandlerStep(i)
      PROVE  CanceledUnsaved(j)'
  BY <1>3 DEF SweepFor, HandlerStep, CopyRetained, TakeSnapshot, Precheck,
              LeaseFor, Return, Returned, InsertAnalysis, CheckCapture
<1>4. ASSUME NEW i \in Threads, WorkerStep(i)
      PROVE  CanceledUnsaved(j)'
  BY <1>4 DEF WorkerStep, MakeEvidenceDir, FailEvidenceDir,
      AcquireForAnalysis, LeaseFor, CheckProgress, UpdateProgress, EndWork,
      RegisterEvidence, RetainCapture, SaveReport, CheckSaved, Complete, Fail,
      CleanUp, Return, Returned, Unlink
<1>5. CASE UNCHANGED vars
  BY <1>5 DEF vars
<1> QED
  BY <1>1, <1>2, <1>3, <1>4, <1>5 DEF Next, JobStep

(* A cancellation accepted before the worker's last check ahead of the     *)
(* report store keeps the report from ever being saved, whatever the       *)
(* worker and other requests do afterwards.                                *)
THEOREM CancellationWins == Spec => CancelInTimeWins
<1> SUFFICES ASSUME NEW j \in Analyses
             PROVE  Spec => [](canceled[j] /\ pc[j] \in {"checkcapture", "acquire",
                                          "working", "progressing"}
                                  => [](j \notin reports))
  BY DEF CancelInTimeWins
<1>1. JobsInv /\ canceled[j] /\ pc[j] \in {"checkcapture", "acquire", "working",
                                           "progressing"}
        => CanceledUnsaved(j)
  BY JobsAssumption DEF JobsInv, JobSound, ReportFollows, CanceledUnsaved
<1>2. JobsInv /\ [Next]_vars /\ CanceledUnsaved(j) => CanceledUnsaved(j)'
  BY CanceledUnsavedStays
<1>3. CanceledUnsaved(j) => j \notin reports
  BY DEF CanceledUnsaved
<1> QED
  BY <1>1, <1>2, <1>3, JobsInvariant, PTL DEF Spec
=============================================================================
