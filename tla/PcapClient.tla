------------------------------ MODULE PcapClient ------------------------------
(***************************************************************************)
(* One browser tab that takes packet captures to reports: the upload form  *)
(* (UploadForm.tsx) with its background flows, and the parts of App.tsx it *)
(* shares state with: the list of the server's jobs, the report on screen  *)
(* and the prompt to regenerate it after a change of configuration.        *)
(*                                                                         *)
(* A flow is an asynchronous function between two awaits. It outlives the  *)
(* component that started it: after a sign-out the form is mounted afresh, *)
(* and a flow of the earlier mount still reaches App's state, never the    *)
(* state of the new form. The server is reduced to its table of jobs.      *)
(* Progress texts and the minimised view of the progress are left out.     *)
(***************************************************************************)
EXTENDS Integers, SequencesExt

CONSTANTS Files,    \* packet captures the user may open
          MaxJobs,  \* bound of the model: jobs the server creates
          MaxFlows, \* bound of the model: flows at a time
          None      \* no file

ASSUME NoneAssumption == None \notin Files
ASSUME BoundAssumption == MaxJobs \in Nat /\ MaxFlows \in Nat

Jobs == 1..MaxJobs
NoReport == 0
OtherReport == -1    \* a saved report or a JSON file

VARIABLES
    jobs,     \* the server's jobs
    done,     \* completed jobs, the latest first
    signedIn,
    report,   \* the report on screen: its job, OtherReport or NoReport
    busy,     \* isAnalyzing
    recovery, \* recoveryJob, 0 for none
    capBusy,  \* captureAnalyzingId
    stale,    \* reportConfigurationStale
    prompt,   \* reportRefreshPromptOpen
    refreshing, \* reportRefreshInProgress
    form,     \* the state and the refs of the mounted form
    flows,    \* asynchronous functions under way
    dropped,  \* history: a recovery was abandoned by the clean-up of its effect
    overlap   \* history: a flow of the form began while another one was under way

server == <<jobs, done>>
ui == <<stale, prompt, refreshing>>
pcapVars == <<server, signedIn, report, busy, recovery, capBusy, ui, form, flows,
              dropped, overlap>>

MaybeFile == Files \cup {None}

(* The state and the refs of UploadForm. retainedCaptureId, the evidence   *)
(* token and the last session are named by the capture they belong to.     *)
Form == [url : 0..MaxJobs,        \* activeJobUrlRef
         cancelReq : BOOLEAN,     \* cancelRequestedRef
         handled : 0..MaxJobs,    \* recoveryHandledRef
         pending : MaybeFile,     \* pendingPcap
         evidence : MaybeFile,    \* zeekEvidenceToken and its digest
         capture : MaybeFile,     \* retainedCaptureId
         notice : BOOLEAN,
         dialog : BOOLEAN,        \* contextDialogOpen
         last : MaybeFile]        \* lastPcapSession

NewForm == [url |-> 0, cancelReq |-> FALSE, handled |-> 0, pending |-> None,
            evidence |-> None, capture |-> None, notice |-> FALSE,
            dialog |-> FALSE, last |-> None]

Flow == [kind : {"discover", "analyze", "resume", "reanalyze", "cancel"},
         at : {"post", "answer", "poll"}, job : 0..MaxJobs, file : MaybeFile,
         evidence : MaybeFile, capture : MaybeFile, live : BOOLEAN,
         refresh : BOOLEAN]

Job == [phase : {"evidence", "modules"}, file : MaybeFile,
        status : {"none", "running", "canceling", "completed", "ended"}]

PcapTypeOK ==
    /\ jobs \in [Jobs -> Job]
    /\ done \in Seq(Jobs)
    /\ report \in {NoReport, OtherReport} \cup Jobs
    /\ {signedIn, busy, capBusy, stale, prompt, refreshing, dropped, overlap} \subseteq BOOLEAN
    /\ recovery \in 0..MaxJobs
    /\ form \in Form
    /\ flows \in SUBSET Flow

PcapInit ==
    /\ jobs = [j \in Jobs |-> [phase |-> "evidence", file |-> None, status |-> "none"]]
    /\ done = <<>>
    /\ signedIn = TRUE
    /\ report = NoReport
    /\ busy = FALSE /\ capBusy = FALSE
    /\ recovery = 0
    /\ stale = FALSE /\ prompt = FALSE /\ refreshing = FALSE
    /\ form = NewForm
    /\ flows = {}
    /\ dropped = FALSE /\ overlap = FALSE

-----------------------------------------------------------------------------
(* handleReportLoaded *)
Load(r) == report' = r /\ stale' = FALSE /\ prompt' = FALSE /\ refreshing' = FALSE

(* The finally block of a flow that ends. *)
Idle(f, update(_)) ==
    /\ flows' = flows \ {f}
    /\ busy' = FALSE
    /\ form' = IF f.live THEN update([form EXCEPT !.url = 0]) ELSE form

FormFlows == {f \in flows : f.kind \in {"discover", "analyze", "resume"}}

Starts == overlap' = (overlap \/ FormFlows # {})

NewFlow(kind, file, evidence, capture, refresh) ==
    [kind |-> kind, at |-> "post", job |-> 0, file |-> file, evidence |-> evidence,
     capture |-> capture, live |-> TRUE, refresh |-> refresh]

Room == Cardinality(flows) < MaxFlows

(* What the page offers: a capture while none is analyzed or waits for its *)
(* context, the prompt once the evidence is ready, the button to cancel,   *)
(* the dialog with the contexts, and App's question about a changed        *)
(* configuration.                                                          *)
PickerAccepts == signedIn /\ report = NoReport /\ ~busy /\ ~form.dialog
ReadyShown == signedIn /\ form.notice /\ form.pending # None /\ ~busy
CancelOffered == signedIn /\ busy /\ ~form.cancelReq
DialogShown == signedIn /\ form.dialog /\ form.pending # None
PromptShown == report # NoReport /\ prompt /\ ~refreshing

(* processFile for a capture: refused while another one is in hand. *)
OpenPcap(file) ==
    /\ Room
    /\ PickerAccepts
    /\ busy' = TRUE
    /\ form' = [form EXCEPT !.pending = file, !.evidence = None, !.last = None,
                            !.notice = FALSE]
    /\ flows' = flows \cup {NewFlow("discover", file, None, None, FALSE)}
    /\ Starts
    /\ UNCHANGED <<server, signedIn, report, recovery, capBusy, ui, dropped>>

(* The prompt after the first stage, and the dialog it opens. *)
ChooseContext ==
    /\ ReadyShown
    /\ form' = [form EXCEPT !.dialog = TRUE]
    /\ UNCHANGED <<server, signedIn, report, busy, recovery, capBusy, ui, flows,
                   dropped, overlap>>

(* closeContextDialog *)
CloseDialog ==
    /\ DialogShown
    /\ form' = [form EXCEPT !.dialog = FALSE, !.pending = None, !.evidence = None]
    /\ UNCHANGED <<server, signedIn, report, busy, recovery, capBusy, ui, flows,
                   dropped, overlap>>

(* The opening of analyzePcap. *)
Analyze(file, evidence, capture, refresh, newForm) ==
    /\ busy' = TRUE
    /\ form' = [newForm EXCEPT !.notice = FALSE]
    /\ flows' = flows \cup {NewFlow("analyze", file, evidence, capture, refresh)}
    /\ Starts

(* A fault: the dialog stays open behind the analysis. *)
StartAnalysisFault ==
    /\ DialogShown /\ Room
    /\ Analyze(form.pending, form.evidence, form.capture, FALSE,
               [form EXCEPT !.pending = None])
    /\ UNCHANGED <<server, signedIn, report, recovery, capBusy, ui, dropped>>

(* startAnalysis *)
StartAnalysis ==
    /\ DialogShown /\ Room
    /\ Analyze(form.pending, form.evidence, form.capture, FALSE,
               [form EXCEPT !.dialog = FALSE, !.pending = None])
    /\ UNCHANGED <<server, signedIn, report, recovery, capBusy, ui, dropped>>

-----------------------------------------------------------------------------
(* The server accepts a POST: it has created the job, the answer is under  *)
(* way. *)
Accept(f) ==
    /\ f.at = "post" /\ f.kind # "cancel" /\ signedIn
    /\ \E j \in Jobs :
         /\ jobs[j].status = "none" /\ \A i \in 1..(j - 1) : jobs[i].status # "none"
         /\ jobs' = [jobs EXCEPT ![j] =
                [phase |-> IF f.kind = "discover" THEN "evidence" ELSE "modules",
                 file |-> f.file, status |-> "running"]]
         /\ flows' = (flows \ {f}) \cup {[f EXCEPT !.at = "answer", !.job = j]}
    /\ UNCHANGED <<done, signedIn, report, busy, recovery, capBusy, ui, form,
                   dropped, overlap>>

(* The answer of the POST names the job to poll. *)
Answer(f) ==
    /\ f.at = "answer"
    /\ flows' = (flows \ {f}) \cup {[f EXCEPT !.at = "poll"]}
    /\ form' = IF f.live /\ f.kind # "reanalyze"
               THEN [form EXCEPT !.url = f.job, !.cancelReq = FALSE] ELSE form
    /\ UNCHANGED <<server, signedIn, report, busy, recovery, capBusy, ui, dropped, overlap>>

Polling(f, kind) == f.kind = kind /\ f.at = "poll" /\ signedIn

(* A fault: the capture of an earlier discovery is kept. *)
EvidenceReadyFault(f) ==
    /\ Polling(f, "discover") /\ jobs[f.job].status = "completed"
    /\ Idle(f, LAMBDA g : [g EXCEPT !.cancelReq = FALSE, !.evidence = f.file,
                !.last = f.file, !.dialog = FALSE, !.notice = TRUE])
    /\ UNCHANGED <<server, signedIn, report, recovery, capBusy, ui, dropped, overlap>>

(* discoverPcapContext returns to processFile. *)
EvidenceReady(f) ==
    /\ Polling(f, "discover") /\ jobs[f.job].status = "completed"
    /\ Idle(f, LAMBDA g : [g EXCEPT !.cancelReq = FALSE, !.evidence = f.file,
                !.capture = f.file, !.last = f.file, !.dialog = FALSE, !.notice = TRUE])
    /\ UNCHANGED <<server, signedIn, report, recovery, capBusy, ui, dropped, overlap>>

(* analyzePcap loads the report it waited for. *)
ReportReady(f) ==
    /\ Polling(f, "analyze") /\ jobs[f.job].status = "completed"
    /\ Load(f.job)
    /\ Idle(f, LAMBDA g : [g EXCEPT !.cancelReq = FALSE])
    /\ UNCHANGED <<server, signedIn, recovery, capBusy, dropped, overlap>>

(* The POST or a poll of discoverPcapContext failed: the request was lost, *)
(* the session is over, or the job failed, was canceled or is forgotten.   *)
DiscoveryFails(f) ==
    /\ f.kind = "discover"
    /\ Idle(f, LAMBDA g : [g EXCEPT !.cancelReq = FALSE, !.pending = None,
                !.evidence = None, !.notice = FALSE])
    /\ UNCHANGED <<server, signedIn, report, recovery, capBusy, ui, dropped, overlap>>

(* The same for analyzePcap; a regeneration reports it to App.             *)
AnalysisFails(f) ==
    /\ f.kind = "analyze"
    /\ Idle(f, LAMBDA g : [g EXCEPT !.cancelReq = FALSE])
    /\ IF f.refresh THEN refreshing' = FALSE /\ prompt' = TRUE
                    ELSE UNCHANGED <<refreshing, prompt>>
    /\ UNCHANGED <<server, signedIn, report, recovery, capBusy, stale, dropped, overlap>>

(* cancelActiveAnalysis sends the request, ... *)
Cancel ==
    /\ Room
    /\ CancelOffered /\ form.url # 0
    /\ form' = [form EXCEPT !.cancelReq = TRUE]
    /\ flows' = flows \cup {[NewFlow("cancel", None, None, None, FALSE)
                             EXCEPT !.job = form.url]}
    /\ UNCHANGED <<server, signedIn, report, busy, recovery, capBusy, ui, dropped, overlap>>

(* ... which the server takes while the job runs, ... *)
CancelArrives(f) ==
    /\ f.kind = "cancel" /\ signedIn
    /\ flows' = flows \ {f}
    /\ jobs' = IF jobs[f.job].status = "running"
               THEN [jobs EXCEPT ![f.job].status = "canceling"] ELSE jobs
    /\ UNCHANGED <<done, signedIn, report, busy, recovery, capBusy, ui, form,
                   dropped, overlap>>

(* ... or which fails. *)
CancelFails(f) ==
    /\ f.kind = "cancel"
    /\ flows' = flows \ {f}
    /\ form' = IF f.live THEN [form EXCEPT !.cancelReq = FALSE] ELSE form
    /\ UNCHANGED <<server, signedIn, report, busy, recovery, capBusy, ui, dropped, overlap>>

-----------------------------------------------------------------------------
(* The job App offers for recovery: a running one (progress reorders       *)
(* them), or the one completed last. *)
RecoveryJobs ==
    LET running == {j \in Jobs : jobs[j].status = "running"} IN
    IF running # {} THEN running
    ELSE IF done # <<>> THEN {Head(done)} ELSE {0}

(* The effect of UploadForm on recoveryJob?.jobId and the clean-up of its  *)
(* last run, which abandons the recovery under way.                        *)
RecoveryEffect(j) ==
    LET kept == {f \in flows : f.kind # "resume"}
        resumes == j # 0 /\ form.url = 0 /\ form.handled # j /\ ~busy
    IN
    /\ recovery' = j
    /\ dropped' = (dropped \/ kept # flows)
    /\ IF resumes
       THEN /\ form' = [form EXCEPT !.handled = j, !.url = j, !.notice = FALSE]
            /\ busy' = TRUE
            /\ flows' = kept \cup {[NewFlow("resume", jobs[j].file, None, None, FALSE)
                                    EXCEPT !.at = "poll", !.job = j]}
            /\ overlap' = (overlap \/ \E f \in kept : f \in FormFlows)
       ELSE flows' = kept /\ UNCHANGED <<form, busy, overlap>>

(* App asks for the jobs every five seconds. *)
PollJobs ==
    /\ signedIn
    /\ \E j \in RecoveryJobs : j # recovery /\ RecoveryEffect(j)
    /\ UNCHANGED <<server, signedIn, report, capBusy, ui>>

(* The loop of a recovery sees its job completed, ... *)
Recovered(f) ==
    /\ Polling(f, "resume") /\ jobs[f.job].status = "completed"
    /\ IF jobs[f.job].phase = "modules"
       THEN Load(f.job) /\ Idle(f, LAMBDA g : g)
       ELSE /\ Idle(f, LAMBDA g : [g EXCEPT !.pending = f.file, !.evidence = f.file,
                               !.capture = f.file, !.notice = TRUE])
            /\ UNCHANGED <<report, ui>>
    /\ UNCHANGED <<server, signedIn, recovery, capBusy, dropped, overlap>>

(* ... or fails. *)
RecoveryFails(f) ==
    /\ f.kind = "resume"
    /\ Idle(f, LAMBDA g : g)
    /\ UNCHANGED <<server, signedIn, report, recovery, capBusy, ui, dropped, overlap>>

-----------------------------------------------------------------------------
(* reanalyzeRetainedCapture: its own loop, not known to the form. *)
Reanalyze(file) ==
    /\ Room
    /\ signedIn /\ report = NoReport /\ ~capBusy
    /\ capBusy' = TRUE
    /\ flows' = flows \cup {NewFlow("reanalyze", file, file, file, FALSE)}
    /\ UNCHANGED <<server, signedIn, report, busy, recovery, ui, form, dropped, overlap>>

Reanalyzed(f) ==
    /\ f.kind = "reanalyze"
    /\ flows' = flows \ {f}
    /\ capBusy' = FALSE
    /\ \/ Polling(f, "reanalyze") /\ jobs[f.job].status = "completed" /\ Load(f.job)
       \/ UNCHANGED <<report, ui>>
    /\ UNCHANGED <<server, signedIn, busy, recovery, form, dropped, overlap>>

(* openSavedReport, or loadJsonReport, which is allowed while busy. *)
OpenOther ==
    /\ signedIn /\ report = NoReport
    /\ Load(OtherReport)
    /\ UNCHANGED <<server, signedIn, busy, recovery, capBusy, form, flows, dropped, overlap>>

(* returnToWelcome does not cancel a job. *)
ReturnToWelcome ==
    /\ report # NoReport
    /\ report' = NoReport /\ stale' = FALSE /\ prompt' = FALSE
    /\ UNCHANGED <<server, signedIn, busy, recovery, capBusy, refreshing, form,
                   flows, dropped, overlap>>

(* markReportConfigurationChanged *)
ConfigurationChanged ==
    /\ signedIn /\ report # NoReport /\ ~(stale /\ prompt)
    /\ stale' = TRUE /\ prompt' = TRUE
    /\ UNCHANGED <<server, signedIn, report, busy, recovery, capBusy, refreshing,
                   form, flows, dropped, overlap>>

KeepReport ==
    /\ PromptShown
    /\ prompt' = FALSE
    /\ UNCHANGED <<server, signedIn, report, busy, recovery, capBusy, stale,
                   refreshing, form, flows, dropped, overlap>>

(* The button of the notice that the configuration changed. *)
ReopenPrompt ==
    /\ report # NoReport /\ stale /\ ~refreshing /\ ~prompt
    /\ prompt' = TRUE
    /\ UNCHANGED <<server, signedIn, report, busy, recovery, capBusy, stale,
                   refreshing, form, flows, dropped, overlap>>

(* requestUpdatedReport and the effect of UploadForm it triggers: without  *)
(* a session of this tab the capture is unavailable.                       *)
RequestRefresh ==
    /\ PromptShown /\ Room
    /\ IF form.last = None
       THEN prompt' = TRUE /\ refreshing' = FALSE /\ UNCHANGED <<busy, form, flows, overlap>>
       ELSE /\ prompt' = FALSE /\ refreshing' = TRUE
            /\ Analyze(form.last, form.last, form.last, TRUE, form)
    /\ UNCHANGED <<server, signedIn, report, recovery, capBusy, stale, dropped>>

-----------------------------------------------------------------------------
(* handleSignOut, and onExpired after a request that was refused: the form *)
(* is unmounted, its flows go on without it, a recovery is abandoned.      *)
SignOut ==
    /\ signedIn /\ signedIn' = FALSE
    /\ report' = NoReport /\ recovery' = 0 /\ form' = NewForm
    /\ flows' = {[f EXCEPT !.live = FALSE] : f \in {g \in flows : g.kind # "resume"}}
    /\ dropped' = (dropped \/ \E f \in flows : f.kind = "resume")
    /\ UNCHANGED <<server, busy, capBusy, ui, overlap>>

SignIn ==
    /\ ~signedIn /\ signedIn' = TRUE
    /\ UNCHANGED <<server, report, busy, recovery, capBusy, ui, form, flows, dropped, overlap>>

(* The page is loaded again: only the token and the server's jobs remain. *)
Reload ==
    /\ report' = NoReport /\ busy' = FALSE /\ recovery' = 0 /\ capBusy' = FALSE
    /\ stale' = FALSE /\ prompt' = FALSE /\ refreshing' = FALSE
    /\ form' = NewForm /\ flows' = {} /\ dropped' = FALSE /\ overlap' = FALSE
    /\ UNCHANGED <<server, signedIn>>

(* A job of the server completes, or ends otherwise: failed, canceled,     *)
(* pruned, or lost in a restart of the server.                             *)
ServerCompletes(j) ==
    /\ jobs[j].status = "running"
    /\ jobs' = [jobs EXCEPT ![j].status = "completed"]
    /\ done' = <<j>> \o done
    /\ UNCHANGED <<signedIn, report, busy, recovery, capBusy, ui, form, flows,
                   dropped, overlap>>

ServerEnds(j) ==
    /\ jobs[j].status \notin {"none", "ended"}
    /\ jobs' = [jobs EXCEPT ![j].status = "ended"]
    /\ \/ \E i \in 1..Len(done) : done[i] = j /\ done' = RemoveAt(done, i)
       \/ jobs[j].status # "completed" /\ UNCHANGED done
    /\ UNCHANGED <<signedIn, report, busy, recovery, capBusy, ui, form, flows,
                   dropped, overlap>>

FlowStep(f) ==
    \/ Accept(f) \/ Answer(f) \/ EvidenceReady(f) \/ ReportReady(f)
    \/ DiscoveryFails(f) \/ AnalysisFails(f) \/ CancelArrives(f) \/ CancelFails(f)
    \/ Recovered(f) \/ RecoveryFails(f) \/ Reanalyzed(f)

PcapNext ==
    \/ \E file \in Files : OpenPcap(file) \/ Reanalyze(file)
    \/ \E f \in flows : FlowStep(f)
    \/ \E j \in Jobs : ServerCompletes(j) \/ ServerEnds(j)
    \/ ChooseContext \/ CloseDialog \/ StartAnalysis \/ Cancel \/ PollJobs
    \/ OpenOther \/ ReturnToWelcome \/ ConfigurationChanged \/ KeepReport
    \/ ReopenPrompt \/ RequestRefresh \/ SignOut \/ SignIn \/ Reload

PcapSpec == PcapInit /\ [][PcapNext]_pcapVars

-----------------------------------------------------------------------------
(* The page says that a capture is processed exactly while a flow does so. *)
(* The exceptions are two ways in which the code breaks this: the clean-up *)
(* of the recovery effect abandons a flow without clearing isAnalyzing,    *)
(* and the first of two overlapping flows to end clears it for both.       *)
BusyMatchesFlows ==
    /\ busy => dropped \/ FormFlows # {}
    /\ FormFlows # {} => busy \/ overlap

(* The dialog for the context is never open without a capture to analyze,  *)
(* which would close the form to captures for good: its buttons are drawn  *)
(* for a pending capture only. *)
DialogHasCapture == form.dialog => form.pending # None \/ overlap

(* An analysis reuses the Zeek evidence and the retained copy of the very  *)
(* capture it was started for, whatever was discovered, recovered or       *)
(* analyzed before it. *)
PairedEvidence ==
    \A f \in flows : f.kind = "analyze" =>
        (f.evidence = f.file /\ f.capture = f.file) \/ overlap

(* The modal "regenerating" state over a report ends: while it lasts, the  *)
(* analysis that will clear it is under way. *)
RefreshDialogEnds ==
    refreshing /\ report # NoReport => \E f \in flows : f.kind = "analyze" /\ f.refresh

(* A job shown as being canceled is: its request is under way or was taken *)
(* by the server. With overlapping flows it need not be: a recovery that   *)
(* fails leaves cancelRequestedRef set for the job recovered next.         *)
CancelReaches ==
    \A f \in flows : f.kind \in {"discover", "analyze"} /\ f.live /\ f.at = "poll"
                      /\ form.url = f.job /\ form.cancelReq =>
        \/ \E g \in flows : g.kind = "cancel" /\ g.job = f.job
        \/ jobs[f.job].status # "running"
        \/ overlap

-----------------------------------------------------------------------------
(* The parts of the inductive invariant that are not properties of their   *)
(* own. Flows that overlap are known to.                                   *)
OverlapIsKnown == overlap \/ \A f, g \in FormFlows : f = g

(* Requests, the form and the list of completed jobs name jobs that the    *)
(* server made, each for a capture.                                        *)
JobsAreMade ==
    /\ \A j \in Jobs : jobs[j].status # "none" => jobs[j].file # None
    /\ \A i \in 1..Len(done) : jobs[done[i]].status # "none"
    /\ form.url # 0 => jobs[form.url].status # "none"
    /\ \A f \in flows :
          /\ f.kind # "cancel" => f.file # None
          /\ f.kind = "cancel" \/ f.at # "post" =>
                f.job # 0 /\ jobs[f.job].status # "none"

(* A discovery of the mounted form is about the capture in hand, ...       *)
DiscoveryInHand ==
    \A f \in flows : f.kind = "discover" /\ f.live =>
        (~form.dialog /\ form.pending = f.file) \/ overlap

(* ... and what the page offers to analyze has its evidence and its copy.  *)
EvidenceInHand ==
    (form.notice \/ form.dialog) /\ form.pending # None =>
        (form.evidence = form.pending /\ form.capture = form.pending) \/ overlap

(* A cancellation asked for by an earlier mount of the form is not about a *)
(* job that the mounted one started.                                       *)
CancelsKeepToMount ==
    \A f, g \in flows :
        /\ f.kind \in {"discover", "analyze"} /\ f.live /\ f.at # "post"
        /\ g.kind = "cancel" /\ ~g.live
        => f.job # g.job

(* What the form and App may rely on at every moment of the flows: the     *)
(* page is busy, dialogs and cancellations end, the state has its type.    *)
PcapInv ==
    /\ PcapTypeOK
    /\ BusyMatchesFlows
    /\ DialogHasCapture
    /\ PairedEvidence
    /\ RefreshDialogEnds
    /\ CancelReaches
    /\ OverlapIsKnown
    /\ JobsAreMade
    /\ DiscoveryInHand
    /\ EvidenceInHand
    /\ CancelsKeepToMount
=============================================================================
