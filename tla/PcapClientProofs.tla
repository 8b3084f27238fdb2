--------------------------- MODULE PcapClientProofs ---------------------------
(***************************************************************************)
(* Proofs about PcapClient, for any number of captures, jobs and flows at  *)
(* a time. PcapInv is inductive; its parts are kept together because most  *)
(* rest on the same two facts: a flow that starts beside another one of    *)
(* the form is recorded in overlap, and no flow of an earlier mount of the *)
(* form is live.                                                           *)
(***************************************************************************)
EXTENDS PcapClient, SequenceTheorems, TLAPS

-----------------------------------------------------------------------------
(* What the steps write is well formed.                                    *)
LEMMA FormChanges ==
    ASSUME NEW g \in Form, NEW x \in MaybeFile, NEW u \in 0..MaxJobs
    PROVE  /\ [g EXCEPT !.url = u] \in Form
           /\ [g EXCEPT !.cancelReq = FALSE] \in Form
           /\ [g EXCEPT !.cancelReq = FALSE, !.evidence = x, !.capture = x,
                        !.last = x, !.dialog = FALSE, !.notice = TRUE] \in Form
           /\ [g EXCEPT !.cancelReq = FALSE, !.pending = None,
                        !.evidence = None, !.notice = FALSE] \in Form
           /\ [g EXCEPT !.pending = x, !.evidence = x, !.capture = x,
                        !.notice = TRUE] \in Form
           /\ [g EXCEPT !.handled = u, !.url = u, !.notice = FALSE] \in Form
  BY DEF Form, MaybeFile

LEMMA FlowIsMade ==
    ASSUME NEW kind \in {"discover", "analyze", "resume", "reanalyze",
                         "cancel"},
           NEW x \in MaybeFile, NEW y \in MaybeFile, NEW z \in MaybeFile,
           NEW b \in BOOLEAN
    PROVE  NewFlow(kind, x, y, z, b) \in Flow
  BY BoundAssumption DEF NewFlow, Flow

LEMMA FlowChanges ==
    ASSUME NEW f \in Flow, NEW j \in 0..MaxJobs
    PROVE  /\ [f EXCEPT !.at = "answer", !.job = j] \in Flow
           /\ [f EXCEPT !.at = "poll"] \in Flow
           /\ [f EXCEPT !.at = "poll", !.job = j] \in Flow
           /\ [f EXCEPT !.job = j] \in Flow
           /\ [f EXCEPT !.live = FALSE] \in Flow
  BY DEF Flow

(* A job offered for recovery was made for a capture.                      *)
LEMMA OfferedIsMade ==
    ASSUME PcapTypeOK, JobsAreMade, NEW j \in RecoveryJobs
    PROVE  /\ j \in 0..MaxJobs
           /\ j # 0 => /\ j \in Jobs /\ jobs[j].status # "none"
                       /\ jobs[j].file \in Files
<1>1. CASE j \in Jobs /\ jobs[j].status = "running"
  BY <1>1, BoundAssumption DEF PcapTypeOK, JobsAreMade, Jobs, Job, MaybeFile
<1>2. CASE done # <<>> /\ j = Head(done)
  <2>1. Len(done) \in Nat /\ Len(done) >= 1 /\ j = done[1] /\ j \in Jobs
    BY <1>2 DEF PcapTypeOK
  <2>2. jobs[j].status # "none" /\ jobs[j].file # None
    BY <2>1 DEF JobsAreMade
  <2> QED
    BY <2>1, <2>2, BoundAssumption DEF PcapTypeOK, Jobs, Job, MaybeFile
<1>3. CASE j = 0
  BY <1>3, BoundAssumption
<1> QED
  BY <1>1, <1>2, <1>3 DEF RecoveryJobs

(* The steps of a flow between two awaits replace it.                      *)
Follows(h, f) ==
    /\ h.kind = f.kind /\ h.file = f.file /\ h.evidence = f.evidence
    /\ h.capture = f.capture /\ h.live = f.live /\ h.refresh = f.refresh

Accepts(f, j, h) ==
    /\ jobs[j].status = "none"
    /\ jobs' = [jobs EXCEPT ![j] =
          [phase |-> IF f.kind = "discover" THEN "evidence" ELSE "modules",
           file |-> f.file, status |-> "running"]]
    /\ flows' = (flows \ {f}) \cup {h}
    /\ Follows(h, f) /\ h.at = "answer" /\ h.job = j

Answers(f, h) ==
    /\ flows' = (flows \ {f}) \cup {h}
    /\ Follows(h, f) /\ h.at = "poll" /\ h.job = f.job

LEMMA AcceptMoves ==
    ASSUME PcapTypeOK, NEW f \in flows, Accept(f)
    PROVE  \E j \in Jobs, h \in Flow : Accepts(f, j, h)
<1>1. PICK j \in Jobs :
        /\ jobs[j].status = "none"
        /\ jobs' = [jobs EXCEPT ![j] =
              [phase |-> IF f.kind = "discover" THEN "evidence" ELSE "modules",
               file |-> f.file, status |-> "running"]]
        /\ flows' = (flows \ {f}) \cup {[f EXCEPT !.at = "answer", !.job = j]}
  BY DEF Accept
<1> DEFINE h == [f EXCEPT !.at = "answer", !.job = j]
<1>2. f \in Flow /\ h \in Flow
  <2>1. f \in Flow /\ j \in 0..MaxJobs
    BY BoundAssumption DEF PcapTypeOK, Jobs
  <2> QED
    BY <2>1, FlowChanges
<1>3. Follows(h, f) /\ h.at = "answer" /\ h.job = j
  BY <1>2 DEF Follows, Flow
<1> QED
  BY <1>1, <1>2, <1>3 DEF Accepts

LEMMA AnswerMoves ==
    ASSUME PcapTypeOK, NEW f \in flows, Answer(f)
    PROVE  \E h \in Flow : Answers(f, h)
<1> DEFINE h == [f EXCEPT !.at = "poll"]
<1>1. f \in Flow /\ h \in Flow
  BY FlowChanges, BoundAssumption DEF PcapTypeOK, Flow
<1>2. Follows(h, f) /\ h.at = "poll" /\ h.job = f.job
  BY <1>1 DEF Follows, Flow
<1> QED
  BY <1>1, <1>2 DEF Answer, Answers

(* The effect that recovers a job, with the flow it starts.                *)
Kept == {f \in flows : f.kind # "resume"}

Resumes(j, h) ==
    /\ jobs[j].status # "none" /\ form.url = 0 /\ ~busy
    /\ form' \in Form /\ form'.url = j
    /\ form' = [form EXCEPT !.handled = j, !.url = j, !.notice = FALSE]
    /\ busy' = TRUE
    /\ flows' = Kept \cup {h}
    /\ h.kind = "resume" /\ h.at = "poll" /\ h.job = j /\ h.file \in Files
    /\ overlap' = (overlap \/ \E f \in Kept : f \in FormFlows)

LEMMA RecoveryMoves ==
    ASSUME PcapTypeOK, JobsAreMade, PollJobs
    PROVE  /\ dropped' = (dropped \/ Kept # flows)
           /\ recovery' \in 0..MaxJobs
           /\ \/ flows' = Kept /\ UNCHANGED <<form, busy, overlap>>
              \/ \E j \in Jobs, h \in Flow : Resumes(j, h)
<1>1. PICK j \in RecoveryJobs : RecoveryEffect(j)
  BY DEF PollJobs
<1>2. /\ j \in 0..MaxJobs
      /\ j # 0 => /\ j \in Jobs /\ jobs[j].status # "none"
                  /\ jobs[j].file \in Files
  BY OfferedIsMade
<1>3. CASE j # 0 /\ form.url = 0 /\ form.handled # j /\ ~busy
  <2> DEFINE n == NewFlow("resume", jobs[j].file, None, None, FALSE)
             h == [n EXCEPT !.at = "poll", !.job = j]
  <2>1. n \in Flow
    BY <1>2, <1>3, FlowIsMade DEF MaybeFile
  <2>2. h \in Flow /\ h.kind = "resume" /\ h.at = "poll" /\ h.job = j
        /\ h.file = jobs[j].file
    <3>1. h \in Flow
      BY <1>2, <2>1, FlowChanges
    <3> QED
      BY <3>1 DEF NewFlow
  <2>3. /\ form \in Form
        /\ [form EXCEPT !.handled = j, !.url = j, !.notice = FALSE] \in Form
    BY <1>2, FormChanges DEF PcapTypeOK, MaybeFile
  <2>4. /\ recovery' = j /\ dropped' = (dropped \/ Kept # flows)
        /\ form' = [form EXCEPT !.handled = j, !.url = j, !.notice = FALSE]
        /\ busy' = TRUE /\ flows' = Kept \cup {h}
        /\ overlap' = (overlap \/ \E f \in Kept : f \in FormFlows)
    BY <1>1, <1>3 DEF RecoveryEffect, Kept
  <2>5. form'.url = j
    BY <2>3, <2>4 DEF Form
  <2> QED
    BY <1>2, <1>3, <2>2, <2>3, <2>4, <2>5 DEF Resumes
<1>4. CASE ~(j # 0 /\ form.url = 0 /\ form.handled # j /\ ~busy)
  BY <1>1, <1>2, <1>4 DEF RecoveryEffect, Kept
<1> QED
  BY <1>3, <1>4

(* The flow that a capture, a choice of context or a regeneration starts.  *)
Made(h, kind, file, evidence, capture, refresh) ==
    /\ h \in Flow /\ h.kind = kind /\ h.at = "post" /\ h.file = file
    /\ h.evidence = evidence /\ h.capture = capture /\ h.refresh = refresh

LEMMA NewFlowIsMade ==
    ASSUME NEW kind \in {"discover", "analyze", "resume", "reanalyze",
                         "cancel"},
           NEW x \in MaybeFile, NEW y \in MaybeFile, NEW z \in MaybeFile,
           NEW b \in BOOLEAN
    PROVE  Made(NewFlow(kind, x, y, z, b), kind, x, y, z, b)
  BY FlowIsMade DEF Made, NewFlow

LEMMA StartMoves ==
    ASSUME PcapTypeOK, StartAnalysis
    PROVE  \E h : /\ flows' = flows \cup {h}
                  /\ Made(h, "analyze", form.pending, form.evidence,
                          form.capture, FALSE)
  BY NewFlowIsMade DEF StartAnalysis, Analyze, PcapTypeOK, Form

LEMMA RefreshMoves ==
    ASSUME PcapTypeOK, RequestRefresh, form.last # None
    PROVE  \E h : /\ flows' = flows \cup {h}
                  /\ Made(h, "analyze", form.last, form.last, form.last, TRUE)
  BY NewFlowIsMade DEF RequestRefresh, Analyze, PcapTypeOK, Form

LEMMA CancelMoves ==
    ASSUME PcapTypeOK, Cancel
    PROVE  \E h \in Flow : /\ flows' = flows \cup {h}
                           /\ h.kind = "cancel" /\ h.job = form.url /\ h.live
<1> DEFINE n == NewFlow("cancel", None, None, None, FALSE)
           h == [n EXCEPT !.job = form.url]
<1>1. n \in Flow /\ form.url \in 0..MaxJobs
  BY FlowIsMade DEF PcapTypeOK, Form, MaybeFile
<1>2. h \in Flow
  BY <1>1, FlowChanges
<1>3. h.kind = "cancel" /\ h.job = form.url /\ h.live
  BY <1>1 DEF NewFlow
<1> QED
  BY <1>2, <1>3 DEF Cancel

(* A sign-out leaves the flows of the form behind, without it.             *)
LeftBehind(h, f) ==
    /\ f.kind # "resume" /\ h \in Flow /\ ~h.live
    /\ h = [f EXCEPT !.live = FALSE]
    /\ h.kind = f.kind /\ h.at = f.at /\ h.job = f.job
    /\ h.file = f.file /\ h.evidence = f.evidence
    /\ h.capture = f.capture /\ h.refresh = f.refresh

LEMMA SignOutMoves ==
    ASSUME PcapTypeOK, SignOut
    PROVE  /\ \A h \in flows' : \E f \in flows : LeftBehind(h, f)
           /\ \A f \in flows : f.kind # "resume" =>
                 \E h \in flows' : h.kind = f.kind /\ h.refresh = f.refresh
<1>1. ASSUME NEW f \in flows
      PROVE  LET h == [f EXCEPT !.live = FALSE] IN
             /\ h \in Flow /\ ~h.live
             /\ h.kind = f.kind /\ h.at = f.at /\ h.job = f.job
             /\ h.file = f.file /\ h.evidence = f.evidence
             /\ h.capture = f.capture /\ h.refresh = f.refresh
  BY DEF PcapTypeOK, Flow
<1>2. flows' = {[f EXCEPT !.live = FALSE] :
                   f \in {g \in flows : g.kind # "resume"}}
  BY DEF SignOut
<1>3. ASSUME NEW h \in flows'
      PROVE  \E f \in flows : f.kind # "resume" /\ h = [f EXCEPT !.live = FALSE]
  BY <1>2
<1>4. ASSUME NEW f \in flows, f.kind # "resume"
      PROVE  [f EXCEPT !.live = FALSE] \in flows'
  BY <1>2, <1>4
<1>5. ASSUME NEW h \in flows'
      PROVE  \E f \in flows : LeftBehind(h, f)
  <2>1. PICK f \in flows : f.kind # "resume" /\ h = [f EXCEPT !.live = FALSE]
    BY <1>3
  <2> QED
    BY <1>1, <2>1 DEF LeftBehind
<1>6. ASSUME NEW f \in flows, f.kind # "resume"
      PROVE  \E h \in flows' : h.kind = f.kind /\ h.refresh = f.refresh
  BY <1>1, <1>4, <1>6
<1> QED
  BY <1>5, <1>6

(* The list of completed jobs.                                             *)
LEMMA CompletedMoves ==
    ASSUME PcapTypeOK, NEW j \in Jobs, ServerCompletes(j) \/ ServerEnds(j)
    PROVE  /\ done' \in Seq(Jobs)
           /\ \A k \in 1..Len(done') :
                 done'[k] = j \/ \E m \in 1..Len(done) : done'[k] = done[m]
<1>1. done \in Seq(Jobs)
  BY DEF PcapTypeOK
<1>2. CASE ServerCompletes(j)
  <2>1. done' = <<j>> \o done
    BY <1>2 DEF ServerCompletes
  <2>2. /\ <<j>> \in Seq(Jobs) /\ Len(<<j>>) = 1 /\ <<j>>[1] = j
    OBVIOUS
  <2>3. /\ <<j>> \o done \in Seq(Jobs)
        /\ \A k \in 1..Len(<<j>> \o done) :
              (<<j>> \o done)[k] = IF k = 1 THEN j ELSE done[k - 1]
        /\ Len(<<j>> \o done) = Len(done) + 1
    BY <1>1, <2>2, ConcatProperties
  <2> QED
    BY <1>1, <2>1, <2>3
<1>3. ASSUME NEW i \in 1..Len(done), done' = RemoveAt(done, i)
      PROVE  /\ done' \in Seq(Jobs)
             /\ \A k \in 1..Len(done') :
                   \E m \in 1..Len(done) : done'[k] = done[m]
  <2> DEFINE a == SubSeq(done, 1, i - 1)
             b == SubSeq(done, i + 1, Len(done))
  <2>1. /\ a \in Seq(Jobs) /\ Len(a) = i - 1
        /\ \A k \in 1..(i - 1) : a[k] = done[k]
    BY <1>1, SubSeqProperties
  <2>2. /\ b \in Seq(Jobs) /\ Len(b) = Len(done) - i
        /\ \A k \in 1..(Len(done) - i) : b[k] = done[k + i]
    BY <1>1, SubSeqProperties
  <2>3. done' = a \o b
    BY <1>3 DEF RemoveAt
  <2> HIDE DEF a, b
  <2>4. /\ a \o b \in Seq(Jobs) /\ Len(a \o b) = Len(done) - 1
        /\ \A k \in 1..Len(a) + Len(b) : (a \o b)[k] = IF k <= Len(a) THEN a[k]
                                                   ELSE b[k - Len(a)]
    BY <1>1, <2>1, <2>2, ConcatProperties
  <2>5. ASSUME NEW k \in 1..Len(done')
        PROVE  \E m \in 1..Len(done) : done'[k] = done[m]
    <3>1. k \in 1..Len(done) - 1 /\ Len(done) \in Nat
      BY <1>1, <2>3, <2>4
    <3>2. CASE k <= i - 1
      BY <1>1, <2>1, <2>2, <2>3, <2>4, <3>1, <3>2
    <3>3. CASE k > i - 1
      <4>1. k - (i - 1) \in 1..(Len(done) - i) /\ k + 1 \in 1..Len(done)
        BY <3>1, <3>3
      <4>2. done'[k] = b[k - (i - 1)]
        BY <2>1, <2>2, <2>3, <2>4, <3>1, <3>3
      <4> QED
        BY <2>2, <4>1, <4>2
    <3> QED
      BY <3>1, <3>2, <3>3
  <2> QED
    BY <2>3, <2>4, <2>5
<1>4. CASE UNCHANGED done
  BY <1>1, <1>4
<1> QED
  BY <1>2, <1>3, <1>4 DEF ServerEnds

(* A flow that ends leaves a form behind, its own or the one on screen.    *)
LEMMA EndMoves ==
    ASSUME PcapTypeOK, NEW f \in flows,
           \/ EvidenceReady(f) \/ ReportReady(f) \/ DiscoveryFails(f)
           \/ AnalysisFails(f) \/ RecoveryFails(f) \/ Recovered(f)
    PROVE  form' \in Form /\ flows' = flows \ {f}
<1>1. /\ form \in Form /\ f.file \in MaybeFile /\ None \in MaybeFile
      /\ 0 \in 0..MaxJobs
  BY BoundAssumption DEF PcapTypeOK, Flow, MaybeFile
<1>2. [form EXCEPT !.url = 0] \in Form
  BY <1>1, FormChanges
<1> QED
  BY <1>1, <1>2, FormChanges
  DEF EvidenceReady, ReportReady, DiscoveryFails, AnalysisFails, RecoveryFails,
      Recovered, Idle

-----------------------------------------------------------------------------
(* The parts of PcapInv, as the steps keep them.                           *)
JobsTyped == jobs \in [Jobs -> Job] /\ done \in Seq(Jobs)
ReportTyped ==
    report \in {NoReport, OtherReport} \cup Jobs /\ recovery \in 0..MaxJobs
FlagsTyped ==
    {signedIn, busy, capBusy, stale, prompt, refreshing, dropped, overlap}
       \subseteq BOOLEAN
FormTyped == form \in Form
FlowsTyped == flows \in SUBSET Flow
Overlaps == BusyMatchesFlows /\ OverlapIsKnown
Dialogs == DialogHasCapture /\ DiscoveryInHand
Paired == PairedEvidence /\ EvidenceInHand
Cancels == CancelReaches /\ CancelsKeepToMount

Parts ==
    /\ JobsTyped /\ ReportTyped /\ FlagsTyped /\ FormTyped /\ FlowsTyped
    /\ JobsAreMade /\ Overlaps /\ Dialogs /\ Paired /\ RefreshDialogEnds
    /\ Cancels

LEMMA PartsStep ==
    ASSUME PcapInv, [PcapNext]_pcapVars
    PROVE  Parts'
<1> USE NoneAssumption, BoundAssumption
    DEF PcapInv, PcapTypeOK, Jobs, Job, Form, Flow, MaybeFile, NewForm, Load,
        Idle, Starts, Polling, FormFlows, PickerAccepts, ReadyShown,
        CancelOffered, DialogShown, PromptShown, NoReport, OtherReport,
        server, ui, BusyMatchesFlows, OverlapIsKnown, JobsAreMade,
        DialogHasCapture, DiscoveryInHand, PairedEvidence, EvidenceInHand,
        RefreshDialogEnds, CancelReaches, CancelsKeepToMount,
        JobsTyped, ReportTyped, FlagsTyped, FormTyped, FlowsTyped, Overlaps,
        Dialogs, Paired, Cancels
<1>1. ASSUME NEW file \in Files, OpenPcap(file) PROVE Parts'
  <2>1. Made(NewFlow("discover", file, None, None, FALSE), "discover", file,
             None, None, FALSE)
    BY NewFlowIsMade
  <2> HIDE DEF NewFlow
  <2> QED
    BY <1>1, <2>1 DEF Parts, OpenPcap, Made
<1>2. ASSUME NEW file \in Files, Reanalyze(file) PROVE Parts'
  <2>1. FlowsTyped'
    <3>1. NewFlow("reanalyze", file, file, file, FALSE) \in Flow
      BY FlowIsMade
    <3> HIDE DEF Flow, NewFlow
    <3> QED
      BY <1>2, <3>1 DEF Reanalyze
  <2>2. (JobsTyped /\ ReportTyped /\ FlagsTyped /\ FormTyped)'
    BY <1>2 DEF Reanalyze
  <2>3. (JobsAreMade /\ Overlaps /\ Dialogs /\ Paired /\ RefreshDialogEnds
         /\ Cancels)'
    BY <1>2 DEF Reanalyze, NewFlow
  <2> QED
    BY <2>1, <2>2, <2>3 DEF Parts
<1>3. ASSUME NEW f \in flows, Accept(f) PROVE Parts'
  <2>1. PICK j \in Jobs, h \in Flow : Accepts(f, j, h)
    BY <1>3, AcceptMoves
  <2> QED
    BY <1>3, <2>1 DEF Parts, Accept, Accepts, Follows
<1>4. ASSUME NEW f \in flows, Answer(f) PROVE Parts'
  <2>1. PICK h \in Flow : Answers(f, h)
    BY <1>4, AnswerMoves
  <2>2. (JobsTyped /\ ReportTyped /\ FlagsTyped /\ FormTyped /\ FlowsTyped)'
    BY <1>4, <2>1 DEF Answer, Answers, Follows
  <2>3. (Paired /\ RefreshDialogEnds /\ Cancels)'
    BY <1>4, <2>1 DEF Answer, Answers, Follows
  <2>4. (JobsAreMade /\ Overlaps)'
    BY <1>4, <2>1 DEF Answer, Answers, Follows
  <2>5. Dialogs'
    BY <1>4, <2>1 DEF Answer, Answers, Follows
  <2> QED
    BY <2>2, <2>3, <2>4, <2>5 DEF Parts
<1>5. ASSUME NEW f \in flows, EvidenceReady(f) PROVE Parts'
  <2>1. form' \in Form /\ flows' = flows \ {f}
    BY <1>5, EndMoves
  <2>2. (JobsTyped /\ ReportTyped /\ FlagsTyped /\ FormTyped /\ FlowsTyped)'
    BY <1>5, <2>1 DEF EvidenceReady
  <2>3. (JobsAreMade /\ Overlaps /\ Dialogs /\ Paired /\ RefreshDialogEnds
         /\ Cancels)'
    BY <1>5, <2>1 DEF EvidenceReady
  <2> QED
    BY <2>2, <2>3 DEF Parts
<1>6. ASSUME NEW f \in flows, ReportReady(f) PROVE Parts'
  <2>1. form' \in Form /\ flows' = flows \ {f}
    BY <1>6, EndMoves
  <2>2. (JobsAreMade /\ Overlaps /\ Dialogs /\ Paired /\ RefreshDialogEnds
         /\ Cancels)'
    BY <1>6, <2>1 DEF ReportReady
  <2>3. (FormTyped /\ FlowsTyped)'
    BY <1>6, <2>1 DEF ReportReady
  <2>4. (JobsTyped /\ ReportTyped)'
    BY <1>6, <2>1 DEF ReportReady
  <2>5. FlagsTyped'
    BY <1>6, <2>1 DEF ReportReady
  <2> QED
    BY <2>2, <2>3, <2>4, <2>5 DEF Parts
<1>7. ASSUME NEW f \in flows, DiscoveryFails(f) PROVE Parts'
  <2>1. form' \in Form /\ flows' = flows \ {f}
    BY <1>7, EndMoves
  <2>2. (JobsTyped /\ ReportTyped /\ FlagsTyped /\ FormTyped /\ FlowsTyped)'
    BY <1>7, <2>1 DEF DiscoveryFails
  <2>3. (JobsAreMade /\ Overlaps /\ Dialogs /\ Paired /\ RefreshDialogEnds
         /\ Cancels)'
    BY <1>7, <2>1 DEF DiscoveryFails
  <2> QED
    BY <2>2, <2>3 DEF Parts
<1>8. ASSUME NEW f \in flows, AnalysisFails(f) PROVE Parts'
  <2>1. form' \in Form /\ flows' = flows \ {f}
    BY <1>8, EndMoves
  <2>2. (JobsTyped /\ ReportTyped /\ FlagsTyped /\ FormTyped /\ FlowsTyped)'
    BY <1>8, <2>1 DEF AnalysisFails
  <2>3. (JobsAreMade /\ Overlaps /\ Dialogs /\ Paired /\ RefreshDialogEnds
         /\ Cancels)'
    BY <1>8, <2>1 DEF AnalysisFails
  <2> QED
    BY <2>2, <2>3 DEF Parts
<1>9. ASSUME NEW f \in flows, RecoveryFails(f) PROVE Parts'
  <2>1. form' \in Form /\ flows' = flows \ {f}
    BY <1>9, EndMoves
  <2>2. (JobsTyped /\ ReportTyped /\ FlagsTyped /\ FormTyped /\ FlowsTyped)'
    BY <1>9, <2>1 DEF RecoveryFails
  <2>3. (JobsAreMade /\ Overlaps /\ Dialogs /\ Paired /\ RefreshDialogEnds
         /\ Cancels)'
    BY <1>9, <2>1 DEF RecoveryFails
  <2> QED
    BY <2>2, <2>3 DEF Parts
<1>10. ASSUME NEW f \in flows, CancelArrives(f) PROVE Parts'
  <2>1. f \in Flow /\ f.kind = "cancel" /\ f.job # 0 /\ f.job \in Jobs
        /\ jobs[f.job].status # "none"
    BY <1>10 DEF CancelArrives
  <2>2. /\ flows' \subseteq flows /\ UNCHANGED <<done, form>>
        /\ \/ UNCHANGED jobs
           \/ jobs' = [jobs EXCEPT ![f.job].status = "canceling"]
    BY <1>10 DEF CancelArrives
  <2>3. /\ jobs \in [Jobs -> Job] /\ done \in Seq(Jobs) /\ flows \subseteq Flow
        /\ form \in Form
    OBVIOUS
  <2>4. jobs[f.job] \in Job
        /\ [jobs[f.job] EXCEPT !.status = "canceling"] \in Job
    <3>1. jobs[f.job] \in Job
      <4> HIDE DEF PcapInv, PcapTypeOK, Form, Flow, Job, Jobs
      <4> QED
        BY <2>1, <2>3
    <3> HIDE DEF PcapInv, PcapTypeOK, Form, Flow
    <3> QED
      BY <3>1
  <2>5. JobsTyped'
    <3> HIDE DEF PcapInv, PcapTypeOK, Form, Flow, Job, Jobs
    <3> QED
      BY <2>1, <2>2, <2>3, <2>4
  <2>6. \A j \in Jobs : /\ jobs'[j].file = jobs[j].file
                        /\ jobs[j].status # "none" => jobs'[j].status # "none"
                        /\ jobs[j].status = "none" => jobs'[j].status = "none"
    <3> HIDE DEF PcapInv, PcapTypeOK, Form, Flow, Jobs
    <3> QED
      BY <2>1, <2>2, <2>3
  <2>7. JobsAreMade'
    <3>1. /\ \A i \in Jobs : jobs[i].status # "none" => jobs[i].file # None
          /\ \A k \in 1..Len(done) :
                done[k] \in Jobs /\ jobs[done[k]].status # "none"
          /\ form.url # 0 => form.url \in Jobs /\ jobs[form.url].status # "none"
          /\ \A g \in flows :
                /\ g.kind # "cancel" => g.file # None
                /\ g.kind = "cancel" \/ g.at # "post" =>
                      g.job # 0 /\ g.job \in Jobs /\ jobs[g.job].status # "none"
      BY <2>3
    <3> HIDE DEF PcapInv, PcapTypeOK, Form, Flow, Job, Jobs
    <3> QED
      BY <2>2, <2>6, <3>1
  <2>8. (ReportTyped /\ FlagsTyped /\ FormTyped /\ FlowsTyped /\ Overlaps
         /\ Dialogs /\ Paired /\ RefreshDialogEnds /\ Cancels)'
    BY <1>10 DEF CancelArrives
  <2> QED
    BY <2>5, <2>7, <2>8 DEF Parts
<1>11. ASSUME NEW f \in flows, CancelFails(f) PROVE Parts'
  <2>1. (JobsTyped /\ ReportTyped /\ FlagsTyped /\ FormTyped /\ FlowsTyped)'
    BY <1>11 DEF CancelFails
  <2>2. (JobsAreMade /\ Overlaps /\ Dialogs /\ Paired /\ RefreshDialogEnds
         /\ Cancels)'
    BY <1>11 DEF CancelFails
  <2> QED
    BY <2>1, <2>2 DEF Parts
<1>12. ASSUME NEW f \in flows, Recovered(f) PROVE Parts'
  <2>1. form' \in Form /\ flows' = flows \ {f}
    BY <1>12, EndMoves
  <2>2. f \in Flow /\ form \in Form /\ f.file # None /\ f.kind = "resume"
    BY <1>12 DEF Recovered
  <2>3. /\ jobs[f.job].phase # "modules" =>
              /\ f.live => /\ form'.pending = f.file /\ form'.evidence = f.file
                           /\ form'.capture = f.file
                           /\ form'.dialog = form.dialog
              /\ ~f.live => form' = form
        /\ overlap' = overlap
    BY <1>12, <2>2 DEF Recovered
  <2>4. ASSUME NEW g \in flows', g.kind = "discover", ~overlap PROVE FALSE
    BY <2>1, <2>2, <2>4
  <2>5. (Dialogs /\ Paired)'
    <3>1. CASE jobs[f.job].phase = "modules"
      <4>1. /\ form'.pending = form.pending /\ form'.evidence = form.evidence
            /\ form'.capture = form.capture /\ form'.dialog = form.dialog
            /\ form'.notice = form.notice
        BY <1>12, <2>2, <3>1 DEF Recovered
      <4> HIDE DEF Form, Flow, Job
      <4>2. Dialogs'
        BY <2>1, <2>3, <2>4, <4>1
      <4>3. Paired'
        BY <2>1, <2>3, <4>1
      <4> QED
        BY <4>2, <4>3
    <3>2. CASE jobs[f.job].phase # "modules"
      <4> HIDE DEF Form, Flow, Job
      <4>1. Dialogs'
        BY <2>1, <2>2, <2>3, <2>4, <3>2
      <4>2. Paired'
        BY <2>1, <2>2, <2>3, <2>4, <3>2
      <4> QED
        BY <4>1, <4>2
    <3> QED
      BY <3>1, <3>2
  <2>6. (FormTyped /\ FlowsTyped)'
    BY <1>12, <2>1 DEF Recovered
  <2>7. (RefreshDialogEnds /\ Cancels)'
    BY <1>12, <2>1 DEF Recovered
  <2>8. (JobsTyped /\ ReportTyped)'
    BY <1>12, <2>1 DEF Recovered
  <2>9. FlagsTyped'
    BY <1>12, <2>1 DEF Recovered
  <2>10. JobsAreMade'
    BY <1>12, <2>1 DEF Recovered
  <2>11. Overlaps'
    BY <1>12, <2>1 DEF Recovered
  <2> QED
    BY <2>5, <2>6, <2>7, <2>8, <2>9, <2>10, <2>11 DEF Parts
<1>13. ASSUME NEW f \in flows, Reanalyzed(f) PROVE Parts'
  <2>1. (JobsAreMade /\ Overlaps /\ Dialogs /\ Paired /\ RefreshDialogEnds
         /\ Cancels)'
    BY <1>13 DEF Reanalyzed
  <2>2. (FormTyped /\ FlowsTyped)'
    BY <1>13 DEF Reanalyzed
  <2>3. (JobsTyped /\ ReportTyped)'
    BY <1>13 DEF Reanalyzed
  <2>4. FlagsTyped'
    BY <1>13 DEF Reanalyzed
  <2> QED
    BY <2>1, <2>2, <2>3, <2>4 DEF Parts
<1>14. ASSUME NEW j \in Jobs, ServerCompletes(j) PROVE Parts'
  <2>1. /\ done' \in Seq(Jobs)
        /\ \A k \in 1..Len(done') :
              done'[k] = j \/ \E m \in 1..Len(done) : done'[k] = done[m]
    BY <1>14, CompletedMoves
  <2>2. /\ jobs'[j].status # "none" /\ jobs[j].status # "none"
        /\ \A i \in Jobs : jobs'[i].file = jobs[i].file
        /\ \A i \in Jobs : i # j => jobs'[i] = jobs[i]
        /\ UNCHANGED <<form, flows>>
    BY <1>14 DEF ServerCompletes
  <2>3. JobsTyped'
    BY <1>14, <2>1 DEF ServerCompletes
  <2>4. JobsAreMade'
    <3>1. /\ \A i \in Jobs : jobs[i].status # "none" => jobs[i].file # None
          /\ \A k \in 1..Len(done) :
                done[k] \in Jobs /\ jobs[done[k]].status # "none"
          /\ form.url # 0 => form.url \in Jobs /\ jobs[form.url].status # "none"
          /\ \A g \in flows :
                /\ g.kind # "cancel" => g.file # None
                /\ g.kind = "cancel" \/ g.at # "post" =>
                      g.job # 0 /\ g.job \in Jobs /\ jobs[g.job].status # "none"
      OBVIOUS
    <3> HIDE DEF PcapInv, PcapTypeOK, Form, Flow, Job, Jobs
    <3>2. ASSUME NEW k \in 1..Len(done') PROVE jobs'[done'[k]].status # "none"
      BY <2>1, <2>2, <3>1
    <3> QED
      BY <2>2, <3>1, <3>2
  <2>5. (ReportTyped /\ FlagsTyped /\ FormTyped /\ FlowsTyped)'
    BY <1>14 DEF ServerCompletes
  <2>6. (Overlaps /\ Dialogs /\ Paired /\ RefreshDialogEnds /\ Cancels)'
    BY <1>14 DEF ServerCompletes
  <2> QED
    BY <2>3, <2>4, <2>5, <2>6 DEF Parts
<1>15. ASSUME NEW j \in Jobs, ServerEnds(j) PROVE Parts'
  <2>1. /\ done' \in Seq(Jobs)
        /\ \A k \in 1..Len(done') :
              done'[k] = j \/ \E m \in 1..Len(done) : done'[k] = done[m]
    BY <1>15, CompletedMoves
  <2>2. /\ jobs'[j].status # "none" /\ jobs[j].status # "none"
        /\ \A i \in Jobs : jobs'[i].file = jobs[i].file
        /\ \A i \in Jobs : i # j => jobs'[i] = jobs[i]
        /\ UNCHANGED <<form, flows>>
    BY <1>15 DEF ServerEnds
  <2>3. JobsTyped'
    <3>1. jobs[j] \in Job /\ [jobs[j] EXCEPT !.status = "ended"] \in Job
      OBVIOUS
    <3>2. jobs \in [Jobs -> Job] /\ jobs' = [jobs EXCEPT ![j].status = "ended"]
      BY <1>15 DEF ServerEnds
    <3> HIDE DEF PcapInv, PcapTypeOK, Form, Flow, Job, Jobs
    <3> QED
      BY <2>1, <3>1, <3>2
  <2>4. JobsAreMade'
    <3>1. /\ \A i \in Jobs : jobs[i].status # "none" => jobs[i].file # None
          /\ \A k \in 1..Len(done) :
                done[k] \in Jobs /\ jobs[done[k]].status # "none"
          /\ form.url # 0 => form.url \in Jobs /\ jobs[form.url].status # "none"
          /\ \A g \in flows :
                /\ g.kind # "cancel" => g.file # None
                /\ g.kind = "cancel" \/ g.at # "post" =>
                      g.job # 0 /\ g.job \in Jobs /\ jobs[g.job].status # "none"
      OBVIOUS
    <3> HIDE DEF PcapInv, PcapTypeOK, Form, Flow, Job, Jobs
    <3>2. ASSUME NEW k \in 1..Len(done') PROVE jobs'[done'[k]].status # "none"
      BY <2>1, <2>2, <3>1
    <3> QED
      BY <2>2, <3>1, <3>2
  <2>5. (Overlaps /\ Dialogs /\ Paired /\ RefreshDialogEnds /\ Cancels)'
    BY <1>15 DEF ServerEnds
  <2>6. (FormTyped /\ FlowsTyped)'
    BY <1>15 DEF ServerEnds
  <2>7. FlagsTyped'
    BY <1>15 DEF ServerEnds
  <2>8. ReportTyped'
    BY <1>15 DEF ServerEnds
  <2> QED
    BY <2>3, <2>4, <2>5, <2>6, <2>7, <2>8 DEF Parts
<1>16. CASE StartAnalysis
  <2>1. PICK h : /\ flows' = flows \cup {h}
                 /\ Made(h, "analyze", form.pending, form.evidence,
                         form.capture, FALSE)
    BY <1>16, StartMoves
  <2>2. /\ (JobsTyped /\ ReportTyped /\ FlagsTyped)'
        /\ FormTyped'
        /\ FlowsTyped'
    <3>1. (JobsTyped /\ ReportTyped /\ FlagsTyped)'
      BY <1>16 DEF StartAnalysis, Analyze
    <3>2. FormTyped'
      BY <1>16 DEF StartAnalysis, Analyze
    <3>3. FlowsTyped'
      BY <1>16, <2>1 DEF StartAnalysis, Analyze, Made
    <3> QED
      BY <3>1, <3>2, <3>3
  <2>3. (JobsAreMade /\ RefreshDialogEnds)'
    BY <1>16, <2>1 DEF StartAnalysis, Analyze, Made
  <2>4. Overlaps'
    BY <1>16, <2>1 DEF StartAnalysis, Analyze, Made
  <2>5. (Dialogs /\ Paired)'
    BY <1>16, <2>1 DEF StartAnalysis, Analyze, Made
  <2>6. CancelReaches'
    BY <1>16, <2>1 DEF StartAnalysis, Analyze, Made
  <2>7. CancelsKeepToMount'
    BY <1>16, <2>1 DEF StartAnalysis, Analyze, Made
  <2> QED
    BY <2>2, <2>3, <2>4, <2>5, <2>6, <2>7 DEF Parts
<1>17. CASE Cancel
  <2>1. PICK h \in Flow : /\ flows' = flows \cup {h}
                          /\ h.kind = "cancel" /\ h.job = form.url /\ h.live
    BY <1>17, CancelMoves
  <2>2. /\ form' = [form EXCEPT !.cancelReq = TRUE] /\ form'.url = form.url
        /\ UNCHANGED <<jobs, done, busy, dropped, overlap>> /\ form.url # 0
    BY <1>17 DEF Cancel
  <2>3. FormFlows' = FormFlows
    BY <2>1
  <2>4. Overlaps'
    BY <2>2, <2>3
  <2>5. JobsAreMade'
    <3>1. \A f \in flows' : f \in flows \/ f = h
      BY <2>1
    <3> HIDE DEF Form, Flow, Job
    <3> QED
      BY <2>1, <2>2, <3>1
  <2>6. Cancels'
    <3>1. ASSUME NEW f \in flows', f.kind \in {"discover", "analyze"}
          PROVE  f \in flows
      BY <2>1, <3>1
    <3>2. ASSUME NEW g \in flows', g.kind = "cancel", ~g.live
          PROVE  g \in flows
      BY <2>1, <3>2
    <3> HIDE DEF Form, Flow, Job
    <3>3. CancelReaches'
      BY <2>1, <2>2
    <3>4. CancelsKeepToMount'
      BY <3>1, <3>2
    <3> QED
      BY <3>3, <3>4
  <2>7. (JobsTyped /\ ReportTyped /\ FlagsTyped)'
    BY <1>17, <2>1 DEF Cancel
  <2>8. (Paired /\ RefreshDialogEnds)'
    BY <1>17, <2>1 DEF Cancel
  <2>9. FormTyped'
    BY <1>17, <2>1 DEF Cancel
  <2>10. FlowsTyped'
    BY <1>17, <2>1 DEF Cancel
  <2>11. Dialogs'
    BY <1>17, <2>1 DEF Cancel
  <2> QED
    BY <2>4, <2>5, <2>6, <2>7, <2>8, <2>9, <2>10, <2>11 DEF Parts
<1>18. CASE PollJobs /\ flows' = Kept /\ UNCHANGED <<form, busy, overlap>>
  <2>1. recovery' \in 0..MaxJobs /\ dropped' = (dropped \/ Kept # flows)
    BY <1>18, RecoveryMoves
  <2> QED
    BY <1>18, <2>1 DEF Parts, PollJobs, Kept
<1>19. ASSUME PollJobs, NEW j \in Jobs, NEW h \in Flow, Resumes(j, h)
      PROVE  Parts'
  <2>1. recovery' \in 0..MaxJobs /\ dropped' = (dropped \/ Kept # flows)
        /\ UNCHANGED <<server, signedIn, report, capBusy, ui>>
    BY <1>19, RecoveryMoves DEF PollJobs
  <2>2. ASSUME NEW f \in flows' PROVE (f \in flows /\ f \in Kept) \/ f = h
    BY <1>19 DEF Resumes, Kept
  <2>3. JobsAreMade'
    <3>1. jobs' = jobs /\ done' = done
      BY <2>1
    <3>2. form'.url = j /\ jobs'[j].status # "none" /\ h.file # None /\ j # 0
      BY <1>19, <3>1 DEF Resumes
    <3>3. ASSUME NEW f \in flows'
          PROVE  /\ f.kind # "cancel" => f.file # None
                 /\ f.kind = "cancel" \/ f.at # "post" =>
                       f.job # 0 /\ jobs'[f.job].status # "none"
      BY <1>19, <2>2, <3>1, <3>2 DEF Resumes
    <3> HIDE DEF Form, Flow, Job
    <3> QED
      BY <3>1, <3>2, <3>3
  <2>4. Cancels'
    <3>1. ASSUME NEW f \in flows', f.kind \in {"discover", "analyze"}
          PROVE  overlap' /\ f \in flows
      BY <1>19, <2>2, <3>1 DEF Resumes
    <3>2. ASSUME NEW g \in flows', g.kind = "cancel" PROVE g \in flows
      BY <1>19, <2>2, <3>2 DEF Resumes
    <3> HIDE DEF Form, Flow, Job
    <3>3. CancelReaches'
      BY <3>1
    <3>4. CancelsKeepToMount'
      BY <3>1, <3>2
    <3> QED
      BY <3>3, <3>4
  <2>5. (JobsTyped /\ ReportTyped /\ FlagsTyped /\ FormTyped /\ FlowsTyped
         /\ Overlaps /\ Dialogs /\ Paired /\ RefreshDialogEnds)'
    BY <1>19, <2>1 DEF PollJobs, Resumes, Kept
  <2> QED
    BY <2>3, <2>4, <2>5 DEF Parts
<1>20. CASE RequestRefresh /\ form.last = None
  <2>1. (JobsTyped /\ ReportTyped /\ FlagsTyped /\ FormTyped /\ FlowsTyped)'
    BY <1>20 DEF RequestRefresh
  <2>2. (JobsAreMade /\ Overlaps /\ Dialogs /\ Paired /\ RefreshDialogEnds
         /\ Cancels)'
    BY <1>20 DEF RequestRefresh
  <2> QED
    BY <2>1, <2>2 DEF Parts
<1>21. CASE RequestRefresh /\ form.last # None
  <2>1. PICK h : /\ flows' = flows \cup {h}
                 /\ Made(h, "analyze", form.last, form.last, form.last, TRUE)
    BY <1>21, RefreshMoves
  <2>2. (JobsTyped /\ ReportTyped /\ FlagsTyped /\ FormTyped /\ FlowsTyped)'
    BY <1>21, <2>1 DEF RequestRefresh, Analyze, Made
  <2>3. (JobsAreMade /\ Overlaps /\ Dialogs /\ Paired /\ RefreshDialogEnds
         /\ Cancels)'
    BY <1>21, <2>1 DEF RequestRefresh, Analyze, Made
  <2> QED
    BY <2>2, <2>3 DEF Parts
<1>22. CASE SignOut
  <2>1. /\ \A h \in flows' : \E f \in flows : LeftBehind(h, f)
        /\ \A f \in flows : f.kind # "resume" =>
              \E h \in flows' : h.kind = f.kind /\ h.refresh = f.refresh
    BY <1>22, SignOutMoves
  <2>2. /\ signedIn' = FALSE /\ report' = NoReport /\ recovery' = 0
        /\ form' = NewForm
        /\ dropped' = (dropped \/ \E f \in flows : f.kind = "resume")
        /\ UNCHANGED <<server, busy, capBusy, ui, overlap>>
    BY <1>22 DEF SignOut
  <2>3. JobsAreMade'
    BY <2>1, <2>2 DEF LeftBehind
  <2>4. Overlaps'
    <3> HIDE DEF Form, Flow, Job
    <3>1. ASSUME NEW h \in FormFlows', NEW g \in FormFlows', ~overlap
          PROVE  h = g
      <4>1. PICK f \in flows : h = [f EXCEPT !.live = FALSE] /\ f.kind = h.kind
        BY <2>1 DEF LeftBehind
      <4>2. PICK e \in flows : g = [e EXCEPT !.live = FALSE] /\ e.kind = g.kind
        BY <2>1 DEF LeftBehind
      <4>3. f \in FormFlows /\ e \in FormFlows
        BY <4>1, <4>2
      <4>4. \A x, y \in FormFlows : x = y
        BY <3>1
      <4>5. f = e
        BY <4>3, <4>4
      <4> QED
        BY <4>1, <4>2, <4>5
    <3>2. FormFlows' # {} => FormFlows # {}
      BY <2>1 DEF LeftBehind
    <3>3. FormFlows # {} => FormFlows' # {} \/ dropped'
      BY <2>1, <2>2 DEF LeftBehind
    <3> QED
      BY <2>2, <3>1, <3>2, <3>3
  <2>5. (Dialogs /\ Paired)'
    BY <2>1, <2>2 DEF LeftBehind
  <2>6. RefreshDialogEnds' /\ Cancels'
    BY <2>1, <2>2 DEF LeftBehind
  <2>7. (JobsTyped /\ ReportTyped)'
    BY <1>22, <2>1 DEF SignOut, LeftBehind
  <2>8. FlagsTyped'
    BY <1>22, <2>1 DEF SignOut, LeftBehind
  <2>9. FormTyped'
    BY <1>22, <2>1 DEF SignOut, LeftBehind
  <2>10. FlowsTyped'
    BY <1>22, <2>1 DEF SignOut, LeftBehind
  <2> QED
    BY <2>3, <2>4, <2>5, <2>6, <2>7, <2>8, <2>9, <2>10 DEF Parts
<1>23. CASE ChooseContext
  BY <1>23 DEF Parts, ChooseContext
<1>24. CASE CloseDialog
  BY <1>24 DEF Parts, CloseDialog
<1>25. CASE Reload
  <2>1. (JobsAreMade /\ Overlaps /\ Dialogs /\ Paired /\ RefreshDialogEnds
         /\ Cancels)'
    BY <1>25 DEF Reload
  <2>2. (FormTyped /\ FlowsTyped)'
    BY <1>25 DEF Reload
  <2>3. (JobsTyped /\ ReportTyped)'
    BY <1>25 DEF Reload
  <2>4. FlagsTyped'
    BY <1>25 DEF Reload
  <2> QED
    BY <2>1, <2>2, <2>3, <2>4 DEF Parts
<1>26. CASE OpenOther \/ ReturnToWelcome
  <2>1. (JobsTyped /\ ReportTyped /\ FlagsTyped /\ FormTyped /\ FlowsTyped)'
    BY <1>26 DEF OpenOther, ReturnToWelcome
  <2>2. (JobsAreMade /\ Overlaps /\ Dialogs /\ Paired /\ RefreshDialogEnds
         /\ Cancels)'
    BY <1>26 DEF OpenOther, ReturnToWelcome
  <2> QED
    BY <2>1, <2>2 DEF Parts
<1>27. CASE ConfigurationChanged \/ KeepReport \/ ReopenPrompt
  <2>1. (JobsTyped /\ ReportTyped /\ FlagsTyped /\ FormTyped /\ FlowsTyped)'
    BY <1>27 DEF ConfigurationChanged, KeepReport, ReopenPrompt
  <2>2. (JobsAreMade /\ Overlaps /\ Dialogs /\ Paired /\ RefreshDialogEnds
         /\ Cancels)'
    BY <1>27 DEF ConfigurationChanged, KeepReport, ReopenPrompt
  <2> QED
    BY <2>1, <2>2 DEF Parts
<1>28. CASE SignIn
  <2>1. (JobsTyped /\ ReportTyped /\ FlagsTyped /\ FormTyped /\ FlowsTyped)'
    BY <1>28 DEF SignIn
  <2>2. (JobsAreMade /\ Overlaps /\ Dialogs /\ Paired /\ RefreshDialogEnds
         /\ Cancels)'
    BY <1>28 DEF SignIn
  <2> QED
    BY <2>1, <2>2 DEF Parts
<1>29. CASE UNCHANGED pcapVars
  <2>1. (JobsTyped /\ ReportTyped /\ FlagsTyped /\ FormTyped /\ FlowsTyped)'
    BY <1>29 DEF pcapVars
  <2>2. (JobsAreMade /\ Overlaps /\ Dialogs /\ Paired /\ RefreshDialogEnds
         /\ Cancels)'
    BY <1>29 DEF pcapVars
  <2> QED
    BY <2>1, <2>2 DEF Parts
<1>30. CASE PollJobs
  <2>1. \/ flows' = Kept /\ UNCHANGED <<form, busy, overlap>>
        \/ \E j \in Jobs, h \in Flow : Resumes(j, h)
    BY <1>30, RecoveryMoves
  <2> HIDE DEF PcapInv, PcapTypeOK
  <2> QED
    BY <1>30, <1>18, <1>19, <2>1
<1> HIDE DEF PcapInv, PcapTypeOK
<1> QED
  BY <1>1, <1>2, <1>3, <1>4, <1>5, <1>6, <1>7, <1>8,
     <1>9, <1>10, <1>11, <1>12, <1>13, <1>14, <1>15, <1>16,
     <1>17, <1>18, <1>19, <1>20, <1>21, <1>22, <1>23, <1>24,
     <1>25, <1>26, <1>27, <1>28, <1>29, <1>30
  DEF PcapNext, FlowStep

LEMMA PcapStep ==
    ASSUME PcapInv, [PcapNext]_pcapVars
    PROVE  PcapInv'
  BY PartsStep
  DEF Parts, PcapInv, PcapTypeOK, JobsTyped, ReportTyped, FlagsTyped,
      FormTyped, FlowsTyped, Overlaps, Dialogs, Paired, Cancels

LEMMA PcapInitially == PcapInit => PcapInv
<1> SUFFICES ASSUME PcapInit PROVE PcapInv
  OBVIOUS
<1>1. PcapTypeOK
  <2>1. 0 \in 0..MaxJobs /\ NewForm \in Form
    BY BoundAssumption DEF NewForm, Form, MaybeFile
  <2>2. jobs \in [Jobs -> Job]
    BY DEF PcapInit, Job, MaybeFile
  <2>3. done \in Seq(Jobs) /\ flows \in SUBSET Flow
    BY DEF PcapInit
  <2> QED
    BY <2>1, <2>2, <2>3 DEF PcapInit, PcapTypeOK
<1>2. flows = {} /\ ~busy /\ ~refreshing /\ form = NewForm /\ done = <<>>
      /\ \A j \in Jobs : jobs[j].status = "none"
  BY DEF PcapInit
<1>3. ~form.dialog /\ ~form.notice /\ form.url = 0
  BY <1>2 DEF NewForm
<1> QED
  BY <1>1, <1>2, <1>3
  DEF PcapInv, BusyMatchesFlows, DialogHasCapture, PairedEvidence,
      RefreshDialogEnds, CancelReaches, OverlapIsKnown, JobsAreMade,
      DiscoveryInHand, EvidenceInHand, CancelsKeepToMount, FormFlows

(* Whatever the flows of a tab, those of its earlier mounts included, do   *)
(* between two awaits: the page is busy exactly while one processes a      *)
(* capture, its dialogs can be answered, its cancellations are under way   *)
(* (UploadForm.tsx, App.tsx).                                              *)
THEOREM PcapInvariant == PcapSpec => []PcapInv
<1> QED
  BY PcapInitially, PcapStep, PTL DEF PcapSpec

(* An analysis reuses the evidence and the retained copy of the capture it *)
(* was started for, unless flows overlapped (startAnalysis, the effect for *)
(* a regeneration).                                                        *)
THEOREM EvidenceIsPaired == PcapSpec => []PairedEvidence
<1>1. PcapInv => PairedEvidence
  BY DEF PcapInv
<1> QED
  BY <1>1, PcapInvariant, PTL
=============================================================================
