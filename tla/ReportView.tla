------------------------------ MODULE ReportView ------------------------------
(***************************************************************************)
(* What of an open report is on screen (App.tsx, ReportCustomization.tsx,  *)
(* Panel.tsx): the sections chosen for it, the one the navigation marks,   *)
(* the address they are kept in, and the panels, of which each section has *)
(* one here.                                                               *)
(***************************************************************************)
EXTENDS Integers

CONSTANTS ReportSections, \* ALL_REPORT_SECTION_IDS
          Summary,        \* "overview", the first of them
          NoSection

ASSUME SectionsAssumption == Summary \in ReportSections /\ NoSection \notin ReportSections

VARIABLES
    reportOpen,
    visible,      \* visibleReportSections
    active,       \* activeSection
    onScreen,     \* the section the page is scrolled to
    corrections,  \* navScrollTimersRef: sections the page will be scrolled to
    restoring,    \* the section of the deep link a timer will scroll to, or none
    navLocked,    \* navScrollLockRef is in the future
    clicked,      \* history: the section asked for last, while it is in the page
    address,      \* of the URL: section and reportSections
    draft,        \* the dialog's selection; {NoSection} when it is closed
    panels,       \* the collapsed ones
    allExpanded,  \* allPanelsExpanded
    panelSync     \* a timer of syncPanelExpansionState is due

navigationVars == <<active, onScreen, corrections, restoring, navLocked, clicked>>
panelVars == <<panels, allExpanded, panelSync>>
viewVars == <<reportOpen, visible, navigationVars, address, draft, panelVars>>

DialogShut == {NoSection}

(* The state is well formed; panels and marks are those of an open report. *)
ViewTypeOK ==
    /\ reportOpen \in BOOLEAN /\ navLocked \in BOOLEAN
    /\ visible \in (SUBSET ReportSections) \ {{}}
    /\ {active, onScreen} \cup corrections \subseteq ReportSections
    /\ {restoring, clicked} \subseteq ReportSections \cup {NoSection}
    /\ address.section \in ReportSections \cup {NoSection}
    /\ address.section # NoSection <=> reportOpen
    /\ address.sections \subseteq ReportSections
    /\ draft = DialogShut \/ draft \subseteq ReportSections
    /\ panels \subseteq IF reportOpen THEN visible ELSE {}
    /\ allExpanded \in BOOLEAN /\ panelSync \in BOOLEAN

(* initialReportSections: no parameter, or nothing known in it, is all.    *)
FromAddress(sections) == IF sections = {} THEN ReportSections ELSE sections

(* The effect that writes the address; {} when reportSections is absent.   *)
AddressOf(isOpen, section, sections) ==
    IF isOpen
      THEN [section |-> section,
            sections |-> IF sections = ReportSections THEN {} ELSE sections]
      ELSE [section |-> NoSection, sections |-> {}]

AddressWritten == address' = AddressOf(reportOpen', active', visible')

(* A page is opened at an address, which may name anything: the effect     *)
(* runs before there is a report, and clears it. *)
Opened(sections) ==
    /\ reportOpen = FALSE /\ visible = FromAddress(sections)
    /\ active = Summary /\ onScreen = Summary /\ clicked = NoSection
    /\ corrections = {} /\ restoring = NoSection /\ navLocked = FALSE
    /\ address = AddressOf(FALSE, Summary, visible)
    /\ draft = DialogShut
    /\ panels = {} /\ allExpanded = TRUE /\ panelSync = FALSE

ReportViewInit == \E s \in SUBSET ReportSections : Opened(s)

Reload ==
    /\ reportOpen' = FALSE /\ visible' = FromAddress(address.sections)
    /\ active' = Summary /\ onScreen' = Summary /\ clicked' = NoSection
    /\ corrections' = {} /\ restoring' = NoSection /\ navLocked' = FALSE
    /\ AddressWritten
    /\ draft' = DialogShut
    /\ panels' = {} /\ allExpanded' = TRUE /\ panelSync' = FALSE

(* handleReportLoaded, also from the recovery of a job while another       *)
(* report is open: the sections are read from the address. The dialog      *)
(* starts over when they change. *)
LoadReport ==
    /\ reportOpen' = TRUE
    /\ visible' = FromAddress(address.sections)
    /\ clicked' = IF clicked \in visible' THEN clicked ELSE NoSection
    /\ draft' = IF draft = DialogShut THEN draft ELSE visible'
    /\ panels' = panels \cap visible'
    /\ panelSync' = TRUE
    /\ restoring' = active
    /\ UNCHANGED <<active, onScreen, corrections, navLocked, allExpanded>>
    /\ AddressWritten

(* The effect on the report, 120 ms later: the section the address had,    *)
(* which the effect above had just written there. *)
RestoreSection ==
    /\ restoring # NoSection /\ restoring' = NoSection
    /\ onScreen' = IF reportOpen /\ ~navLocked /\ restoring \in visible
                     THEN restoring ELSE onScreen
    /\ UNCHANGED <<reportOpen, visible, active, corrections, navLocked, clicked,
                   address, draft, panelVars>>

(* returnToWelcome. The timers of a click are left alone. *)
Welcome ==
    /\ reportOpen /\ draft = DialogShut
    /\ reportOpen' = FALSE
    /\ active' = Summary /\ onScreen' = Summary
    /\ panels' = {}
    /\ clicked' = NoSection
    /\ UNCHANGED <<visible, corrections, restoring, navLocked, draft, allExpanded, panelSync>>
    /\ AddressWritten

-----------------------------------------------------------------------------
(* A fault: the timers of the click before are not cleared. *)
GoToSectionFault(s) ==
    /\ reportOpen /\ draft = DialogShut
    /\ s \in visible
    /\ active' = s /\ clicked' = s /\ onScreen' = s
    /\ corrections' = corrections \cup {s}
    /\ navLocked' = TRUE
    /\ UNCHANGED <<reportOpen, visible, restoring, draft, panelVars>>
    /\ AddressWritten

(* goToSection: a click in the navigation. *)
GoToSection(s) ==
    /\ reportOpen /\ draft = DialogShut
    /\ s \in visible
    /\ active' = s /\ clicked' = s /\ onScreen' = s
    /\ corrections' = {s}
    /\ navLocked' = TRUE
    /\ UNCHANGED <<reportOpen, visible, restoring, draft, panelVars>>
    /\ AddressWritten

(* A timer of it scrolls, if the section is in the page; the last is gone. *)
Correct(s, last) ==
    /\ s \in corrections
    /\ onScreen' = IF reportOpen /\ s \in visible THEN s ELSE onScreen
    /\ corrections' = IF last THEN corrections \ {s} ELSE corrections
    /\ UNCHANGED <<reportOpen, visible, active, restoring, navLocked, clicked, address, draft,
                   panelVars>>

(* The lock is longer than the timers. *)
Unlock ==
    /\ navLocked /\ corrections = {}
    /\ navLocked' = FALSE
    /\ UNCHANGED <<reportOpen, visible, active, onScreen, corrections, restoring, clicked, address,
                   draft, panelVars>>

(* The user scrolls, and the observer of the sections marks the one that   *)
(* comes into view. *)
Scroll(s) ==
    /\ reportOpen /\ s \in visible
    /\ onScreen' = s
    /\ active' = IF navLocked THEN active ELSE s
    /\ UNCHANGED <<reportOpen, visible, corrections, restoring, navLocked, clicked, draft,
                   panelVars>>
    /\ AddressWritten

-----------------------------------------------------------------------------
(* The dialog "Customize": its checkboxes, Show all and Clear, Save view.  *)
Customize ==
    /\ reportOpen /\ draft = DialogShut
    /\ draft' = visible
    /\ UNCHANGED <<reportOpen, visible, navigationVars, address, panelVars>>

Choose(d) ==
    /\ draft # DialogShut /\ draft' = d
    /\ d \in {ReportSections, {}} \/ \E s \in ReportSections :
                                       d = (draft \cup {s}) \ (draft \cap {s})
    /\ UNCHANGED <<reportOpen, visible, navigationVars, address, panelVars>>

CloseCustomize ==
    /\ draft # DialogShut /\ draft' = DialogShut
    /\ UNCHANGED <<reportOpen, visible, navigationVars, address, panelVars>>

(* Which of the chosen sections is the first is left open. *)
SaveView ==
    /\ draft \notin {DialogShut, visible, {}}
    /\ visible' = draft
    /\ active' \in IF active \in draft THEN {active} ELSE draft
    /\ draft' = DialogShut
    /\ panels' = panels \cap visible'
    /\ clicked' = IF clicked \in draft THEN clicked ELSE NoSection
    /\ UNCHANGED <<reportOpen, onScreen, corrections, restoring, navLocked, allExpanded, panelSync>>
    /\ AddressWritten

-----------------------------------------------------------------------------
TogglePanel(s) ==
    /\ reportOpen /\ draft = DialogShut /\ s \in visible
    /\ panels' = (panels \cup {s}) \ (panels \cap {s})
    /\ panelSync' = TRUE
    /\ UNCHANGED <<reportOpen, visible, navigationVars, address, draft, allExpanded>>

(* syncPanelExpansionState reads the panels from the page. *)
SyncPanels ==
    /\ panelSync /\ panelSync' = FALSE
    /\ allExpanded' = (panels = {})
    /\ UNCHANGED <<reportOpen, visible, navigationVars, address, draft, panels>>

ToggleAllPanels ==
    /\ reportOpen /\ draft = DialogShut
    /\ allExpanded' = ~allExpanded
    /\ panels' = IF allExpanded' THEN {} ELSE visible
    /\ UNCHANGED <<reportOpen, visible, navigationVars, address, draft, panelSync>>

ReportViewNext ==
    \/ Reload \/ LoadReport \/ RestoreSection \/ Welcome \/ Unlock
    \/ Customize \/ CloseCustomize \/ SaveView \/ SyncPanels \/ ToggleAllPanels
    \/ \E s \in ReportSections : GoToSection(s) \/ Scroll(s) \/ TogglePanel(s)
    \/ \E s \in ReportSections, last \in BOOLEAN : Correct(s, last)
    \/ \E d \in SUBSET ReportSections : Choose(d)

ReportViewSpec == ReportViewInit /\ [][ReportViewNext]_viewVars

-----------------------------------------------------------------------------
(* A report that takes the place of another is shown with the same         *)
(* sections: the address always names the selection of the open report     *)
(* (the effect that writes it, handleReportLoaded). *)
SelectionOutlivesReport ==
    reportOpen => FromAddress(address.sections) = visible

(* Whatever was clicked before, the page is only ever moved to the section *)
(* asked for last, and that one stays marked meanwhile (goToSection, the   *)
(* observer). The exceptions: the section was taken out of the report, or  *)
(* the report left, in those 700 ms. *)
LastClickWins ==
    corrections # {} /\ clicked # NoSection =>
        corrections = {clicked} /\ active = clicked

(* "Collapse all" is offered only when every panel is expanded, once the   *)
(* timers have run. The converse fails: sections that Customize brings     *)
(* back are expanded, and nobody counts them. *)
CollapseAllMeansAll ==
    reportOpen /\ allExpanded /\ ~panelSync => panels = {}

(* The part of the inductive invariant that is no property of its own: the *)
(* observer marks nothing before the last correction of a click.           *)
CorrectionsAreLocked == corrections # {} => navLocked

(* What the page of a report promises: its navigation, its choice of       *)
(* sections and its panels (App.tsx, ReportCustomization.tsx, Panel.tsx).  *)
ViewInv ==
    /\ ViewTypeOK
    /\ SelectionOutlivesReport
    /\ LastClickWins
    /\ CollapseAllMeansAll
    /\ CorrectionsAreLocked
=============================================================================
