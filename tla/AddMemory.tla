------------------------------ MODULE AddMemory ------------------------------
(***************************************************************************)
(* The drawer in which a memory is written, analysed and confirmed: the    *)
(* store of src/src/store/useAddMemoryStore.ts, the steps under            *)
(* src/src/components/memory and the requests of aiMemoryService.ts.       *)
(*                                                                         *)
(* The user, the answers of the server and the unmounting of the overlay   *)
(* interleave: nothing keeps an answer from coming after the drawer it was *)
(* meant for was closed and another one was opened.                        *)
(***************************************************************************)
EXTENDS Naturals, FiniteSets

CONSTANTS
    Friends,        \* the friends a drawer can be opened with
    NoFriend,       \* relationshipContext = null
    Strangers,      \* the analyses whose draft names somebody new
    Kinds,          \* what is written or chosen: a text, a screenshot, other media
    MaxAnalyses,    \* how many times "Organize memory" is pressed
    MaxUploads      \* uploadFileWithRetry: 3 attempts in the code

ASSUME AddMemoryAssumption ==
    /\ NoFriend \notin Friends
    /\ "text" \in Kinds /\ Kinds \subseteq {"text", "shot", "media"}
    /\ MaxAnalyses \in Nat /\ Strangers \subseteq 1..MaxAnalyses
    /\ MaxUploads \in Nat \ {0}

VARIABLES
    step,           \* the step the drawer shows
    panel,          \* libraryOpen, agentOpen
    overlay,        \* the overlay is mounted
    form,           \* what could be submitted, of inputMode, textValue, imageFile
    context,        \* relationshipContext
    analyses,       \* the runs of handleSubmit, by number
    controller,     \* activeAbortController: the analysis it aborts, or 0
    draft,          \* the draft shown, or 0
    reference,      \* draftReference: the server's draft, or 0
    prompt,         \* showNewPersonConfirm
    saves,          \* the runs of commitToUniverse that await an answer
    rejects,        \* the runs of discardDraft that await an answer
    resuming,       \* jobBusyId: the draft resumeJob fetches, or 0
    serverDraft,    \* the server's drafts
    serverMemory,   \* how often the server confirmed or created the memory
    onPlanets       \* how often the memory was added to the people's planets

addMemoryVars == <<step, panel, overlay, form, context, analyses, controller,
                   draft, reference, prompt, saves, rejects, resuming,
                   serverDraft, serverMemory, onPlanets>>

drawerVars == <<step, panel, overlay, form, context, controller, draft,
                reference, prompt>>
serverVars == <<serverDraft, serverMemory>>

Analyses == 1..MaxAnalyses

\* The drafts: the one the server made in analysis a, and the one this client
\* has without the server (a fallback, or a screenshot's), a memory of its own.
Own(a) == MaxAnalyses + a
Drafts == 1..(2 * MaxAnalyses)
AnalysisOf(d) == IF d \in Analyses THEN d ELSE d - MaxAnalyses

Steps == {"closed", "input", "loading", "confirm"}
AnalysisPhases == {"unused", "job", "analysis", "upload", "torn", "ended"}

AddMemoryTypeOK ==
    /\ step \in Steps
    /\ panel \in {"none", "library", "agent"}
    /\ overlay \in BOOLEAN
    /\ form \in {"incomplete"} \union Kinds
    /\ context \in Friends \union {NoFriend}
    /\ analyses \in [Analyses -> [phase : AnalysisPhases, kind : Kinds, tries : 0..MaxUploads,
                                  known : BOOLEAN]]
    /\ controller \in {0} \union Analyses
    /\ draft \in {0} \union Drafts
    /\ reference \in {0} \union Analyses
    /\ prompt \in BOOLEAN
    /\ saves \subseteq [of : Drafts, with : {0} \union Analyses, mounted : BOOLEAN]
    /\ rejects \subseteq Analyses
    /\ resuming \in {0} \union Analyses
    /\ serverDraft \in [Analyses -> {"none", "waiting", "confirmed", "rejected"}]
    /\ serverMemory \in [Drafts -> Nat]
    /\ onPlanets \in [Drafts -> Nat]

Unused == [phase |-> "unused", kind |-> "text", tries |-> 0, known |-> FALSE]
Ended == [Unused EXCEPT !.phase = "ended"]

AddMemoryInit ==
    /\ step = "closed" /\ panel = "none" /\ overlay = TRUE
    /\ form = "incomplete" /\ context = NoFriend
    /\ analyses = [a \in Analyses |-> Unused]
    /\ controller = 0 /\ draft = 0 /\ reference = 0 /\ prompt = FALSE
    /\ saves = {} /\ rejects = {} /\ resuming = 0
    /\ serverDraft = [a \in Analyses |-> "none"]
    /\ serverMemory = [d \in Drafts |-> 0]
    /\ onPlanets = [d \in Drafts |-> 0]

(***************************************************************************)
(* What the controls allow.  An abort is delivered before the next event   *)
(* of the user: no control is used while one is still being delivered.     *)
(***************************************************************************)
Settled == \A a \in Analyses : analyses[a].phase # "torn"
ControlsShown == overlay /\ Settled /\ step = "closed" /\ panel = "none"
InputShown == overlay /\ Settled /\ step = "input"
ConfirmShown == overlay /\ Settled /\ step = "confirm"
IsSaving == \E s \in saves : s.mounted
CanSubmit == form \in Kinds
HasNewPeople == AnalysisOf(draft) \in Strangers /\ context = NoFriend

\* ConfirmStep goes away with its step, and its own state with it.
ConfirmStepUnmounts ==
    /\ prompt' = FALSE
    /\ saves' = {[s EXCEPT !.mounted = FALSE] : s \in saves}

(***************************************************************************)
(* Opening and closing.                                                    *)
(***************************************************************************)
OpenDrawer(f) ==
    /\ ControlsShown
    /\ step' = "input" /\ panel' = "none" /\ context' = f
    /\ UNCHANGED <<overlay, form, analyses, controller, draft, reference, prompt,
                   saves, rejects, resuming, serverVars, onPlanets>>

OpenPanel(p) ==
    /\ ControlsShown
    /\ panel' = p
    /\ UNCHANGED <<step, overlay, form, context, analyses, controller, draft,
                   reference, prompt, saves, rejects, resuming, serverVars, onPlanets>>

ClosePanel ==
    /\ overlay /\ panel # "none"
    /\ panel' = "none"
    /\ UNCHANGED <<step, overlay, form, context, analyses, controller, draft,
                   reference, prompt, saves, rejects, resuming, serverVars, onPlanets>>

\* An aborted run ends without a word, except one whose answer to the analysis
\* is being read: request() turns that failure into an empty body, and the
\* TypeError that follows is not an AbortError.
Aborted(a) ==
    IF analyses[a].phase = "analysis" /\ analyses[a].kind = "text"
      THEN {[analyses[a] EXCEPT !.phase = "torn"], Ended} ELSE {Ended}

\* closeDrawer
DrawerCloses ==
    /\ IF controller = 0
         THEN UNCHANGED analyses
         ELSE \E run \in Aborted(controller) :
                analyses' = [analyses EXCEPT ![controller] = run]
    /\ step' = "closed" /\ form' = "incomplete" /\ context' = NoFriend
    /\ controller' = 0 /\ draft' = 0 /\ reference' = 0

CloseDrawer ==
    /\ overlay /\ Settled /\ step \in {"input", "confirm"}
    /\ DrawerCloses /\ ConfirmStepUnmounts
    /\ UNCHANGED <<panel, overlay, rejects, resuming, serverVars, onPlanets>>

\* The cleanup of the overlay's effect: the one way to close a loading drawer.
UnmountOverlay ==
    /\ overlay /\ Settled
    /\ overlay' = FALSE /\ panel' = "none"
    /\ DrawerCloses /\ ConfirmStepUnmounts
    /\ UNCHANGED <<rejects, resuming, serverVars, onPlanets>>

MountOverlay ==
    /\ ~overlay /\ Settled
    /\ overlay' = TRUE
    /\ UNCHANGED <<step, panel, form, context, analyses, controller, draft, reference,
                   prompt, saves, rejects, resuming, serverVars, onPlanets>>

(***************************************************************************)
(* The input step.                                                         *)
(***************************************************************************)
EditForm(new) ==
    /\ InputShown /\ form # new /\ new \in Kinds \union {"incomplete"}
    /\ form' = new
    /\ UNCHANGED <<step, panel, overlay, context, analyses, controller, draft,
                   reference, prompt, saves, rejects, resuming, serverVars, onPlanets>>

\* Each way of entering a memory, and what it lacks: no text, or no file.
SetInputMode == EditForm("incomplete")
SetTextValue == EditForm("text")
ChooseScreenshot == EditForm("shot")
ChooseMedia == EditForm("media")

\* handleSubmit up to its first await
Submit(a) ==
    /\ InputShown /\ CanSubmit
    /\ analyses[a].phase = "unused" /\ \A b \in 1..(a - 1) : analyses[b].phase # "unused"
    /\ analyses' = [analyses EXCEPT ![a] =
         [Unused EXCEPT !.phase = IF form = "shot" THEN "analysis" ELSE "job",
                        !.kind = form]]
    /\ step' = "loading" /\ controller' = a
    /\ UNCHANGED <<panel, overlay, form, context, draft, reference, prompt, saves,
                   rejects, resuming, serverVars, onPlanets>>

JobAnswer(a) ==
    /\ analyses[a].phase = "job"
    /\ analyses' = [analyses EXCEPT ![a].phase = "analysis"]
    /\ UNCHANGED <<drawerVars, saves, rejects, resuming, serverVars, onPlanets>>

\* Faulty: a draft without a server draft leaves the reference there was.
SetDraftOnly(a, known) ==
    /\ step' = "confirm" /\ controller' = 0
    /\ draft' = IF known THEN a ELSE Own(a)
    /\ reference' = IF known THEN a ELSE reference

\* setDraft, with the server's draft or with this client's own
SetDraft(a, known) ==
    /\ step' = "confirm" /\ controller' = 0
    /\ draft' = IF known THEN a ELSE Own(a)
    /\ reference' = IF known THEN a ELSE 0

\* backToInput
BackToInput == step' = "input" /\ draft' = 0 /\ controller' = 0

\* What follows the analysis: the file is uploaded, or the draft is shown.
Analysed(a, known) ==
    IF analyses[a].kind = "text"
      THEN /\ SetDraft(a, known)
           /\ analyses' = [analyses EXCEPT ![a] = Ended]
           /\ UNCHANGED <<panel, overlay, form, context, prompt>>
      ELSE /\ analyses' = [analyses EXCEPT ![a].phase = "upload", ![a].known = known]
           /\ UNCHANGED drawerVars

AnalysisAnswer(a) ==
    /\ analyses[a].phase = "analysis"
    /\ Analysed(a, analyses[a].kind # "shot")
    /\ serverDraft' = IF analyses[a].kind = "shot" THEN serverDraft
                      ELSE [serverDraft EXCEPT ![a] = "waiting"]
    /\ UNCHANGED <<saves, rejects, resuming, serverMemory, onPlanets>>

\* A failure, or the deadline of 5.5 seconds: a draft is made up, and the one
\* the server may have stored meanwhile is left to the library.
AnalysisFails(a, stored) ==
    /\ analyses[a].phase \in {"job", "analysis"}
    /\ stored => analyses[a].phase = "analysis" /\ analyses[a].kind # "shot"
    /\ Analysed(a, FALSE)
    /\ serverDraft' = IF stored THEN [serverDraft EXCEPT ![a] = "waiting"] ELSE serverDraft
    /\ UNCHANGED <<saves, rejects, resuming, serverMemory, onPlanets>>

TornAnswer(a) ==
    /\ analyses[a].phase = "torn"
    /\ SetDraft(a, FALSE)
    /\ analyses' = [analyses EXCEPT ![a] = Ended]
    /\ UNCHANGED <<panel, overlay, form, context, prompt, saves, rejects, resuming,
                   serverVars, onPlanets>>

UploadAnswer(a) ==
    /\ analyses[a].phase = "upload"
    /\ SetDraft(a, analyses[a].known)
    /\ analyses' = [analyses EXCEPT ![a] = Ended]
    /\ UNCHANGED <<panel, overlay, form, context, prompt, saves, rejects, resuming,
                   serverVars, onPlanets>>

\* Faulty: a failure is tried again without end.
UploadFailsAlways(a, refused) ==
    /\ analyses[a].phase = "upload"
    /\ analyses' = [analyses EXCEPT ![a].tries = @ + 1]
    /\ UNCHANGED <<drawerVars, saves, rejects, resuming, serverVars, onPlanets>>

\* Faulty: the drawer is not brought back to the input.
UploadFailsSilently(a, refused) ==
    /\ analyses[a].phase = "upload"
    /\ analyses' = IF refused \/ analyses[a].tries + 1 = MaxUploads
                     THEN [analyses EXCEPT ![a] = Ended]
                     ELSE [analyses EXCEPT ![a].tries = @ + 1]
    /\ UNCHANGED <<drawerVars, saves, rejects, resuming, serverVars, onPlanets>>

\* A refused upload ends at once, any other failure is tried again.
UploadFails(a, refused) ==
    /\ analyses[a].phase = "upload"
    /\ IF refused \/ analyses[a].tries + 1 = MaxUploads
         THEN /\ BackToInput /\ ConfirmStepUnmounts
              /\ analyses' = [analyses EXCEPT ![a] = Ended]
              /\ UNCHANGED <<panel, overlay, form, context, reference>>
         ELSE /\ analyses' = [analyses EXCEPT ![a].tries = @ + 1]
              /\ UNCHANGED <<drawerVars, saves>>
    /\ UNCHANGED <<rejects, resuming, serverVars, onPlanets>>

(***************************************************************************)
(* The confirmation step.                                                  *)
(***************************************************************************)
AskNewPerson ==
    /\ ConfirmShown /\ draft # 0 /\ ~IsSaving /\ ~prompt /\ HasNewPeople
    /\ prompt' = TRUE
    /\ UNCHANGED <<step, panel, overlay, form, context, analyses, controller, draft,
                   reference, saves, rejects, resuming, serverVars, onPlanets>>

CancelNewPerson ==
    /\ ConfirmShown /\ prompt /\ ~IsSaving
    /\ prompt' = FALSE
    /\ UNCHANGED <<step, panel, overlay, form, context, analyses, controller, draft,
                   reference, saves, rejects, resuming, serverVars, onPlanets>>

CommitToUniverse ==
    /\ ConfirmShown /\ draft # 0 /\ ~IsSaving /\ (HasNewPeople => prompt)
    /\ saves' = saves \union {[of |-> draft, with |-> reference, mounted |-> TRUE]}
    /\ UNCHANGED <<drawerVars, analyses, rejects, resuming, serverVars, onPlanets>>

\* Faulty: a draft is confirmed whatever became of it.
AcceptsAlways(s) == TRUE

\* The server's side of a save: a draft is confirmed only while it waits for
\* it, a memory without a draft is stored under its own id.
Accepts(s) == s.with # 0 => serverDraft[s.with] = "waiting"

ServerStores(s) ==
    /\ serverMemory' = [serverMemory EXCEPT ![s.of] =
                          IF s.with # 0 THEN @ + 1 ELSE 1]
    /\ serverDraft' = IF s.with # 0 THEN [serverDraft EXCEPT ![s.with] = "confirmed"]
                      ELSE serverDraft

SaveAnswer(s) ==
    /\ s \in saves /\ Settled /\ Accepts(s)
    /\ ServerStores(s)
    /\ onPlanets' = [onPlanets EXCEPT ![s.of] = @ + 1]
    /\ DrawerCloses
    /\ prompt' = FALSE
    /\ saves' = {[t EXCEPT !.mounted = FALSE] : t \in saves \ {s}}
    /\ UNCHANGED <<panel, overlay, rejects, resuming>>

\* The save fails: refused, unsent, or stored with its answer lost.
SaveFails(s, stored) ==
    /\ s \in saves
    /\ stored => Accepts(s)
    /\ IF stored THEN ServerStores(s) ELSE UNCHANGED serverVars
    /\ saves' = saves \ {s}
    /\ UNCHANGED <<drawerVars, analyses, rejects, resuming, onPlanets>>

\* handleBackToInput; the button is not disabled while a rejection is on its way.
LeaveDraft ==
    /\ ConfirmShown /\ ~prompt /\ ~IsSaving
    /\ IF reference = 0
         THEN /\ BackToInput /\ ConfirmStepUnmounts
              /\ UNCHANGED rejects
         ELSE /\ reference \notin rejects
              /\ rejects' = rejects \union {reference}
              /\ UNCHANGED <<step, controller, draft, prompt, saves>>
    /\ UNCHANGED <<panel, overlay, form, context, reference, analyses, resuming,
                   serverVars, onPlanets>>

RejectAnswer(a) ==
    /\ a \in rejects /\ serverDraft[a] = "waiting"
    /\ serverDraft' = [serverDraft EXCEPT ![a] = "rejected"]
    /\ rejects' = rejects \ {a}
    /\ reference' = 0
    /\ BackToInput /\ ConfirmStepUnmounts
    /\ UNCHANGED <<panel, overlay, form, context, analyses, resuming, serverMemory, onPlanets>>

RejectFails(a, stored) ==
    /\ a \in rejects
    /\ stored => serverDraft[a] = "waiting"
    /\ serverDraft' = IF stored THEN [serverDraft EXCEPT ![a] = "rejected"] ELSE serverDraft
    /\ rejects' = rejects \ {a}
    /\ UNCHANGED <<drawerVars, analyses, saves, resuming, serverMemory, onPlanets>>

(***************************************************************************)
(* The library hands a waiting draft to the drawer: its list may be stale. *)
(***************************************************************************)
ResumeJob(a) ==
    /\ overlay /\ Settled /\ panel = "library" /\ resuming = 0 /\ serverDraft[a] # "none"
    /\ resuming' = a
    /\ UNCHANGED <<drawerVars, analyses, saves, rejects, serverVars, onPlanets>>

OpenDraftForConfirmation ==
    /\ resuming # 0 /\ Settled
    /\ step' = "confirm" /\ panel' = "none" /\ draft' = resuming /\ reference' = resuming
    /\ form' = "text"
    /\ context' = NoFriend /\ controller' = 0 /\ resuming' = 0
    /\ UNCHANGED <<overlay, analyses, prompt, saves, rejects, serverVars, onPlanets>>

ResumeFails ==
    /\ resuming # 0
    /\ resuming' = 0
    /\ UNCHANGED <<drawerVars, analyses, saves, rejects, serverVars, onPlanets>>

AnalysisStep(a) ==
    \/ JobAnswer(a) \/ AnalysisAnswer(a) \/ TornAnswer(a) \/ UploadAnswer(a)
    \/ \E b \in BOOLEAN : AnalysisFails(a, b) \/ UploadFails(a, b)

AddMemoryNext ==
    \/ \E f \in Friends \union {NoFriend} : OpenDrawer(f)
    \/ \E p \in {"library", "agent"} : OpenPanel(p)
    \/ ClosePanel \/ CloseDrawer \/ UnmountOverlay \/ MountOverlay
    \/ SetInputMode \/ SetTextValue \/ ChooseScreenshot \/ ChooseMedia
    \/ \E a \in Analyses : Submit(a)
    \/ \E a \in Analyses : AnalysisStep(a)
    \/ AskNewPerson \/ CancelNewPerson \/ CommitToUniverse
    \/ \E s \in saves : SaveAnswer(s) \/ \E b \in BOOLEAN : SaveFails(s, b)
    \/ LeaveDraft
    \/ \E a \in Analyses : RejectAnswer(a) \/ \E b \in BOOLEAN : RejectFails(a, b)
    \/ \E a \in Analyses : ResumeJob(a)
    \/ OpenDraftForConfirmation \/ ResumeFails

\* Every request of an analysis is answered, fails, or meets its deadline.
AddMemoryFairness == \A a \in Analyses : WF_addMemoryVars(AnalysisStep(a))

AddMemorySpec == AddMemoryInit /\ [][AddMemoryNext]_addMemoryVars /\ AddMemoryFairness

(***************************************************************************)
(* Properties.                                                             *)
(***************************************************************************)

\* A draft is confirmed or rejected under its own server draft, whatever late
\* answer replaced the draft or its reference (setDraft, openDraftForConfirmation,
\* discardDraft and backToInput each set one or both).
DraftKeepsReference ==
    /\ draft # 0 => reference \in {0, draft}
    /\ \A s \in saves : s.with \in {0, s.of}

\* However often a draft is opened, confirmed, retried after a lost answer or
\* rejected at the same time, the server confirms it at most once, and the
\* people's planets show a memory at most once and only after it was stored.
MemorySavedOnce ==
    /\ \A d \in Drafts : serverMemory[d] <= 1 /\ onPlanets[d] <= serverMemory[d]
    /\ \A a \in Analyses : serverDraft[a] = "rejected" => serverMemory[a] = 0

\* A drawer does not stay on the loading step.
LoadingEnds == step = "loading" ~> step # "loading"
=============================================================================
