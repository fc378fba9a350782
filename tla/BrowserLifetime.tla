---------------------------- MODULE BrowserLifetime ----------------------------
(***************************************************************************)
(* The life of one CefBrowserHostImpl (libcef/browser/browser_host_impl.cc *)
(* and, for its window, browser_host_impl_win.cc): how CloseBrowser, the   *)
(* window's close messages, window.close() in the page, the beforeunload   *)
(* prompt, the client's DoClose, the destruction of a parent window and    *)
(* the shutdown of the library together end in one call of OnBeforeClose.  *)
(*                                                                         *)
(* Every action is one task of the UI thread, except PostCloseBrowser,     *)
(* which is a call from another thread.  The page, the user, the client    *)
(* and the window manager are free to do anything at any time.             *)
(***************************************************************************)
EXTENDS Integers, Sequences

CONSTANTS
  MaxCloses,     \* bound: close messages waiting when the page closes itself
  MaxPosted      \* bound: CloseBrowser calls posted from other threads

ASSUME LifetimeAssumption ==
  MaxCloses \in Nat /\ MaxPosted \in Nat

DESTRUCTION_STATE_NONE == 0
DESTRUCTION_STATE_PENDING == 1
DESTRUCTION_STATE_ACCEPTED == 2
DESTRUCTION_STATE_COMPLETED == 3

VARIABLES
  destruction_state,
  window,          \* its state and the WM_CLOSE messages on their way to it
  contents,        \* is there a WebContents?
  beforeUnload,    \* the beforeunload handler of the page
  unloading,       \* the page runs its unload handler before it closes
  posted,          \* CloseBrowser(force) tasks posted to the UI thread
  shutdown,        \* CefShutdown destroyed the remaining browsers
  references,      \* references to the browser held for its window
  closings,        \* history: calls of OnBeforeClose
  warrant          \* history: why the browser may close. "agreed" when the
                   \* client did, "forced" by a caller, "none" when nobody
                   \* asked for it or the client refused since

lifetimeVars ==
  <<destruction_state, window, contents, beforeUnload, unloading, posted, shutdown,
    references, closings, warrant>>

(* "closed" by a close message it allowed, "torn" down with the window it  *)
(* is a child of; "offscreen" is a browser that is to have no window.      *)
Window == [state : {"none", "offscreen", "open", "closed", "torn"}, messages : Nat]

LifetimeTypeOK ==
  /\ destruction_state \in DESTRUCTION_STATE_NONE .. DESTRUCTION_STATE_COMPLETED
  /\ window \in Window
  /\ contents \in BOOLEAN
  /\ beforeUnload \in {"idle", "asked", "prompt", "proceed", "stay"}
  /\ unloading \in BOOLEAN
  /\ posted \in Seq(BOOLEAN)
  /\ shutdown \in BOOLEAN
  /\ references \in Nat
  /\ closings \in Nat
  /\ warrant \in {"none", "forced", "agreed"}

(* CreateInternal: PlatformCreateWindow adds a reference for the window;   *)
(* when the window cannot be created the browser is given to nobody, and   *)
(* is left for Shutdown to find.                                           *)
LifetimeInit ==
  /\ destruction_state = DESTRUCTION_STATE_NONE
  /\ \/ window = [state |-> "open", messages |-> 0] /\ references = 1
     \/ /\ \E s \in {"none", "offscreen"} : window = [state |-> s, messages |-> 0]
        /\ references = 0
  /\ contents = TRUE
  /\ beforeUnload = "idle" /\ unloading = FALSE
  /\ posted = <<>> /\ shutdown = FALSE
  /\ closings = 0 /\ warrant = "none"

Destroyed == destruction_state = DESTRUCTION_STATE_COMPLETED
IsWindowless(w) == w.state = "offscreen"
window_destroyed(w) == w.state \in {"closed", "torn"}
Created == window.state # "none"

-----------------------------------------------------------------------------
(* DestroyBrowser.  The page goes with the WebContents.                    *)
DestroyBrowser ==
  /\ destruction_state' = DESTRUCTION_STATE_COMPLETED
  /\ closings' = closings + 1
  /\ contents' = FALSE
  /\ beforeUnload' = "idle" /\ unloading' = FALSE

IsCompleted(state) == state = DESTRUCTION_STATE_COMPLETED

(* The client has a say unless the window is gone.                         *)
AsksClient(w) == IsWindowless(w) \/ ~window_destroyed(w)

(* Mutant: the state survives the client's refusal.                        *)
SameAfterRefusal(state) == state
AfterRefusal(state) == DESTRUCTION_STATE_NONE

(* Mutant: no close message is sent to the window.                         *)
NoCloseMessage(w) == w
PlatformCloseWindow(w) == [w EXCEPT !.messages = @ + 1]

(* CloseContents, called with the state and the window its caller has just *)
(* set, |u| saying whether the page is still unloading.  A client without  *)
(* a life span handler |agrees|.  A window is sent a close message; a      *)
(* browser without one is destroyed, and the reference held for the window *)
(* released.                                                               *)
CloseContents(state, w, u, agrees) ==
  \/ /\ IsCompleted(state)
     /\ destruction_state' = state /\ window' = w /\ unloading' = u
     /\ UNCHANGED <<contents, beforeUnload, references, closings, warrant>>
  \/ /\ ~IsCompleted(state) /\ AsksClient(w) /\ ~agrees
     /\ destruction_state' = AfterRefusal(state) /\ window' = w /\ unloading' = u
     /\ warrant' = "none"
     /\ UNCHANGED <<contents, beforeUnload, references, closings>>
  \/ /\ ~IsCompleted(state) /\ AsksClient(w) /\ agrees /\ ~IsWindowless(w)
     /\ destruction_state' = DESTRUCTION_STATE_ACCEPTED
     /\ window' = PlatformCloseWindow(w) /\ unloading' = u
     /\ warrant' = "agreed"
     /\ UNCHANGED <<contents, beforeUnload, references, closings>>
  \/ /\ ~IsCompleted(state) /\ agrees /\ IsWindowless(w)
     /\ DestroyBrowser
     /\ window' = w
     /\ warrant' = "agreed"
     /\ UNCHANGED references
  \/ /\ ~IsCompleted(state) /\ ~AsksClient(w)
     /\ DestroyBrowser
     /\ window' = w
     /\ references' = references - 1
     /\ UNCHANGED warrant

(* Mutant: the close that a destroyed window asks for is taken for one     *)
(* more attempt.                                                           *)
PendingWhateverWindow(w) == destruction_state >= DESTRUCTION_STATE_PENDING

(* A close attempt is pending already and there is nothing to do.          *)
AttemptPending(w) == destruction_state >= DESTRUCTION_STATE_PENDING /\ AsksClient(w)

Upgraded(force) ==
  IF force /\ destruction_state = DESTRUCTION_STATE_PENDING
  THEN DESTRUCTION_STATE_ACCEPTED ELSE destruction_state

Requested(force) ==
  CASE destruction_state >= DESTRUCTION_STATE_ACCEPTED -> destruction_state
    [] destruction_state < DESTRUCTION_STATE_ACCEPTED /\ force -> DESTRUCTION_STATE_ACCEPTED
    [] OTHER -> DESTRUCTION_STATE_PENDING

Warrant(force) ==
  IF force /\ warrant = "none" /\ ~Destroyed THEN "forced" ELSE warrant

(* CloseBrowser(force) on the UI thread.  Whether a beforeunload handler   *)
(* must run first is up to the page; one that runs is not run again.       *)
CloseBrowser(force, w, agrees) ==
  \/ /\ AttemptPending(w)
     /\ destruction_state' = Upgraded(force) /\ window' = w
     /\ warrant' = Warrant(force)
     /\ UNCHANGED <<contents, beforeUnload, unloading, references, closings>>
  \/ /\ ~AttemptPending(w) /\ contents
     /\ destruction_state' = Requested(force) /\ window' = w
     /\ beforeUnload' = IF beforeUnload = "idle" THEN "asked" ELSE beforeUnload
     /\ warrant' = Warrant(force)
     /\ UNCHANGED <<contents, unloading, references, closings>>
  \/ ~AttemptPending(w) /\ CloseContents(Requested(force), w, unloading, agrees)

-----------------------------------------------------------------------------
(* The client calls CloseBrowser on the UI thread, or on another one.      *)
CallCloseBrowser ==
  /\ Created /\ ~shutdown
  /\ \E force, agrees \in BOOLEAN : CloseBrowser(force, window, agrees)
  /\ UNCHANGED <<posted, shutdown>>

PostCloseBrowser ==
  /\ Created /\ ~shutdown /\ Len(posted) < MaxPosted
  /\ \E force \in BOOLEAN : posted' = Append(posted, force)
  /\ UNCHANGED <<destruction_state, window, contents, beforeUnload, unloading, shutdown,
                 references, closings, warrant>>

RunPosted ==
  /\ posted # <<>>
  /\ \E agrees \in BOOLEAN : CloseBrowser(Head(posted), window, agrees)
  /\ posted' = Tail(posted)
  /\ UNCHANGED shutdown

(* WindowDestroyed: the window, which is |w| now, was destroyed.           *)
WindowDestroyed(w) == \E agrees \in BOOLEAN : CloseBrowser(TRUE, w, agrees)

(* WM_CLOSE: allowed once the close is accepted; otherwise canceled, after *)
(* starting a close of the browser if none is pending.                     *)
WmClose(w) ==
  \/ /\ destruction_state > DESTRUCTION_STATE_PENDING
     /\ WindowDestroyed([w EXCEPT !.state = "closed"])
  \/ /\ destruction_state = DESTRUCTION_STATE_NONE
     /\ \E agrees \in BOOLEAN : CloseBrowser(FALSE, w, agrees)
  \/ /\ destruction_state = DESTRUCTION_STATE_PENDING
     /\ window' = w
     /\ UNCHANGED <<destruction_state, contents, beforeUnload, unloading, references,
                    closings, warrant>>

(* The user closes the window, or a message of PlatformCloseWindow comes.  *)
UserClosesWindow ==
  /\ window.state = "open"
  /\ WmClose(window)
  /\ UNCHANGED <<posted, shutdown>>

CloseMessage ==
  /\ window.state = "open" /\ window.messages > 0
  /\ WmClose([window EXCEPT !.messages = @ - 1])
  /\ UNCHANGED <<posted, shutdown>>

(* The window is destroyed with its parent, and nobody is asked.           *)
ParentDestroyed ==
  /\ window.state = "open"
  /\ WindowDestroyed([window EXCEPT !.state = "torn"])
  /\ UNCHANGED <<posted, shutdown>>

-----------------------------------------------------------------------------
(* The page closes itself with window.close().                             *)
ScriptCloses ==
  /\ contents /\ Created /\ window.messages < MaxCloses
  /\ \E agrees \in BOOLEAN : CloseContents(destruction_state, window, unloading, agrees)
  /\ UNCHANGED <<posted, shutdown>>

PageStep ==
  UNCHANGED <<window, contents, posted, shutdown, references, closings>>

(* The page's beforeunload handler wants a prompt: RunBeforeUnloadDialog   *)
(* shows one, unless the browser is being destroyed anyway ...             *)
RunBeforeUnloadDialog ==
  /\ beforeUnload = "asked"
  /\ beforeUnload' = IF destruction_state >= DESTRUCTION_STATE_ACCEPTED
                     THEN "proceed" ELSE "prompt"
  /\ UNCHANGED <<destruction_state, unloading, warrant>>
  /\ PageStep

(* ... which the user or the client answers.                               *)
AnswerPrompt ==
  /\ beforeUnload = "prompt"
  /\ beforeUnload' \in {"proceed", "stay"}
  /\ UNCHANGED <<destruction_state, unloading, warrant>>
  /\ PageStep

(* Mutant: a forced close asks the user like any other.                    *)
ProceedIfUserDoes(proceed) == proceed
MayUnload(proceed) == destruction_state = DESTRUCTION_STATE_ACCEPTED \/ proceed

(* The page's answer arrives (it may have no handler): BeforeUnloadFired   *)
(* decides whether it unloads.                                             *)
BeforeUnloadFired ==
  /\ beforeUnload \in {"asked", "proceed", "stay"}
  /\ beforeUnload' = "idle"
  /\ \/ MayUnload(beforeUnload # "stay") /\ unloading' = TRUE
        /\ UNCHANGED destruction_state
     \/ ~MayUnload(beforeUnload # "stay")
        /\ destruction_state' = DESTRUCTION_STATE_NONE
        /\ UNCHANGED unloading
  /\ UNCHANGED warrant
  /\ PageStep

(* The page has run its unload handler.                                    *)
Unloaded ==
  /\ unloading
  /\ \E agrees \in BOOLEAN : CloseContents(destruction_state, window, FALSE, agrees)
  /\ UNCHANGED <<posted, shutdown>>

(* Mutant: a destroyed browser is still in the list of browser infos.      *)
ShutdownAll ==
  /\ ~shutdown
  /\ shutdown' = TRUE
  /\ DestroyBrowser
  /\ UNCHANGED <<window, posted, references, warrant>>

(* CefShutdown: DestroyAllBrowsers destroys a browser that still is in the *)
(* list of browser infos.                                                  *)
Shutdown ==
  /\ ~shutdown
  /\ shutdown' = TRUE
  /\ IF Destroyed
     THEN UNCHANGED <<destruction_state, contents, beforeUnload, unloading, closings>>
     ELSE DestroyBrowser
  /\ UNCHANGED <<window, posted, references, warrant>>

LifetimeNext ==
  \/ CallCloseBrowser \/ PostCloseBrowser \/ RunPosted
  \/ UserClosesWindow \/ CloseMessage \/ ParentDestroyed
  \/ ScriptCloses \/ RunBeforeUnloadDialog \/ AnswerPrompt \/ BeforeUnloadFired \/ Unloaded
  \/ Shutdown

LifetimeSpec == LifetimeInit /\ [][LifetimeNext]_lifetimeVars

-----------------------------------------------------------------------------
(* OnBeforeClose is called once, when the browser is destroyed, and never  *)
(* again, whichever of the ways to close a browser come together.          *)
ClosedOnce == closings = IF Destroyed THEN 1 ELSE 0

(* The window points at the browser until it is destroyed, and the         *)
(* reference held for it keeps the browser alive until then: it is         *)
(* released once, with the browser destroyed and the window gone, and it   *)
(* is not forgotten, unless the library shut down under the window.        *)
ReferenceIsWindows ==
  /\ references = 0 /\ Created /\ ~IsWindowless(window) =>
        Destroyed /\ window_destroyed(window)
  /\ references = 1 /\ Destroyed => shutdown

(* So neither OnBeforeClose nor the release comes twice or never.          *)
EndsOnce == ClosedOnce /\ ReferenceIsWindows

(* A close that was refused stays refused: the browser is being closed     *)
(* just while its client agreed to it or a caller forced it, and the       *)
(* client did not refuse since.                                            *)
AcceptedIsWarranted ==
  ~Destroyed =>
     (destruction_state = DESTRUCTION_STATE_ACCEPTED <=> warrant # "none")

(* Close attempts lock out further ones (AttemptPending, WM_CLOSE), so one *)
(* that is pending must be on its way: in the page, or in the message      *)
(* queue of the window.                                                    *)
AttemptInProgress ==
  destruction_state \in {DESTRUCTION_STATE_PENDING, DESTRUCTION_STATE_ACCEPTED} =>
     \/ beforeUnload # "idle" \/ unloading
     \/ destruction_state = DESTRUCTION_STATE_ACCEPTED /\ window.messages > 0

-----------------------------------------------------------------------------
(* The messages and tasks of the UI thread are handled, the page and the   *)
(* user or the client answer.                                              *)
FairLifetimeSpec ==
  /\ LifetimeSpec
  /\ WF_lifetimeVars(RunPosted) /\ WF_lifetimeVars(CloseMessage)
  /\ WF_lifetimeVars(BeforeUnloadFired) /\ WF_lifetimeVars(Unloaded)
  /\ WF_lifetimeVars(AnswerPrompt)

(* A browser whose window is gone is destroyed.                            *)
WindowTakesBrowserAlong ==
  window_destroyed(window) ~> Destroyed

(* "If |force_close| is true the prompt will not be displayed and the      *)
(* close will proceed": the client is asked, or the browser destroyed.     *)
ForcedCloseProceeds ==
  warrant = "forced" ~> warrant # "forced" \/ Destroyed
=============================================================================
