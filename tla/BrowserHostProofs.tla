-------------------------- MODULE BrowserHostProofs ---------------------------
(***************************************************************************)
(* The safety properties of a browser host, in two parts that share        *)
(* nothing: the life of the browser (BrowserLifetime), with and without a  *)
(* window and for any number of close attempts; and the view of a          *)
(* windowless one (OffScreenView), that loses no damage and forgets no     *)
(* copy of a frame, shows one popup at a time, and is not resized under    *)
(* the paint of its client: for any regions and sizes, any number of       *)
(* popups and of tasks.                                                    *)
(***************************************************************************)
EXTENDS BrowserLifetime, OffScreenView, TLAPS

(* The life of the browser.                                                *)

(* What else is true of every state: the page lives as long as the         *)
(* browser; only a browser in a window has a reference held, and just one; *)
(* and a browser without the window it should have is known to nobody.     *)
PageLives ==
  /\ contents <=> ~Destroyed
  /\ Destroyed => beforeUnload = "idle" /\ unloading = FALSE

WindowKnown ==
  /\ references \in {0, 1}
  /\ window.state \in {"none", "offscreen"} => references = 0
  /\ ~Created => /\ destruction_state \in {DESTRUCTION_STATE_NONE, DESTRUCTION_STATE_COMPLETED}
                 /\ posted = <<>> /\ beforeUnload = "idle" /\ unloading = FALSE

LifetimeInv ==
  /\ LifetimeTypeOK /\ PageLives /\ WindowKnown
  /\ ClosedOnce /\ ReferenceIsWindows /\ AcceptedIsWarranted /\ AttemptInProgress

States == {DESTRUCTION_STATE_NONE, DESTRUCTION_STATE_PENDING, DESTRUCTION_STATE_ACCEPTED,
           DESTRUCTION_STATE_COMPLETED}

LEMMA StatesAreNumbers ==
  ASSUME NEW s
  PROVE  s \in DESTRUCTION_STATE_NONE .. DESTRUCTION_STATE_COMPLETED <=> s \in States
BY DEF States, DESTRUCTION_STATE_NONE, DESTRUCTION_STATE_PENDING, DESTRUCTION_STATE_ACCEPTED,
       DESTRUCTION_STATE_COMPLETED

(* A window as the callers of CloseBrowser pass it on: as it was, or just  *)
(* destroyed; or with a message taken out, when no attempt is pending.     *)
Passed(w) ==
  /\ w \in Window
  /\ \/ w.state = window.state
     \/ window.state = "open" /\ w.state \in {"closed", "torn"}
  /\ w.messages = window.messages \/ ~AttemptPending(w)

(* What CloseContents does to a browser whose state its caller set to s.   *)
LEMMA CloseContentsStep ==
  ASSUME LifetimeInv, Created, LifetimeAssumption,
         NEW w, Passed(w), NEW s \in States, NEW u \in BOOLEAN, NEW agrees \in BOOLEAN,
         s = DESTRUCTION_STATE_COMPLETED <=> Destroyed,
         s = DESTRUCTION_STATE_COMPLETED => u = FALSE,
         CloseContents(s, w, u, agrees), UNCHANGED shutdown, posted' \in Seq(BOOLEAN)
  PROVE  LifetimeInv'
<1> USE DEF LifetimeInv, LifetimeTypeOK, PageLives, WindowKnown, ClosedOnce, ReferenceIsWindows,
     AcceptedIsWarranted, AttemptInProgress, Destroyed, Created, IsWindowless,
     window_destroyed, IsCompleted, AsksClient, DESTRUCTION_STATE_NONE, DESTRUCTION_STATE_PENDING,
     DESTRUCTION_STATE_ACCEPTED, DESTRUCTION_STATE_COMPLETED, States, Passed, Window,
     LifetimeAssumption
<1>1. CASE IsCompleted(s)
  BY <1>1 DEF CloseContents, DestroyBrowser
<1>2. CASE ~IsCompleted(s) /\ AsksClient(w) /\ ~agrees
  BY <1>2 DEF CloseContents, AfterRefusal
<1>3. CASE ~IsCompleted(s) /\ AsksClient(w) /\ agrees /\ ~IsWindowless(w)
  <2>1. PlatformCloseWindow(w) \in Window /\ PlatformCloseWindow(w).state = w.state
        /\ PlatformCloseWindow(w).messages > 0
    BY DEF PlatformCloseWindow
  <2> QED BY <1>3, <2>1 DEF CloseContents
<1>4. CASE ~IsCompleted(s) /\ agrees /\ IsWindowless(w)
  <2>1. /\ DestroyBrowser /\ window' = w /\ warrant' = "agreed" /\ references' = references
        /\ closings = 0 /\ w.state = "offscreen" /\ references = 0
    BY <1>4 DEF CloseContents
  <2>2. LifetimeTypeOK'
    <3>1. contents' \in BOOLEAN /\ unloading' \in BOOLEAN /\ shutdown' \in BOOLEAN
      BY <2>1, Zenon DEF DestroyBrowser
    <3> QED BY <2>1, <3>1 DEF DestroyBrowser
  <2>3. PageLives'
    BY <2>1 DEF DestroyBrowser
  <2>4. ClosedOnce'
    BY <2>1 DEF DestroyBrowser
  <2> QED BY <1>4, <2>1, <2>2, <2>3, <2>4 DEF DestroyBrowser
<1>5. CASE ~IsCompleted(s) /\ ~AsksClient(w)
  <2>1. /\ DestroyBrowser /\ window' = w /\ UNCHANGED warrant /\ references' = references - 1
        /\ closings = 0 /\ w.state \in {"closed", "torn"} /\ references = 1
    BY <1>5 DEF CloseContents
  <2>2. LifetimeTypeOK'
    <3>1. contents' \in BOOLEAN /\ unloading' \in BOOLEAN /\ shutdown' \in BOOLEAN
      BY <2>1, Zenon DEF DestroyBrowser
    <3> QED BY <2>1, <3>1 DEF DestroyBrowser
  <2>3. PageLives'
    BY <2>1 DEF DestroyBrowser
  <2>4. ClosedOnce'
    BY <2>1 DEF DestroyBrowser
  <2> QED BY <2>1, <2>2, <2>3, <2>4 DEF DestroyBrowser
<1> QED BY <1>1, <1>2, <1>3, <1>4, <1>5

LEMMA CloseBrowserStep ==
  ASSUME LifetimeInv, Created, LifetimeAssumption,
         NEW w, Passed(w), NEW force \in BOOLEAN, NEW agrees \in BOOLEAN,
         window_destroyed(w) => force \/ w = window,
         CloseBrowser(force, w, agrees), UNCHANGED shutdown, posted' \in Seq(BOOLEAN)
  PROVE  LifetimeInv'
<1> USE DEF Passed, Window, Created, IsWindowless, window_destroyed, Destroyed,
     LifetimeAssumption,
     DESTRUCTION_STATE_NONE, DESTRUCTION_STATE_PENDING, DESTRUCTION_STATE_ACCEPTED,
     DESTRUCTION_STATE_COMPLETED
<1> DEFINE Asked == /\ ~AttemptPending(w) /\ contents
                    /\ destruction_state' = Requested(force) /\ window' = w
                    /\ beforeUnload' = IF beforeUnload = "idle" THEN "asked" ELSE beforeUnload
                    /\ warrant' = Warrant(force)
                    /\ UNCHANGED <<contents, unloading, references, closings>>
<1>1. CASE AttemptPending(w) /\ UNCHANGED <<contents, beforeUnload, unloading, references, closings>>
           /\ destruction_state' = Upgraded(force) /\ window' = w /\ warrant' = Warrant(force)
  BY <1>1
  DEF LifetimeInv, LifetimeTypeOK, PageLives, WindowKnown, ClosedOnce, ReferenceIsWindows,
      AcceptedIsWarranted, AttemptInProgress, AsksClient, AttemptPending, Upgraded, Warrant
<1>2. Requested(force) \in States /\ (Requested(force) = DESTRUCTION_STATE_COMPLETED <=> Destroyed)
  BY DEF LifetimeInv, LifetimeTypeOK, Requested, States
<1>3. CASE Asked
  <2>1. LifetimeTypeOK'
    BY <1>2, <1>3 DEF LifetimeInv, LifetimeTypeOK, States, Warrant
  <2>2. PageLives' /\ WindowKnown' /\ ClosedOnce' /\ AttemptInProgress'
    BY <1>2, <1>3 DEF LifetimeInv, LifetimeTypeOK, PageLives, WindowKnown, ClosedOnce, AttemptInProgress, States
  <2>3. ReferenceIsWindows'
    BY <1>2, <1>3 DEF LifetimeInv, PageLives, WindowKnown, ReferenceIsWindows
  <2>4. AcceptedIsWarranted'
    BY <1>2, <1>3 DEF LifetimeInv, LifetimeTypeOK, PageLives, WindowKnown, AcceptedIsWarranted, AttemptPending,
       AsksClient, Requested, Warrant
  <2> QED BY <2>1, <2>2, <2>3, <2>4 DEF LifetimeInv
<1>4. CASE ~AttemptPending(w) /\ CloseContents(Requested(force), w, unloading, agrees)
  <2>1. unloading \in BOOLEAN /\ (Destroyed => unloading = FALSE)
    BY DEF LifetimeInv, LifetimeTypeOK, PageLives
  <2> QED BY <1>2, <1>4, <2>1, CloseContentsStep
<1> QED BY <1>1, <1>3, <1>4 DEF CloseBrowser

(* A close message that arrives at an open window, the message itself      *)
(* being one of those waiting or the user's.                               *)
LEMMA WmCloseStep ==
  ASSUME LifetimeInv, LifetimeAssumption, window.state = "open", UNCHANGED <<posted, shutdown>>,
         NEW w \in Window, w.state = "open", WmClose(w)
  PROVE  LifetimeInv'
<1> DEFINE gone == [w EXCEPT !.state = "closed"]
<1>1. Created /\ posted' \in Seq(BOOLEAN)
  BY DEF LifetimeInv, LifetimeTypeOK, WindowKnown, Created
<1>2. CASE destruction_state > DESTRUCTION_STATE_PENDING /\ WindowDestroyed(gone)
  <2>1. gone \in Window /\ gone.state = "closed" /\ ~AsksClient(gone)
    BY <1>1 DEF Window, AsksClient, IsWindowless, window_destroyed
  <2>2. Passed(gone)
    BY <2>1 DEF Passed, AttemptPending
  <2>3. PICK agrees \in BOOLEAN : CloseBrowser(TRUE, gone, agrees)
    BY <1>2 DEF WindowDestroyed
  <2> HIDE DEF gone
  <2> QED BY <1>1, <2>2, <2>3, CloseBrowserStep
<1>3. ASSUME destruction_state = DESTRUCTION_STATE_NONE,
             NEW agrees \in BOOLEAN, CloseBrowser(FALSE, w, agrees)
      PROVE  LifetimeInv'
  <2>1. Passed(w) /\ ~window_destroyed(w)
    BY <1>3 DEF Passed, AttemptPending, window_destroyed, DESTRUCTION_STATE_NONE,
       DESTRUCTION_STATE_PENDING
  <2> QED BY <1>1, <1>3, <2>1, CloseBrowserStep
<1>4. CASE /\ destruction_state = DESTRUCTION_STATE_PENDING
           /\ window' = w
           /\ UNCHANGED <<destruction_state, contents, beforeUnload, unloading, references,
                          closings, warrant>>
  BY <1>1, <1>4
  DEF LifetimeInv, LifetimeTypeOK, PageLives, WindowKnown, ClosedOnce, ReferenceIsWindows, AcceptedIsWarranted,
      AttemptInProgress, Destroyed, Created, IsWindowless, window_destroyed,
      DESTRUCTION_STATE_PENDING,
      DESTRUCTION_STATE_ACCEPTED, DESTRUCTION_STATE_COMPLETED
<1> QED BY <1>2, <1>3, <1>4 DEF WmClose

LEMMA WindowStep ==
  ASSUME LifetimeInv, LifetimeAssumption, UserClosesWindow \/ CloseMessage \/ ParentDestroyed
  PROVE  LifetimeInv'
<1> USE DEF Window
<1>1. window \in Window
  BY DEF LifetimeInv, LifetimeTypeOK
<1>2. CASE UserClosesWindow
  BY <1>1, <1>2, WmCloseStep DEF UserClosesWindow
<1>3. CASE CloseMessage
  <2> DEFINE w == [window EXCEPT !.messages = @ - 1]
  <2>1. w \in Window /\ w.state = "open"
    BY <1>1, <1>3 DEF CloseMessage
  <2>2. WmClose(w)
    BY <1>3 DEF CloseMessage
  <2> HIDE DEF w
  <2> QED BY <1>3, <2>1, <2>2, WmCloseStep DEF CloseMessage
<1>4. CASE ParentDestroyed
  <2> DEFINE w == [window EXCEPT !.state = "torn"]
  <2>1. Created /\ posted' \in Seq(BOOLEAN) /\ window.state = "open"
    BY <1>4 DEF ParentDestroyed, LifetimeInv, LifetimeTypeOK, Created
  <2>2. Passed(w)
    BY <1>1, <2>1 DEF Passed
  <2>3. PICK agrees \in BOOLEAN : CloseBrowser(TRUE, w, agrees)
    BY <1>4 DEF ParentDestroyed, WindowDestroyed
  <2> HIDE DEF w
  <2> QED BY <1>4, <2>1, <2>2, <2>3, CloseBrowserStep DEF ParentDestroyed
<1> QED BY <1>2, <1>3, <1>4

LEMMA ClientStep ==
  ASSUME LifetimeInv, LifetimeAssumption, CallCloseBrowser \/ PostCloseBrowser \/ RunPosted
  PROVE  LifetimeInv'
<1>1. Passed(window)
  BY DEF Passed, LifetimeInv, LifetimeTypeOK
<1>2. CASE CallCloseBrowser
  <2>1. PICK force, agrees \in BOOLEAN : CloseBrowser(force, window, agrees)
    BY <1>2 DEF CallCloseBrowser
  <2>2. Created /\ UNCHANGED shutdown /\ posted' \in Seq(BOOLEAN)
    BY <1>2 DEF CallCloseBrowser, LifetimeInv, LifetimeTypeOK
  <2> QED BY <1>1, <2>1, <2>2, CloseBrowserStep
<1>3. CASE PostCloseBrowser
  <2>1. posted' \in Seq(BOOLEAN)
    BY <1>3 DEF PostCloseBrowser, LifetimeInv, LifetimeTypeOK
  <2> QED
    BY <1>3, <2>1
    DEF PostCloseBrowser, LifetimeInv, LifetimeTypeOK, PageLives, WindowKnown, ClosedOnce, ReferenceIsWindows,
        AcceptedIsWarranted, AttemptInProgress, Destroyed, Created
<1>4. CASE RunPosted
  <2>1. posted \in Seq(BOOLEAN) /\ posted # <<>>
    BY <1>4 DEF RunPosted, LifetimeInv, LifetimeTypeOK
  <2>2. Head(posted) \in BOOLEAN /\ posted' \in Seq(BOOLEAN)
    BY <1>4, <2>1 DEF RunPosted
  <2>3. PICK agrees \in BOOLEAN : CloseBrowser(Head(posted), window, agrees)
    BY <1>4 DEF RunPosted
  <2>4. Created /\ UNCHANGED shutdown
    BY <1>4, <2>1 DEF RunPosted, LifetimeInv, WindowKnown
  <2> QED BY <1>1, <2>2, <2>3, <2>4, CloseBrowserStep
<1> QED BY <1>2, <1>3, <1>4

LEMMA PageStepKeeps ==
  ASSUME LifetimeInv, LifetimeAssumption,
         ScriptCloses \/ RunBeforeUnloadDialog \/ AnswerPrompt \/ BeforeUnloadFired \/ Unloaded
  PROVE  LifetimeInv'
<1>1. Passed(window) /\ posted \in Seq(BOOLEAN) /\ unloading \in BOOLEAN
  BY DEF Passed, LifetimeInv, LifetimeTypeOK
<1>2. /\ destruction_state \in States
      /\ destruction_state = DESTRUCTION_STATE_COMPLETED <=> Destroyed
      /\ Destroyed => unloading = FALSE
  BY StatesAreNumbers DEF LifetimeInv, LifetimeTypeOK, PageLives, Destroyed
<1>3. CASE ScriptCloses
  <2>1. PICK agrees \in BOOLEAN : CloseContents(destruction_state, window, unloading, agrees)
    BY <1>3 DEF ScriptCloses
  <2> QED BY <1>1, <1>2, <1>3, <2>1, CloseContentsStep DEF ScriptCloses
<1>4. CASE Unloaded
  <2>1. PICK agrees \in BOOLEAN : CloseContents(destruction_state, window, FALSE, agrees)
    BY <1>4 DEF Unloaded
  <2>2. Created
    BY <1>4 DEF Unloaded, LifetimeInv, WindowKnown
  <2> QED BY <1>1, <1>2, <1>4, <2>1, <2>2, CloseContentsStep DEF Unloaded
<1>5. CASE RunBeforeUnloadDialog \/ AnswerPrompt
  BY <1>5
  DEF RunBeforeUnloadDialog, AnswerPrompt, PageStep, LifetimeInv, LifetimeTypeOK, PageLives, WindowKnown,
      ClosedOnce, ReferenceIsWindows, AcceptedIsWarranted, AttemptInProgress, Destroyed, Created
<1>6. CASE BeforeUnloadFired
  <2>1. ~Destroyed /\ Created
    BY <1>6 DEF BeforeUnloadFired, LifetimeInv, PageLives, WindowKnown
  <2>2. unloading' \in BOOLEAN
    BY <1>1, <1>6, Zenon DEF BeforeUnloadFired
  <2> QED
    BY <1>1, <1>6, <2>1, <2>2
    DEF BeforeUnloadFired, MayUnload, PageStep, LifetimeInv, LifetimeTypeOK, PageLives, WindowKnown,
        ClosedOnce, ReferenceIsWindows, AcceptedIsWarranted, AttemptInProgress, Destroyed,
        Created, DESTRUCTION_STATE_NONE, DESTRUCTION_STATE_PENDING,
        DESTRUCTION_STATE_ACCEPTED, DESTRUCTION_STATE_COMPLETED
<1> QED BY <1>3, <1>4, <1>5, <1>6

LEMMA ShutdownKeeps ==
  ASSUME LifetimeInv, Shutdown
  PROVE  LifetimeInv'
<1> USE DEF Shutdown, LifetimeInv, Destroyed
<1>1. LifetimeTypeOK'
  <2>1. contents' \in BOOLEAN /\ unloading' \in BOOLEAN /\ shutdown' \in BOOLEAN
    BY Zenon DEF LifetimeTypeOK, DestroyBrowser
  <2> QED
    BY <2>1 DEF LifetimeTypeOK, DestroyBrowser, ClosedOnce, DESTRUCTION_STATE_NONE,
       DESTRUCTION_STATE_COMPLETED
<1>2. PageLives' /\ WindowKnown' /\ ClosedOnce'
  BY DEF DestroyBrowser, PageLives, WindowKnown, ClosedOnce, Created
<1>3. ReferenceIsWindows' /\ AcceptedIsWarranted' /\ AttemptInProgress'
  BY DEF DestroyBrowser, ReferenceIsWindows, AcceptedIsWarranted, AttemptInProgress, Created,
     DESTRUCTION_STATE_PENDING, DESTRUCTION_STATE_ACCEPTED, DESTRUCTION_STATE_COMPLETED
<1> QED BY <1>1, <1>2, <1>3

LEMMA LifetimeInitHolds == LifetimeAssumption /\ LifetimeInit => LifetimeInv
<1> SUFFICES ASSUME LifetimeAssumption, LifetimeInit PROVE LifetimeInv
  OBVIOUS
<1>1. contents \in BOOLEAN /\ unloading \in BOOLEAN /\ shutdown \in BOOLEAN
  BY Zenon DEF LifetimeInit
<1>2. posted \in Seq(BOOLEAN)
  BY DEF LifetimeInit
<1>3. /\ window \in Window /\ references \in {0, 1}
      /\ references = 1 <=> window.state = "open"
      /\ ~window_destroyed(window) /\ window.messages = 0
  BY DEF LifetimeInit, Window, window_destroyed
<1> QED
  BY <1>1, <1>2, <1>3
  DEF LifetimeInit, LifetimeInv, LifetimeTypeOK, IsWindowless, PageLives, WindowKnown, ClosedOnce,
     ReferenceIsWindows, AcceptedIsWarranted, AttemptInProgress, Destroyed, Created,
     LifetimeAssumption, DESTRUCTION_STATE_NONE, DESTRUCTION_STATE_PENDING,
     DESTRUCTION_STATE_ACCEPTED, DESTRUCTION_STATE_COMPLETED

(* The inductive invariant.                                                *)
THEOREM LifetimeInvariance == LifetimeSpec => []LifetimeInv
<1>1. LifetimeInit => LifetimeInv
  BY LifetimeInitHolds, LifetimeAssumption
<1>2. LifetimeInv /\ [LifetimeNext]_lifetimeVars => LifetimeInv'
  <2> SUFFICES ASSUME LifetimeInv, [LifetimeNext]_lifetimeVars PROVE LifetimeInv'
    OBVIOUS
  <2>1. CASE UNCHANGED lifetimeVars
    BY <2>1
    DEF lifetimeVars, LifetimeInv, LifetimeTypeOK, PageLives, WindowKnown, ClosedOnce, ReferenceIsWindows,
        AcceptedIsWarranted, AttemptInProgress, Destroyed, Created
  <2> QED
    BY <2>1, LifetimeAssumption, ClientStep, WindowStep, PageStepKeeps, ShutdownKeeps DEF LifetimeNext
<1> QED BY <1>1, <1>2, PTL DEF LifetimeSpec

(* Every variable keeps its type.                                          *)
THEOREM LifetimeTypeCorrect == LifetimeSpec => []LifetimeTypeOK
<1>1. LifetimeInv => LifetimeTypeOK
  BY DEF LifetimeInv
<1> QED BY <1>1, LifetimeInvariance, PTL

(* However often and from wherever a browser is closed, OnBeforeClose is   *)
(* called once, when it is destroyed; the reference held for a window is   *)
(* released once, not before the window is gone and not later than the     *)
(* browser is destroyed.                                                   *)
THEOREM BrowserEndsOnce == LifetimeSpec => []EndsOnce
<1>1. LifetimeInv => EndsOnce
  BY DEF LifetimeInv, EndsOnce
<1> QED BY <1>1, LifetimeInvariance, PTL

(* A close that the client refused stays refused until somebody asks for   *)
(* it again.                                                               *)
THEOREM RefusalStands == LifetimeSpec => []AcceptedIsWarranted
<1>1. LifetimeInv => AcceptedIsWarranted
  BY DEF LifetimeInv
<1> QED BY <1>1, LifetimeInvariance, PTL

(* A close attempt that keeps others from being made is always on its way. *)
THEOREM NoLockOut == LifetimeSpec => []AttemptInProgress
<1>1. LifetimeInv => AttemptInProgress
  BY DEF LifetimeInv
<1> QED BY <1>1, LifetimeInvariance, PTL

-----------------------------------------------------------------------------
(* The view.                                                               *)

(* TypeOK in three parts, after what disturbs them.                        *)
FrameTypes ==
  /\ mode \in Mode /\ generator \in Generator /\ device \in Device
  /\ delayed \in Nat /\ copies \in Seq(SUBSET Region)
  /\ swapped \in SUBSET Region /\ owed \in SUBSET Region /\ missed \in SUBSET Region
SizeTypes ==
  /\ painting \in 0 .. 2
  /\ hold_resize \in BOOLEAN /\ pending_resize \in BOOLEAN
  /\ lock \in {"none", "held", "over"}
  /\ layer \in Size /\ rect \in Size
  /\ wish \in BOOLEAN /\ meddled \in BOOLEAN
ViewTypes ==
  /\ alive \in BOOLEAN /\ is_showing \in BOOLEAN
  /\ tasks \in Seq(Task)
  /\ popups \in [view : Popup \cup {NoPopup}, state : [Popup -> {"new", "open", "gone"}],
                 shown : Int]

(* Damage is not remembered beside the copy that is under way, unless      *)
(* another one is asked for: a paint may forget that captures failed.      *)
CopyTakesDamage ==
  mode = "gpu" /\ generator.frame_in_progress /\ generator.damage # {} => generator.frame_pending

(* The compositor draws when it has a device, which is active from the     *)
(* first frame unless BeginFrame decides.                                  *)
DrawnByDevice ==
  /\ mode = "gpu" => swapped = {}
  /\ mode = "software" /\ swapped # {} => device.active

(* Paints in paints are the client's doing; any other holds the size.      *)
PaintHolds ==
  /\ painting # 0 /\ ~meddled => hold_resize
  /\ painting = 2 => meddled

Frames == FrameTypes /\ CopyTakesDamage /\ DrawnByDevice /\ FrameKept
Sizes == SizeTypes /\ PaintHolds
View == ViewTypes /\ PopupShownOnce

IInv == Frames /\ Sizes /\ View

Stays == painting > 0 /\ ~meddled => UNCHANGED layer

-----------------------------------------------------------------------------
LEMMA TypeParts == TypeOK <=> FrameTypes /\ SizeTypes /\ ViewTypes
BY DEF TypeOK, FrameTypes, SizeTypes, ViewTypes

LEMMA InitIInv == Init => IInv
<1> SUFFICES ASSUME Init PROVE IInv
  OBVIOUS
<1>1. FrameTypes
  BY DEF Init, FrameTypes, Generator, Device, kFrameRetryLimit
<1>2. CopyTakesDamage /\ DrawnByDevice /\ FrameKept
  BY DEF Init, CopyTakesDamage, DrawnByDevice, FrameKept, OneCopyAtATime, DamageIsCopied,
         DamageIsDrawn
<1>3. Sizes
  <2>1. /\ painting = 0 /\ hold_resize = FALSE /\ pending_resize = FALSE /\ lock = "none"
        /\ rect \in Size /\ layer \in Size /\ wish = FALSE /\ meddled = FALSE
    BY Zenon DEF Init
  <2>2. painting \in 0 .. 2 /\ painting # 2
    BY <2>1
  <2> QED BY <2>1, <2>2, Zenon DEF Sizes, SizeTypes, PaintHolds
<1>4. View
  BY DEF Init, View, ViewTypes, PopupShownOnce
<1> QED BY <1>1, <1>2, <1>3, <1>4 DEF IInv, Frames

-----------------------------------------------------------------------------
(* Frames.                                                                 *)
(* Steps that do not touch them.                                           *)
LEMMA FramesUntouched ==
  ASSUME Frames, UNCHANGED <<mode, frameVars, owed, missed>>,
         alive' => alive /\ UNCHANGED painting
  PROVE  Frames'
<1>1. FrameTypes' /\ CopyTakesDamage' /\ DrawnByDevice'
  BY DEF Frames, FrameTypes, CopyTakesDamage, DrawnByDevice, frameVars
<1>2. FrameKept'
  BY DEF Frames, FrameKept, OneCopyAtATime, DamageIsCopied, DamageIsDrawn, UnderWay, frameVars
<1> QED BY <1>1, <1>2 DEF Frames

(* Requests for copies, at the ends of the queue.                          *)
LEMMA Appended ==
  ASSUME copies \in Seq(SUBSET Region), NEW d \in SUBSET Region, copies' = Append(copies, d)
  PROVE  UnderWay' = UnderWay \cup d
<1>1. \A k \in DOMAIN copies : k \in DOMAIN copies' /\ copies'[k] = copies[k]
  OBVIOUS
<1>2. Len(copies') \in DOMAIN copies' /\ copies'[Len(copies')] = d
  OBVIOUS
<1>3. \A k \in DOMAIN copies' : k \in DOMAIN copies \/ k = Len(copies')
  OBVIOUS
<1> QED BY <1>1, <1>2, <1>3 DEF UnderWay

LEMMA FirstTaken ==
  ASSUME copies \in Seq(SUBSET Region), copies # <<>>, copies' = Tail(copies)
  PROVE  /\ Head(copies) \in SUBSET Region /\ copies' \in Seq(SUBSET Region)
         /\ Len(copies') = Len(copies) - 1
         /\ UnderWay \subseteq Head(copies) \cup UnderWay'
<1>1. \A k \in DOMAIN copies : k = 1 \/ (k - 1 \in DOMAIN copies' /\ copies'[k - 1] = copies[k])
  OBVIOUS
<1>2. Head(copies) = copies[1]
  OBVIOUS
<1>3. UnderWay \subseteq Head(copies) \cup UnderWay'
  BY <1>1, <1>2 DEF UnderWay
<1> QED BY <1>3

(* A view whose frames are copied: what is asked of the generator.         *)
LEMMA Generated ==
  ASSUME Frames, painting \in Nat, alive, mode = "gpu", NEW g \in Generator, NEW force \in BOOLEAN,
         NEW d \in SUBSET Region,
         [g EXCEPT !.made = generator.made] = generator,
         GenerateCopyFrame(g, force, d), owed' \subseteq owed \cup d, force \/ d = {},
         owed' \in SUBSET Region,
         UNCHANGED <<mode, device, swapped, missed, painting>>
  PROVE  Frames'
<1> DEFINE asked == [g EXCEPT !.frame_pending = TRUE, !.damage = @ \cup d]
           begun == [asked EXCEPT !.frame_in_progress = TRUE]
           internal == [begun EXCEPT !.frame_pending = FALSE, !.damage = {}]
<1>1. /\ g.frame_pending = generator.frame_pending /\ g.damage = generator.damage
      /\ g.frame_in_progress = generator.frame_in_progress /\ g.retries = generator.retries
  BY DEF Generator, Frames, FrameTypes
<1>2. asked \in Generator /\ begun \in Generator /\ internal \in Generator
  BY DEF Generator
<1>3. DrawnByDevice' /\ DamageIsDrawn'
  BY DEF Frames, DrawnByDevice, DamageIsDrawn
<1>4. UNCHANGED copies => UnderWay' = UnderWay
  BY DEF UnderWay
<1>5. CASE generator' = g /\ UNCHANGED <<delayed, copies>> /\ d = {}
  <2>1. FrameTypes' /\ CopyTakesDamage' /\ OneCopyAtATime'
    BY <1>1, <1>5 DEF Frames, FrameTypes, CopyTakesDamage, FrameKept, OneCopyAtATime
  <2>2. DamageIsCopied'
    BY <1>1, <1>4, <1>5 DEF Frames, FrameKept, DamageIsCopied
  <2> QED BY <1>3, <2>1, <2>2 DEF Frames, FrameKept
<1>6. CASE g.frame_in_progress /\ generator' = asked /\ UNCHANGED <<delayed, copies>>
  <2>1. /\ asked.frame_pending /\ asked.damage = g.damage \cup d
        /\ asked.frame_in_progress = g.frame_in_progress
    BY DEF Generator
  <2>2. FrameTypes' /\ CopyTakesDamage' /\ OneCopyAtATime'
    BY <1>1, <1>2, <1>6, <2>1 DEF Frames, FrameTypes, CopyTakesDamage, FrameKept, OneCopyAtATime
  <2>3. DamageIsCopied'
    BY <1>1, <1>4, <1>6, <2>1 DEF Frames, FrameKept, DamageIsCopied
  <2> QED BY <1>3, <2>2, <2>3 DEF Frames, FrameKept
<1>7. CASE ~g.frame_in_progress /\ generator' = begun /\ delayed' = delayed + 1 /\ UNCHANGED copies
  <2>1. begun.frame_pending /\ begun.damage = g.damage \cup d /\ begun.frame_in_progress
    BY DEF Generator
  <2>2. FrameTypes' /\ CopyTakesDamage'
    BY <1>1, <1>2, <1>7, <2>1 DEF Frames, FrameTypes, CopyTakesDamage
  <2>3. OneCopyAtATime'
    BY <1>1, <1>7, <2>1 DEF Frames, FrameTypes, FrameKept, OneCopyAtATime
  <2>4. DamageIsCopied'
    BY <1>1, <1>4, <1>7, <2>1 DEF Frames, FrameKept, DamageIsCopied
  <2> QED BY <1>3, <2>2, <2>3, <2>4 DEF Frames, FrameKept
<1>8. CASE ~g.frame_in_progress /\ InternalGenerateCopyFrame(begun) /\ UNCHANGED delayed
  <2>1. /\ generator' = internal /\ copies' = Append(copies, g.damage \cup d)
        /\ internal.damage = {} /\ internal.frame_in_progress
    BY <1>8 DEF InternalGenerateCopyFrame, Generator
  <2>2. g.damage \cup d \in SUBSET Region /\ copies \in Seq(SUBSET Region)
    BY DEF Generator, Frames, FrameTypes
  <2>3. FrameTypes' /\ CopyTakesDamage'
    BY <1>1, <1>2, <1>8, <2>1, <2>2 DEF Frames, FrameTypes, CopyTakesDamage
  <2>4. OneCopyAtATime'
    BY <1>1, <1>8, <2>1, <2>2 DEF Frames, FrameTypes, FrameKept, OneCopyAtATime
  <2>5. DamageIsCopied'
    BY <1>1, <2>1, <2>2, Appended DEF Frames, FrameKept, DamageIsCopied
  <2> QED BY <1>3, <2>3, <2>4, <2>5 DEF Frames, FrameKept
<1> QED BY <1>5, <1>6, <1>7, <1>8 DEF GenerateCopyFrame

(* A paint of the damage |d|.                                              *)
LEMMA Painted ==
  ASSUME SizeTypes, PaintHolds, painting \in {0, 1}, NEW d, OnPaint(d),
         UNCHANGED <<lock, layer, rect>>
  PROVE  Sizes' /\ Stays
<1>1. /\ painting' \in 0 .. 2 /\ painting' # 0
      /\ painting' = 2 => painting > 0
  <2>1. painting' = painting + 1
    BY Zenon DEF OnPaint
  <2> QED BY <2>1
<1>2. /\ meddled' = (painting > 0) /\ hold_resize' = TRUE
      /\ UNCHANGED <<pending_resize, wish>>
  BY Zenon DEF OnPaint
<1>3. meddled' \in BOOLEAN
  <2>1. CASE painting > 0
    BY <1>2, <2>1, Zenon
  <2>2. CASE ~(painting > 0)
    <3>1. (painting > 0) = FALSE
      BY <2>2
    <3> QED BY <1>2, <3>1, Zenon
  <2> QED BY <2>1, <2>2, Zenon
<1> QED BY <1>1, <1>2, <1>3, Zenon DEF Sizes, SizeTypes, PaintHolds, Stays

LEMMA QuietSizes ==
  ASSUME Sizes, Quiet, UNCHANGED <<lock, layer, rect>>
  PROVE  Sizes' /\ Stays
BY Zenon DEF Sizes, SizeTypes, PaintHolds, Stays, Quiet

LEMMA ElsewhereView ==
  ASSUME View, tasks' \in Seq(Task), UNCHANGED <<alive, is_showing, popups>>
  PROVE  View'
BY DEF View, ViewTypes, PopupShownOnce

-----------------------------------------------------------------------------
(* Tasks.                                                                  *)
LEMMA ReleasedTasks ==
  ASSUME tasks \in Seq(Task)
  PROVE  Released \in Seq(Task)
<1>1. [op |-> "WasResized"] \in Task
  BY DEF Task
<1> QED BY <1>1 DEF Released

LEMMA CompletionTasks ==
  ASSUME NEW queue \in Seq(Task), NEW force \in BOOLEAN
  PROVE  AfterCompletion(queue, force) \in Seq(Task)
<1>1. [op |-> "Generate", force |-> force] \in Task
  BY DEF Task
<1> QED BY <1>1 DEF AfterCompletion

LEMMA TakenTask ==
  ASSUME tasks \in Seq(Task), NEW op, RunTask(op)
  PROVE  tasks' \in Seq(Task) /\ Head(tasks) \in Task /\ Head(tasks).op = op
BY DEF RunTask

LEMMA GenerateForce ==
  ASSUME NEW t \in Task, t.op = "Generate"
  PROVE  t.force \in BOOLEAN
BY DEF Task

LEMMA CanceledPopup ==
  ASSUME NEW t \in Task, t.op = "CancelPopup"
  PROVE  t.popup \in Popup
BY DEF Task

-----------------------------------------------------------------------------
(* The generator.                                                          *)
LEMMA GeneratedTypes ==
  ASSUME FrameTypes, NEW g \in Generator, NEW force \in BOOLEAN, NEW d \in SUBSET Region,
         GenerateCopyFrame(g, force, d)
  PROVE  generator' \in Generator /\ delayed' \in Nat /\ copies' \in Seq(SUBSET Region)
<1> DEFINE asked == [g EXCEPT !.frame_pending = TRUE, !.damage = @ \cup d]
           begun == [asked EXCEPT !.frame_in_progress = TRUE]
<1>1. asked \in Generator /\ begun \in Generator /\ begun.damage \in SUBSET Region
  BY DEF Generator
<1>2. [begun EXCEPT !.frame_pending = FALSE, !.damage = {}] \in Generator
  BY <1>1 DEF Generator
<1> HIDE DEF begun
<1> QED BY <1>1, <1>2 DEF GenerateCopyFrame, InternalGenerateCopyFrame, FrameTypes, begun

LEMMA RunInternalStep ==
  ASSUME IInv, RunInternalGenerateCopyFrame
  PROVE  Frames'
<1> USE DEF IInv, Frames
<1> DEFINE g == [generator EXCEPT !.frame_pending = FALSE, !.damage = {}]
<1>1. /\ generator' = g /\ copies' = Append(copies, generator.damage)
      /\ delayed > 0 /\ delayed' = delayed - 1 /\ painting = 0 /\ painting' = 0
      /\ UNCHANGED <<mode, alive, device, swapped, owed, missed>>
  BY DEF RunInternalGenerateCopyFrame, InternalGenerateCopyFrame, Idle, Quiet, Elsewhere
<1>2. g \in Generator /\ g.damage = {} /\ g.frame_in_progress = generator.frame_in_progress
  BY DEF FrameTypes, Generator
<1>3. generator.damage \in SUBSET Region /\ copies \in Seq(SUBSET Region)
  BY DEF FrameTypes, Generator
<1>4. FrameTypes' /\ CopyTakesDamage'
  BY <1>1, <1>2, <1>3 DEF FrameTypes, CopyTakesDamage
<1>5. DrawnByDevice' /\ DamageIsDrawn'
  BY <1>1 DEF FrameKept, DrawnByDevice, DamageIsDrawn
<1>6. OneCopyAtATime'
  BY <1>1, <1>2, <1>3 DEF FrameTypes, FrameKept, OneCopyAtATime
<1>7. DamageIsCopied'
  BY <1>1, <1>2, <1>3, Appended DEF FrameKept, DamageIsCopied
<1> QED BY <1>4, <1>5, <1>6, <1>7 DEF FrameKept

LEMMA FailedCopy ==
  ASSUME NEW g \in Generator, NEW d \in SUBSET Region
  PROVE  /\ Failed(g, d) \in Generator /\ Failed(g, d).damage = g.damage \cup d
         /\ Failed(g, d).retries > 0 /\ Failed(g, d).frame_pending = g.frame_pending
<1> DEFINE r == IF g.retries <= kFrameRetryLimit THEN g.retries + 1 ELSE g.retries
<1>1. r \in 0 .. kFrameRetryLimit + 1 /\ r > 0
  BY DEF Generator, kFrameRetryLimit
<1>2. Failed(g, d) = [g EXCEPT !.damage = g.damage \cup d, !.retries = r]
  BY Zenon DEF Failed
<1> HIDE DEF r
<1> QED BY <1>1, <1>2 DEF Generator

LEMMA CompletedCopy ==
  ASSUME NEW g \in Generator
  PROVE  /\ Completed(g) \in Generator /\ ~Completed(g).frame_in_progress
         /\ Completed(g).damage = g.damage /\ Completed(g).retries = g.retries
         /\ Completed(g).frame_pending = g.frame_pending
BY DEF Completed, Generator

LEMMA CaptureFailsStep ==
  ASSUME IInv, CaptureFails
  PROVE  Frames' /\ tasks' \in Seq(Task)
<1> USE DEF IInv, Frames
<1> DEFINE g == Completed(Failed(generator, Head(copies)))
<1>1. /\ generator' = g /\ copies # <<>> /\ copies' = Tail(copies)
      /\ tasks' = AfterCompletion(tasks, generator.retries < kFrameRetryLimit)
      /\ painting = 0 /\ painting' = 0 /\ alive
      /\ UNCHANGED <<mode, alive, delayed, device, swapped, owed, missed>>
  BY DEF CaptureFails, Idle, Quiet, Elsewhere
<1>2. /\ Head(copies) \in SUBSET Region /\ copies' \in Seq(SUBSET Region)
      /\ Len(copies') = Len(copies) - 1 /\ Len(copies) \in Nat /\ Len(copies) > 0
      /\ UnderWay \subseteq Head(copies) \cup UnderWay'
  BY <1>1, FirstTaken DEF FrameTypes
<1>3. /\ g \in Generator /\ g.damage = generator.damage \cup Head(copies)
      /\ ~g.frame_in_progress /\ g.retries > 0
  BY <1>2, FailedCopy, CompletedCopy DEF FrameTypes
<1>4. FrameTypes' /\ CopyTakesDamage'
  BY <1>1, <1>2, <1>3 DEF FrameTypes, CopyTakesDamage
<1>5. DrawnByDevice' /\ DamageIsDrawn'
  BY <1>1 DEF FrameKept, DrawnByDevice, DamageIsDrawn
<1>6. OneCopyAtATime'
  BY <1>1, <1>2, <1>3 DEF FrameTypes, FrameKept, OneCopyAtATime
<1>7. DamageIsCopied'
  BY <1>1, <1>2, <1>3 DEF FrameKept, DamageIsCopied
<1>8. tasks' \in Seq(Task)
  <2>1. tasks' \in {AfterCompletion(tasks, TRUE), AfterCompletion(tasks, FALSE)}
    <3>1. CASE generator.retries < kFrameRetryLimit
      <4>1. (generator.retries < kFrameRetryLimit) = TRUE
        BY <3>1
      <4> QED BY <1>1, <4>1, Zenon
    <3>2. CASE ~(generator.retries < kFrameRetryLimit)
      <4>1. (generator.retries < kFrameRetryLimit) = FALSE
        BY <3>2
      <4> QED BY <1>1, <4>1, Zenon
    <3> QED BY <3>1, <3>2
  <2> QED BY <2>1, CompletionTasks DEF View, ViewTypes
<1> QED BY <1>4, <1>5, <1>6, <1>7, <1>8 DEF FrameKept

LEMMA CaptureSucceedsStep ==
  ASSUME IInv, CaptureSucceeds
  PROVE  Frames'
<1> USE DEF IInv, Frames
<1>1. /\ copies # <<>> /\ copies' = Tail(copies)
      /\ painting = 0 /\ painting' = 1
      /\ owed' = owed \ Head(copies) /\ missed' = missed \ Head(copies)
      /\ UNCHANGED <<mode, alive, generator, delayed, device, swapped>>
  BY DEF CaptureSucceeds, OnPaint, Idle, Elsewhere
<1>2. /\ Head(copies) \in SUBSET Region /\ copies' \in Seq(SUBSET Region)
      /\ Len(copies') = Len(copies) - 1 /\ Len(copies) \in Nat /\ Len(copies) > 0
      /\ UnderWay \subseteq Head(copies) \cup UnderWay'
  BY <1>1, FirstTaken DEF FrameTypes
<1>3. FrameTypes' /\ CopyTakesDamage'
  BY <1>1, <1>2 DEF FrameTypes, CopyTakesDamage
<1>4. DrawnByDevice' /\ DamageIsDrawn'
  BY <1>1 DEF FrameKept, DrawnByDevice, DamageIsDrawn
<1>5. OneCopyAtATime'
  BY <1>1, <1>2 DEF FrameTypes, FrameKept, OneCopyAtATime
<1>6. DamageIsCopied'
  BY <1>1, <1>2 DEF FrameKept, DamageIsCopied
<1> QED BY <1>3, <1>4, <1>5, <1>6 DEF FrameKept

-----------------------------------------------------------------------------
(* The device, in a view whose frames are not copied.                      *)
LEMMA DrawnFrames ==
  ASSUME IInv, mode # "gpu", UNCHANGED <<mode, generator, delayed, copies>>,
         device' \in Device, swapped' \in SUBSET Region,
         owed' \in SUBSET Region, missed' \in SUBSET Region,
         mode = "software" /\ swapped' # {} => device'.active,
         alive => owed' \subseteq swapped' \cup device'.damage \cup missed',
         missed' # {} => mode = "begin", alive' => alive,
         alive => (device'.damage # {} => device'.active)
  PROVE  Frames'
<1>1. FrameTypes' /\ CopyTakesDamage' /\ DrawnByDevice'
  BY DEF IInv, Frames, FrameTypes, CopyTakesDamage, DrawnByDevice
<1>2. FrameKept'
  BY DEF FrameKept, OneCopyAtATime, DamageIsCopied, DamageIsDrawn
<1> QED BY <1>1, <1>2 DEF Frames

(* What a call of the device leaves of the damage.                         *)
LEMMA DevicePaintsAll ==
  ASSUME FrameTypes, NEW d \in Device, NEW damage \in SUBSET Region, DevicePaints(d, damage)
  PROVE  /\ device' \in Device /\ device'.active = d.active /\ device'.damage = {}
         /\ owed' = owed \ (d.damage \cup damage)
         /\ missed' = missed \ (d.damage \cup damage)
<1>1. d.damage \in SUBSET Region
  BY DEF Device
<1>2. /\ device' = [d EXCEPT !.damage = {}]
      /\ owed' = owed \ (d.damage \cup damage)
      /\ missed' = missed \ (d.damage \cup damage)
  BY DEF DevicePaints, OnPaint
<1> QED BY <1>2 DEF Device

LEMMA DevicePaintsSizes ==
  ASSUME Sizes, painting \in {0, 1}, NEW d, NEW damage, DevicePaints(d, damage),
         UNCHANGED <<lock, layer, rect>>
  PROVE  Sizes' /\ Stays
<1>1. CASE Quiet
  BY <1>1, QuietSizes
<1>2. CASE OnPaint(d.damage \cup damage)
  BY <1>2, Painted DEF Sizes
<1> QED BY <1>1, <1>2, Zenon DEF DevicePaints

LEMMA DrawStep ==
  ASSUME IInv, Draw
  PROVE  IInv' /\ Stays
<1> USE DEF IInv, Frames
<1>1. /\ alive /\ painting \in {0, 1} /\ swapped # {} /\ swapped' = {} /\ mode # "gpu"
      /\ UNCHANGED <<generator, delayed, copies, tasks>>
      /\ UNCHANGED <<mode, alive, is_showing, lock, layer, rect, popups>>
  BY DEF Draw, Idle, Elsewhere, DrawnByDevice
<1>2. View'
  BY <1>1, ElsewhereView DEF View, ViewTypes
<1>3. device \in Device /\ swapped \in SUBSET Region /\ owed \in SUBSET Region
      /\ missed \in SUBSET Region
      /\ owed \subseteq swapped \cup device.damage \cup missed
  BY <1>1 DEF FrameTypes, FrameKept, DamageIsDrawn
<1>4. missed # {} => mode = "begin"
  BY <1>1 DEF FrameTypes, FrameKept, DamageIsDrawn
<1>5. mode = "begin" \/ (mode = "software" /\ device.active)
  <2>1. mode \in {"gpu", "software", "begin"}
    BY DEF FrameTypes, Mode
  <2>2. mode = "software" => device.active
    BY <1>1, Zenon DEF DrawnByDevice
  <2> QED BY <1>1, <2>1, <2>2
<1>6. device.damage # {} => device.active
  BY <1>1, Zenon DEF FrameKept, DamageIsDrawn
<1>7. CASE device.active /\ DevicePaints(device, swapped)
  <2>1. FrameTypes /\ DevicePaints(device, swapped)
    BY <1>7, Zenon
  <2>2. /\ device' \in Device /\ device'.damage = {}
        /\ owed' = owed \ (device.damage \cup swapped)
        /\ missed' = missed \ (device.damage \cup swapped)
    BY <1>3, <2>1, DevicePaintsAll
  <2>3. owed' \subseteq missed' /\ owed' \in SUBSET Region /\ missed' \in SUBSET Region
    BY <1>3, <2>2
  <2>4. missed' # {} => mode = "begin"
    BY <1>4, <2>2
  <2>5. Frames'
    BY <1>1, <2>2, <2>3, <2>4, DrawnFrames
  <2>6. Sizes' /\ Stays
    BY <1>1, <2>1, DevicePaintsSizes
  <2> QED BY <1>2, <2>5, <2>6
<1>8. CASE ~device.active /\ missed' = missed \cup swapped /\ Quiet /\ UNCHANGED <<device, owed>>
  <2>1. mode = "begin" /\ missed' = missed \cup swapped /\ UNCHANGED <<device, owed>> /\ Quiet
    BY <1>5, <1>8, Zenon
  <2>2. Frames'
    <3>1. device'.damage = {}
      BY <1>6, <1>8, <2>1, Zenon
    <3>2. mode = "software" /\ swapped' # {} => device'.active
      BY <1>1
    <3> QED BY <1>1, <1>3, <1>4, <2>1, <3>1, <3>2, DrawnFrames
  <2>3. Sizes' /\ Stays
    BY <1>1, <2>1, QuietSizes
  <2> QED BY <1>2, <2>2, <2>3
<1> QED BY <1>7, <1>8, Zenon DEF Draw

LEMMA OnSetNeedsBeginFramesStep ==
  ASSUME IInv, NEW enabled \in BOOLEAN, OnSetNeedsBeginFrames(enabled)
  PROVE  IInv' /\ Stays
<1> USE DEF IInv, Frames
<1>1. /\ alive /\ painting \in {0, 1} /\ mode = "begin"
      /\ UNCHANGED <<generator, delayed, copies, swapped, tasks>>
      /\ UNCHANGED <<mode, alive, is_showing, lock, layer, rect, popups>>
  BY DEF OnSetNeedsBeginFrames, Idle, Elsewhere
<1>2. View'
  BY <1>1, ElsewhereView DEF View, ViewTypes
<1>3. device \in Device /\ swapped \in SUBSET Region /\ owed \in SUBSET Region
      /\ missed \in SUBSET Region
      /\ owed \subseteq swapped \cup device.damage \cup missed
  BY <1>1 DEF FrameTypes, FrameKept, DamageIsDrawn
<1>4. CASE device' = [device EXCEPT !.active = TRUE] /\ Quiet /\ UNCHANGED <<owed, missed>>
  <2>1. device' \in Device /\ device'.damage = device.damage /\ device'.active
    BY <1>3, <1>4 DEF Device
  <2>2. Frames'
    BY <1>1, <1>3, <1>4, <2>1, DrawnFrames
  <2>3. Sizes' /\ Stays
    BY <1>1, <1>4, QuietSizes
  <2> QED BY <1>2, <2>2, <2>3
<1>5. CASE DevicePaints([device EXCEPT !.active = FALSE], {})
  <2> DEFINE d == [device EXCEPT !.active = FALSE]
  <2>1. d \in Device /\ d.damage = device.damage
    BY <1>3 DEF Device
  <2> HIDE DEF d
  <2>2. DevicePaints(d, {})
    BY <1>5 DEF d
  <2>3. /\ device' \in Device /\ device'.damage = {}
        /\ owed' = owed \ (d.damage \cup {}) /\ missed' = missed \ (d.damage \cup {})
    BY <2>1, <2>2, DevicePaintsAll
  <2>4. Frames'
    BY <1>1, <1>3, <2>1, <2>3, DrawnFrames
  <2>5. Sizes' /\ Stays
    BY <1>1, <2>2, DevicePaintsSizes
  <2> QED BY <1>2, <2>4, <2>5
<1> QED BY <1>4, <1>5, Zenon DEF OnSetNeedsBeginFrames

(* A frame of the renderer, and what the client asks for.                  *)
LEMMA OnSwapCompositorFrameStep ==
  ASSUME IInv, NEW damage_rect \in SUBSET Region, OnSwapCompositorFrame(damage_rect)
  PROVE  IInv' /\ Stays
<1> USE DEF IInv, Frames
<1>1. /\ alive /\ painting = 0 /\ owed' = owed \cup damage_rect /\ Quiet
      /\ UNCHANGED <<mode, alive, is_showing, lock, layer, rect, popups, tasks, missed>>
  BY DEF OnSwapCompositorFrame, Idle, Elsewhere
<1>2. View'
  BY <1>1, ElsewhereView DEF View, ViewTypes
<1>3. Sizes' /\ Stays
  BY <1>1, QuietSizes
<1>4. owed' \in SUBSET Region /\ UNCHANGED painting /\ painting \in Nat
  BY <1>1 DEF FrameTypes, Quiet
<1>5. CASE mode = "gpu"
  <2> DEFINE g == [generator EXCEPT !.made = TRUE]
  <2>1. GenerateCopyFrame(g, TRUE, damage_rect) /\ UNCHANGED <<device, swapped>>
    BY <1>5 DEF OnSwapCompositorFrame
  <2>2. g \in Generator /\ [g EXCEPT !.made = generator.made] = generator
    BY DEF FrameTypes, Generator
  <2> HIDE DEF g
  <2>3. Frames'
    BY <1>1, <1>4, <1>5, <2>1, <2>2, Generated
  <2> QED BY <1>2, <1>3, <2>3
<1>6. CASE mode # "gpu"
  <2>1. /\ swapped' = swapped \cup damage_rect
        /\ device' = IF mode = "software" THEN [device EXCEPT !.active = TRUE] ELSE device
        /\ UNCHANGED <<generator, delayed, copies>>
    BY <1>6 DEF OnSwapCompositorFrame
  <2>2. /\ device' \in Device /\ device'.damage = device.damage
        /\ mode = "software" => device'.active
        /\ device'.damage # {} => device'.active
    BY <1>1, <1>6, <2>1 DEF FrameTypes, Device, FrameKept, DamageIsDrawn
  <2>3. /\ swapped' \in SUBSET Region /\ missed' \in SUBSET Region
        /\ owed \subseteq swapped \cup device.damage \cup missed
    BY <1>1, <1>6, <2>1 DEF FrameTypes, FrameKept, DamageIsDrawn
  <2>4. missed' # {} => mode = "begin"
    BY <1>1, <1>6 DEF FrameKept, DamageIsDrawn
  <2>5. owed' \subseteq swapped' \cup device'.damage \cup missed'
    BY <1>1, <2>1, <2>2, <2>3
  <2>6. Frames'
    BY <1>1, <1>4, <1>6, <2>1, <2>2, <2>3, <2>4, <2>5, DrawnFrames
  <2> QED BY <1>2, <1>3, <2>6
<1> QED BY <1>5, <1>6

LEMMA InvalidateStep ==
  ASSUME IInv, Invalidate
  PROVE  IInv' /\ Stays
<1> USE DEF IInv, Frames
<1>1. /\ alive /\ painting \in {0, 1} /\ painting \in Nat
      /\ UNCHANGED <<mode, alive, is_showing, lock, layer, rect, popups, swapped, tasks>>
  BY DEF Invalidate, Elsewhere, Sizes, SizeTypes
<1>2. View'
  BY <1>1, ElsewhereView DEF View, ViewTypes
<1>3. Region \in SUBSET Region /\ device \in Device /\ generator \in Generator
      /\ swapped' \in SUBSET Region /\ owed \in SUBSET Region /\ missed \in SUBSET Region
  BY <1>1 DEF FrameTypes
<1>4. CASE /\ mode = "gpu" /\ GenerateCopyFrame(generator, TRUE, Region)
           /\ owed' = Region /\ Quiet /\ UNCHANGED <<device, missed>>
  <2>1. UNCHANGED painting
    BY <1>4, Zenon DEF Quiet
  <2>2. [generator EXCEPT !.made = generator.made] = generator
    BY <1>3 DEF Generator
  <2>3. Frames'
    BY <1>1, <1>3, <1>4, <2>1, <2>2, Generated
  <2>4. Sizes' /\ Stays
    BY <1>1, <1>4, QuietSizes
  <2> QED BY <1>2, <2>3, <2>4
<1>5. CASE /\ mode # "gpu" /\ device.active /\ device' = [device EXCEPT !.damage = Region]
           /\ owed' = Region /\ Quiet /\ UNCHANGED <<generator, delayed, copies, missed>>
  <2>1. device' \in Device /\ device'.damage = Region /\ device'.active
    BY <1>3, <1>5 DEF Device
  <2>2. missed' # {} => mode = "begin"
    BY <1>1, <1>5 DEF FrameKept, DamageIsDrawn
  <2>3. mode = "software" /\ swapped' # {} => device'.active
    BY <2>1, Zenon
  <2>4. Frames'
    BY <1>1, <1>3, <1>5, <2>1, <2>2, <2>3, DrawnFrames
  <2>5. Sizes' /\ Stays
    BY <1>1, <1>5, QuietSizes
  <2> QED BY <1>2, <2>4, <2>5
<1>6. CASE /\ mode # "gpu" /\ DevicePaints(device, Region)
           /\ UNCHANGED <<generator, delayed, copies>>
  <2>1. FrameTypes /\ DevicePaints(device, Region)
    BY <1>6, Zenon
  <2>2. /\ device' \in Device /\ device'.active = device.active /\ device'.damage = {}
        /\ owed' = owed \ (device.damage \cup Region)
        /\ missed' = missed \ (device.damage \cup Region)
    BY <1>3, <2>1, DevicePaintsAll
  <2>3. owed' = {} /\ missed' = {}
    BY <1>3, <2>2
  <2>4. mode = "software" /\ swapped' # {} => device'.active
    BY <1>1, <2>2, Zenon DEF DrawnByDevice
  <2>5. Frames'
    BY <1>1, <1>3, <1>6, <2>2, <2>3, <2>4, DrawnFrames
  <2>6. Sizes' /\ Stays
    BY <1>1, <2>1, DevicePaintsSizes
  <2> QED BY <1>2, <2>5, <2>6
<1> QED BY <1>4, <1>5, <1>6, Zenon DEF Invalidate, IsFramePending

LEMMA PaintReturnsStep ==
  ASSUME IInv, PaintReturns
  PROVE  IInv' /\ Stays
<1> USE DEF IInv, Frames
<1>1. /\ alive /\ painting > 0 /\ painting' = painting - 1 /\ painting \in Nat
      /\ UNCHANGED <<mode, alive, is_showing, lock, layer, rect, popups>>
      /\ UNCHANGED <<delayed, copies, device, swapped, owed, missed, wish, meddled>>
  BY DEF PaintReturns, Elsewhere, Sizes, SizeTypes, history
<1>2. Sizes' /\ Stays
  <2>1. painting' \in 0 .. 2 /\ painting' # 2 /\ (painting' # 0 => painting = 2)
    BY <1>1 DEF Sizes, SizeTypes
  <2>2. /\ hold_resize' = FALSE /\ pending_resize' = (pending_resize /\ ~hold_resize)
        /\ UNCHANGED <<lock, layer, rect, wish, meddled>>
    BY <1>1, Zenon DEF PaintReturns, ReleaseResize
  <2>3. pending_resize' \in BOOLEAN
    BY <2>2, Zenon DEF Sizes, SizeTypes
  <2> QED BY <2>1, <2>2, <2>3, Zenon DEF Sizes, SizeTypes, PaintHolds, Stays
<1>3. CASE mode = "gpu"
  <2> DEFINE g == [generator EXCEPT !.retries = 0]
  <2>1. generator' = Completed(g) /\ tasks' = AfterCompletion(Released, FALSE)
    BY <1>3 DEF PaintReturns
  <2>2. /\ g \in Generator /\ g.damage = generator.damage
        /\ g.frame_pending = generator.frame_pending
    BY DEF FrameTypes, Generator, kFrameRetryLimit
  <2> HIDE DEF g
  <2>3. /\ generator' \in Generator /\ ~generator'.frame_in_progress
        /\ generator'.damage = generator.damage
        /\ generator'.frame_pending = generator.frame_pending
    BY <2>1, <2>2, CompletedCopy
  <2>4. View'
    <3>1. tasks' \in Seq(Task)
      BY <2>1, ReleasedTasks, CompletionTasks DEF View, ViewTypes
    <3> QED BY <1>1, <3>1, ElsewhereView
  <2>5. delayed \in Nat /\ Len(copies) \in Nat
    BY DEF FrameTypes
  <2>6. generator.frame_in_progress /\ OneCopyAtATime'
    BY <1>1, <1>3, <2>3, <2>5 DEF FrameKept, OneCopyAtATime
  <2>7. FrameTypes' /\ CopyTakesDamage' /\ DrawnByDevice'
    BY <1>1, <2>3 DEF FrameTypes, CopyTakesDamage, DrawnByDevice
  <2>8. DamageIsCopied' /\ DamageIsDrawn'
    BY <1>1, <1>3, <2>3, <2>6 DEF FrameKept, DamageIsCopied, DamageIsDrawn, CopyTakesDamage,
       UnderWay
  <2> QED BY <1>2, <2>4, <2>6, <2>7, <2>8 DEF FrameKept
<1>4. CASE mode # "gpu"
  <2>1. tasks' = Released /\ UNCHANGED generator
    BY <1>4 DEF PaintReturns
  <2>2. View'
    BY <1>1, <2>1, ReleasedTasks, ElsewhereView DEF View, ViewTypes
  <2>3. FrameTypes' /\ CopyTakesDamage' /\ DrawnByDevice'
    BY <1>1, <2>1 DEF FrameTypes, CopyTakesDamage, DrawnByDevice
  <2>4. FrameKept'
    BY <1>1, <1>4, <2>1 DEF FrameKept, OneCopyAtATime, DamageIsCopied, DamageIsDrawn
  <2> QED BY <1>2, <2>2, <2>3, <2>4
<1> QED BY <1>3, <1>4

LEMMA GeneratorStep ==
  ASSUME IInv, RunInternalGenerateCopyFrame \/ CaptureEnds \/ RunGenerate
  PROVE  IInv' /\ Stays
<1>1. CASE RunInternalGenerateCopyFrame
  <2>1. /\ Quiet /\ UNCHANGED <<lock, layer, rect, alive, is_showing, popups, tasks>>
    BY <1>1 DEF RunInternalGenerateCopyFrame, Elsewhere
  <2> QED BY <1>1, <2>1, RunInternalStep, QuietSizes, ElsewhereView DEF IInv, View, ViewTypes
<1>2. CASE CaptureFails
  <2>1. /\ Quiet /\ UNCHANGED <<lock, layer, rect, alive, is_showing, popups>>
    BY <1>2 DEF CaptureFails, Elsewhere
  <2> QED BY <1>2, <2>1, CaptureFailsStep, QuietSizes, ElsewhereView DEF IInv
<1>3. CASE CaptureSucceeds
  <2>1. /\ OnPaint(Head(copies)) /\ painting \in {0, 1}
        /\ UNCHANGED <<lock, layer, rect, alive, is_showing, popups, tasks>>
    BY <1>3 DEF CaptureSucceeds, Elsewhere, Idle
  <2> QED BY <1>3, <2>1, CaptureSucceedsStep, Painted, ElsewhereView
          DEF IInv, Sizes, View, ViewTypes
<1>4. CASE RunGenerate
  <2>1. /\ RunTask("Generate") /\ GenerateCopyFrame(generator, Head(tasks).force, {})
        /\ Quiet /\ UNCHANGED <<mode, alive, is_showing, lock, layer, rect, popups>>
        /\ UNCHANGED <<device, swapped, owed, missed>>
    BY <1>4 DEF RunGenerate, Elsewhere
  <2>2. tasks' \in Seq(Task) /\ Head(tasks).force \in BOOLEAN
    BY <2>1, TakenTask, GenerateForce DEF IInv, View, ViewTypes
  <2>3. Sizes' /\ Stays /\ View'
    BY <2>1, <2>2, QuietSizes, ElsewhereView DEF IInv
  <2>4. alive /\ UNCHANGED painting /\ painting \in Nat
    BY <2>1 DEF RunTask, Idle, Quiet
  <2>5. /\ generator \in Generator /\ {} \in SUBSET Region /\ owed' \in SUBSET Region
        /\ [generator EXCEPT !.made = generator.made] = generator
        /\ owed' \subseteq owed \cup {}
    BY <2>1 DEF IInv, Frames, FrameTypes, Generator
  <2>6. CASE mode = "gpu"
    <3>1. Frames'
      BY <2>1, <2>2, <2>4, <2>5, <2>6, Generated DEF IInv
    <3> QED BY <2>3, <3>1 DEF IInv
  <2>7. CASE mode # "gpu"
    <3>1. /\ generator' \in Generator /\ delayed' \in Nat /\ copies' \in Seq(SUBSET Region)
      BY <2>1, <2>2, <2>5, GeneratedTypes DEF IInv, Frames
    <3>2. FrameTypes' /\ CopyTakesDamage' /\ DrawnByDevice' /\ FrameKept'
      BY <2>1, <2>7, <3>1 DEF IInv, Frames, FrameTypes, CopyTakesDamage, DrawnByDevice, FrameKept,
         OneCopyAtATime, DamageIsCopied, DamageIsDrawn
    <3> QED BY <2>3, <3>2 DEF IInv, Frames
  <2> QED BY <2>6, <2>7
<1> QED BY <1>1, <1>2, <1>3, <1>4 DEF CaptureEnds

-----------------------------------------------------------------------------
(* Sizes.                                                                  *)
LEMMA ReleasedSizes ==
  ASSUME Sizes, ReleaseResize, painting = 0 \/ meddled' = TRUE, meddled' \in BOOLEAN,
         lock' \in {"none", "held", "over"}, UNCHANGED <<painting, layer, rect, wish>>
  PROVE  Sizes' /\ Stays
<1>1. hold_resize' = FALSE /\ pending_resize' = (pending_resize /\ ~hold_resize)
  BY Zenon DEF ReleaseResize
<1>2. pending_resize' \in BOOLEAN
  BY <1>1, Zenon DEF Sizes, SizeTypes
<1>3. (painting = 0 => painting # 2) /\ (painting > 0 => painting # 0)
  OBVIOUS
<1>4. PaintHolds' /\ Stays
  BY <1>1, <1>3, Zenon DEF PaintHolds, Stays
<1> QED BY <1>1, <1>2, <1>4, Zenon DEF Sizes, SizeTypes

LEMMA Resized ==
  ASSUME Sizes, NEW wished \in BOOLEAN, WasResized(wished), UNCHANGED <<painting, rect, meddled>>
  PROVE  Sizes' /\ Stays
<1>1. CASE hold_resize
  <2>1. /\ pending_resize' = TRUE /\ wish' = wished /\ UNCHANGED <<layer, lock, hold_resize>>
    BY <1>1, Zenon DEF WasResized
  <2> QED BY <2>1, Zenon DEF Sizes, SizeTypes, PaintHolds, Stays
<1>2. CASE ~hold_resize
  <2>1. ResizeRootLayer /\ UNCHANGED pending_resize
    BY <1>2, Zenon DEF WasResized
  <2>2. layer' = rect /\ wish' = FALSE
    BY <2>1, Zenon DEF ResizeRootLayer
  <2>3. hold_resize' \in BOOLEAN /\ lock' \in {"none", "held", "over"}
    <3>1. CASE UNCHANGED <<lock, hold_resize>>
      BY <3>1, Zenon DEF Sizes, SizeTypes
    <3>2. CASE lock' = "held" /\ hold_resize' = TRUE
      <4>1. lock' \in {"none", "held", "over"}
        BY <3>2
      <4> QED BY <3>2, <4>1, Zenon
    <3> QED BY <2>1, <3>1, <3>2, Zenon DEF ResizeRootLayer
  <2>4. painting # 0 => meddled
    BY <1>2, Zenon DEF Sizes, PaintHolds
  <2>5. painting > 0 => painting # 0
    OBVIOUS
  <2> QED BY <2>1, <2>2, <2>3, <2>4, <2>5, Zenon DEF Sizes, SizeTypes, PaintHolds, Stays
<1> QED BY <1>1, <1>2

LEMMA Unlocked ==
  ASSUME Sizes, tasks \in Seq(Task), UnlockResize, painting = 0 \/ meddled' = TRUE,
         meddled' \in BOOLEAN, UNCHANGED <<painting, layer, rect, wish>>
  PROVE  Sizes' /\ Stays /\ tasks' \in Seq(Task)
<1>1. lock' = "none" /\ lock' \in {"none", "held", "over"}
  BY DEF UnlockResize
<1>2. CASE ReleaseResize /\ tasks' = Released
  BY <1>1, <1>2, ReleasedSizes, ReleasedTasks
<1>3. CASE UNCHANGED <<hold_resize, pending_resize, tasks>>
  <2>1. (painting = 0 => painting # 2) /\ (painting > 0 => painting # 0)
    OBVIOUS
  <2>2. PaintHolds' /\ Stays
    BY <1>3, <2>1, Zenon DEF Sizes, PaintHolds, Stays
  <2> QED BY <1>1, <1>3, <2>2, Zenon DEF Sizes, SizeTypes
<1> QED BY <1>2, <1>3, Zenon DEF UnlockResize

LEMMA ClientResizesStep ==
  ASSUME IInv, NEW size \in Size, ClientResizes(size)
  PROVE  IInv' /\ Stays
<1>1. /\ rect' = size
      /\ UNCHANGED <<mode, frameVars, alive, is_showing, tasks, painting, popups, owed, missed>>
      /\ UNCHANGED <<hold_resize, pending_resize, lock, layer, wish, meddled>>
  BY DEF ClientResizes, history
<1>2. Frames'
  BY <1>1, FramesUntouched DEF IInv
<1>3. Sizes' /\ Stays
  BY <1>1, Zenon DEF IInv, Sizes, SizeTypes, PaintHolds, Stays
<1>4. View'
  BY <1>1, ElsewhereView DEF IInv, View, ViewTypes
<1> QED BY <1>2, <1>3, <1>4 DEF IInv

LEMMA SizeStep ==
  ASSUME IInv,
         \/ ClientCallsWasResized \/ RunWasResized
         \/ LockTimesOut \/ ResizeLockReleased \/ Show \/ Hide
  PROVE  IInv' /\ Stays
<1>1. Frames'
  <2>1. UNCHANGED <<mode, frameVars, alive, painting, owed, missed>>
    BY DEF ClientCallsWasResized, RunWasResized, LockTimesOut, ResizeLockReleased, Show, Hide,
           history
  <2> QED BY <2>1, FramesUntouched DEF IInv
<1>2. tasks \in Seq(Task) /\ Sizes /\ wish \in BOOLEAN
  BY DEF IInv, View, ViewTypes, Sizes, SizeTypes
<1>3. CASE ClientCallsWasResized
  <2>1. WasResized(TRUE) /\ UNCHANGED <<alive, is_showing, tasks, painting, rect, popups, meddled>>
    BY <1>3 DEF ClientCallsWasResized
  <2>2. Sizes' /\ Stays
    BY <1>2, <2>1, Resized
  <2> QED BY <1>1, <1>2, <2>1, <2>2, ElsewhereView DEF IInv
<1>4. CASE RunWasResized
  <2>1. /\ RunTask("WasResized") /\ WasResized(wish)
        /\ UNCHANGED <<alive, is_showing, painting, rect, popups, meddled>>
    BY <1>4 DEF RunWasResized
  <2>2. Sizes' /\ Stays
    BY <1>2, <2>1, Resized
  <2> QED BY <1>1, <1>2, <2>1, <2>2, TakenTask, ElsewhereView DEF IInv
<1>5. CASE LockTimesOut
  <2>1. /\ painting = 0 /\ lock' \in {"none", "held", "over"}
        /\ ReleaseResize /\ tasks' = Released
        /\ UNCHANGED <<alive, is_showing, painting, layer, rect, popups, wish, meddled>>
    BY <1>5 DEF LockTimesOut, Idle, history
  <2>2. meddled' \in BOOLEAN
    BY <2>1, Zenon DEF IInv, Sizes, SizeTypes
  <2> QED BY <1>1, <1>2, <2>1, <2>2, ReleasedSizes, ReleasedTasks, ElsewhereView DEF IInv
<1>6. CASE ResizeLockReleased
  <2>1. /\ painting = 0 /\ UnlockResize
        /\ UNCHANGED <<alive, is_showing, painting, layer, rect, popups, wish, meddled>>
    BY <1>6 DEF ResizeLockReleased, Idle, history
  <2>2. meddled' \in BOOLEAN
    BY <2>1, Zenon DEF IInv, Sizes, SizeTypes
  <2> QED BY <1>1, <1>2, <2>1, <2>2, Unlocked, ElsewhereView DEF IInv
<1>7. CASE Show
  <2>1. /\ alive' = alive /\ is_showing' = TRUE
        /\ UNCHANGED <<tasks, painting, hold_resize, pending_resize, lock, layer, rect, popups,
                       wish, meddled>>
    BY <1>7 DEF Show, sizeVars, history
  <2>2. Sizes' /\ Stays
    BY <2>1, Zenon DEF IInv, Sizes, SizeTypes, PaintHolds, Stays
  <2>3. View'
    BY <2>1 DEF IInv, View, ViewTypes, PopupShownOnce
  <2> QED BY <1>1, <2>2, <2>3 DEF IInv
<1>8. CASE Hide
  <2>1. /\ UnlockResize /\ meddled' = (meddled \/ painting > 0)
        /\ alive' = alive /\ is_showing' = FALSE
        /\ UNCHANGED <<painting, layer, rect, popups, wish>>
    BY <1>8, Zenon DEF Hide
  <2>2. painting = 0 \/ painting > 0
    BY DEF IInv, Sizes, SizeTypes
  <2>3. (painting = 0 \/ meddled' = TRUE) /\ meddled' \in BOOLEAN
    <3>1. CASE painting > 0
      BY <2>1, <3>1, Zenon
    <3>2. CASE painting = 0
      <4>1. (painting > 0) = FALSE
        BY <3>2
      <4> QED BY <2>1, <3>2, <4>1, Zenon DEF IInv, Sizes, SizeTypes
    <3> QED BY <2>2, <3>1, <3>2, Zenon
  <2>4. Sizes' /\ Stays /\ tasks' \in Seq(Task)
    BY <1>2, <2>1, <2>3, Unlocked
  <2>5. View'
    BY <2>1, <2>4 DEF IInv, View, ViewTypes, PopupShownOnce
  <2> QED BY <1>1, <2>4, <2>5 DEF IInv
<1> QED BY <1>3, <1>4, <1>5, <1>6, <1>7, <1>8

-----------------------------------------------------------------------------
(* Popups.                                                                 *)
LEMMA CanceledTypes ==
  ASSUME ViewTypes, NEW p \in Popup
  PROVE  Canceled(popups, p) \in [view : Popup \cup {NoPopup},
                                  state : [Popup -> {"new", "open", "gone"}], shown : Int]
BY DEF ViewTypes, Canceled

(* No popup is open once the one the view knows is canceled.               *)
LEMMA CanceledAll ==
  ASSUME View, NEW P, P = CanceledAny(popups)
  PROVE  /\ P \in [view : Popup \cup {NoPopup}, state : [Popup -> {"new", "open", "gone"}],
                    shown : Int]
         /\ P.view = NoPopup /\ P.shown = 0 /\ \A q \in Popup : P.state[q] # "open"
<1>1. popups.view \in Popup \cup {NoPopup}
  BY DEF View, ViewTypes
<1>2. NoPopup \notin Popup
  BY PopupsAssumption DEF NoPopup, Popup
<1>3. CASE popups.view = NoPopup
  BY <1>2, <1>3 DEF View, ViewTypes, PopupShownOnce, CanceledAny
<1>4. CASE popups.view # NoPopup
  <2>1. P = Canceled(popups, popups.view) /\ popups.view \in Popup
    BY <1>1, <1>4 DEF CanceledAny
  <2>2. P.view = NoPopup /\ P.shown = 0
        /\ P.state = [popups.state EXCEPT ![popups.view] = "gone"]
    BY <1>4, <2>1 DEF Canceled, View, PopupShownOnce
  <2> QED BY <2>1, <2>2, CanceledTypes DEF View, ViewTypes, PopupShownOnce
<1> QED BY <1>3, <1>4

LEMMA CanceledOpen ==
  ASSUME View, NEW p \in Popup, popups.state[p] = "open", popups' = Canceled(popups, p),
         tasks' \in Seq(Task), UNCHANGED <<alive, is_showing>>
  PROVE  View'
<1>1. NoPopup \notin Popup /\ popups.view = p
  BY PopupsAssumption DEF NoPopup, Popup, View, PopupShownOnce
<1>2. /\ popups'.view = NoPopup /\ popups'.shown = 0
      /\ popups'.state = [popups.state EXCEPT ![p] = "gone"]
  BY <1>1 DEF Canceled, View, PopupShownOnce
<1>3. ViewTypes'
  BY CanceledTypes DEF View, ViewTypes
<1>4. \A q \in Popup : popups'.state[q] # "open"
  BY <1>1, <1>2 DEF View, ViewTypes, PopupShownOnce
<1>5. PopupShownOnce'
  BY <1>2, <1>4 DEF PopupShownOnce
<1> QED BY <1>3, <1>5 DEF View

LEMMA UntouchedStep ==
  ASSUME IInv, Untouched
  PROVE  Frames' /\ Sizes' /\ Stays
<1>1. UNCHANGED <<mode, alive, is_showing, frameVars, painting, owed, missed>>
  BY DEF Untouched, history
<1>2. UNCHANGED <<painting, hold_resize, pending_resize, lock, layer, rect, wish, meddled>>
  BY DEF Untouched, sizeVars, history
<1>3. Sizes' /\ Stays
  BY <1>2, Zenon DEF IInv, Sizes, SizeTypes, PaintHolds, Stays
<1> QED BY <1>1, <1>3, FramesUntouched DEF IInv

LEMMA PopupReplaced ==
  ASSUME NEW A, NEW B, NEW P \in [view : A, state : B, shown : Int],
         NEW p \in A, NEW st \in B
  PROVE  [P EXCEPT !.view = p, !.state = st, !.shown = 1] \in [view : A, state : B, shown : Int]
<1> DEFINE R == [view : A, state : B, shown : Int]
<1>1. [P EXCEPT !.view = p] \in R
  OBVIOUS
<1>2. ASSUME NEW Q \in R  PROVE  [Q EXCEPT !.state = st] \in R
  OBVIOUS
<1>3. ASSUME NEW Q \in R  PROVE  [Q EXCEPT !.shown = 1] \in R
  OBVIOUS
<1> HIDE DEF R
<1>4. [[[P EXCEPT !.view = p] EXCEPT !.state = st] EXCEPT !.shown = 1] \in R
  BY <1>1, <1>2, <1>3
<1> QED BY <1>4 DEF R

LEMMA PopupStep ==
  ASSUME IInv,
         \/ \E p \in Popup : InitAsPopup(p) \/ DestroyPopup(p)
         \/ SendMouseWheelEvent \/ RunCancelPopup
  PROVE  IInv' /\ Stays
<1>1. Untouched /\ UNCHANGED <<alive, is_showing>>
  BY DEF InitAsPopup, DestroyPopup, SendMouseWheelEvent, RunCancelPopup, Untouched
<1>2. Frames' /\ Sizes' /\ Stays
  BY <1>1, UntouchedStep
<1>3. View /\ tasks \in Seq(Task)
  BY DEF IInv, View, ViewTypes
<1>4. ASSUME NEW p \in Popup, InitAsPopup(p)
      PROVE  View'
  <2> DEFINE P == CanceledAny(popups)
  <2>1. /\ P \in [view : Popup \cup {NoPopup}, state : [Popup -> {"new", "open", "gone"}],
                   shown : Int]
        /\ P.shown = 0 /\ \A q \in Popup : P.state[q] # "open"
    BY <1>3, CanceledAll
  <2>2. popups' = [P EXCEPT !.view = p, !.state[p] = "open", !.shown = @ + 1] /\ UNCHANGED tasks
    BY <1>4 DEF InitAsPopup
  <2> HIDE DEF P
  <2>3. /\ popups'.view = p /\ popups'.shown = 1
        /\ popups'.state = [P.state EXCEPT ![p] = "open"]
    BY <2>1, <2>2
  <2>4. ViewTypes'
    <3> DEFINE st == [P.state EXCEPT ![p] = "open"]
    <3>1. st \in [Popup -> {"new", "open", "gone"}]
      BY <2>1
    <3>2. popups' = [P EXCEPT !.view = p, !.state = st, !.shown = 1]
      BY <2>1, <2>2
    <3> HIDE DEF st
    <3>3. popups' \in [view : Popup \cup {NoPopup}, state : [Popup -> {"new", "open", "gone"}],
                       shown : Int]
      <4>1. p \in Popup \cup {NoPopup}
        BY <1>4
      <4> DEFINE A == Popup \cup {NoPopup}
                 B == [Popup -> {"new", "open", "gone"}]
      <4>2. P \in [view : A, state : B, shown : Int] /\ p \in A /\ st \in B
        BY <2>1, <3>1, <4>1
      <4> HIDE DEF P, A, B
      <4>3. [P EXCEPT !.view = p, !.state = st, !.shown = 1] \in [view : A, state : B, shown : Int]
        BY <4>2, PopupReplaced
      <4> QED BY <3>2, <4>3 DEF A, B
    <3> QED BY <1>1, <1>3, <2>2, <3>3 DEF View, ViewTypes
  <2>5. NoPopup \notin Popup
    BY PopupsAssumption DEF NoPopup, Popup
  <2>6. PopupShownOnce'
    BY <2>1, <2>3, <2>5 DEF PopupShownOnce
  <2> QED BY <2>4, <2>6 DEF View
<1>5. ASSUME NEW p \in Popup, DestroyPopup(p)
      PROVE  View'
  BY <1>1, <1>3, <1>5, CanceledOpen DEF DestroyPopup
<1>6. ASSUME SendMouseWheelEvent
      PROVE  View'
  <2>1. /\ popups.view \in Popup
        /\ tasks' = Append(tasks, [op |-> "CancelPopup", popup |-> popups.view])
        /\ UNCHANGED popups
    BY <1>3, <1>6 DEF SendMouseWheelEvent, View, ViewTypes
  <2>2. [op |-> "CancelPopup", popup |-> popups.view] \in Task
    BY <2>1 DEF Task
  <2>3. tasks' \in Seq(Task)
    BY <1>3, <2>1, <2>2
  <2>4. UNCHANGED <<alive, is_showing, popups>>
    BY <1>1, <2>1
  <2> QED BY <1>3, <2>3, <2>4, ElsewhereView
<1>7. ASSUME RunCancelPopup
      PROVE  View'
  <2>1. RunTask("CancelPopup")
    BY <1>7 DEF RunCancelPopup
  <2>2. tasks' \in Seq(Task) /\ Head(tasks).popup \in Popup
    BY <1>3, <2>1, TakenTask, CanceledPopup
  <2> DEFINE p == Head(tasks).popup
  <2>3. popups' = IF popups.state[p] = "open" THEN Canceled(popups, p) ELSE popups
    BY <1>7 DEF RunCancelPopup
  <2>4. CASE popups.state[p] = "open"
    BY <1>1, <1>3, <2>2, <2>3, <2>4, CanceledOpen
  <2>5. CASE popups.state[p] # "open"
    <3>1. UNCHANGED <<alive, is_showing, popups>>
      BY <1>1, <2>3, <2>5
    <3> QED BY <1>3, <2>2, <3>1, ElsewhereView
  <2> QED BY <2>4, <2>5
<1> QED BY <1>2, <1>4, <1>5, <1>6, <1>7 DEF IInv

LEMMA DestroyStep ==
  ASSUME IInv, Destroy
  PROVE  IInv' /\ Stays
<1>1. /\ alive' = FALSE /\ is_showing' = FALSE /\ popups' = CanceledAny(popups)
      /\ tasks' = <<>> /\ delayed' = 0 /\ copies' = <<>> /\ lock' = "none"
      /\ UNCHANGED <<mode, generator, device, swapped, owed, missed>>
      /\ UNCHANGED <<painting, hold_resize, pending_resize, layer, rect, wish, meddled>>
  BY DEF Destroy, history
<1>2. FrameTypes' /\ CopyTakesDamage' /\ DrawnByDevice'
  BY <1>1 DEF IInv, Frames, FrameTypes, CopyTakesDamage, DrawnByDevice
<1>3. FrameKept'
  BY <1>1 DEF FrameKept, OneCopyAtATime, DamageIsCopied, DamageIsDrawn
<1>4. lock' \in {"none", "held", "over"}
  BY <1>1
<1>5. Sizes' /\ Stays
  BY <1>1, <1>4, Zenon DEF IInv, Sizes, SizeTypes, PaintHolds, Stays
<1>6. View'
  <2>1. /\ popups' \in [view : Popup \cup {NoPopup}, state : [Popup -> {"new", "open", "gone"}],
                         shown : Int]
        /\ popups'.view = NoPopup /\ popups'.shown = 0 /\ \A q \in Popup : popups'.state[q] # "open"
    BY <1>1, CanceledAll DEF IInv
  <2>2. alive' \in BOOLEAN /\ is_showing' \in BOOLEAN
    BY <1>1, Zenon
  <2>3. tasks' \in Seq(Task)
    BY <1>1
  <2>4. NoPopup \notin Popup
    BY PopupsAssumption DEF NoPopup, Popup
  <2> QED BY <2>1, <2>2, <2>3, <2>4 DEF View, ViewTypes, PopupShownOnce
<1> QED BY <1>2, <1>3, <1>5, <1>6 DEF IInv, Frames

-----------------------------------------------------------------------------
LEMMA NextIInv ==
  ASSUME IInv, [Next]_vars
  PROVE  IInv' /\ Stays
<1>1. CASE UNCHANGED vars
  <2>1. UNCHANGED <<mode, alive, is_showing, frameVars, painting, sizeVars, history, tasks, popups>>
    BY <1>1 DEF vars
  <2>2. Untouched
    BY <2>1 DEF Untouched
  <2> QED BY <2>1, <2>2, UntouchedStep, ElsewhereView DEF IInv, View, ViewTypes
<1>2. ASSUME NEW d \in SUBSET Region, OnSwapCompositorFrame(d) PROVE IInv' /\ Stays
  BY <1>2, OnSwapCompositorFrameStep
<1>3. CASE RunInternalGenerateCopyFrame \/ CaptureEnds \/ RunGenerate
  BY <1>3, GeneratorStep
<1>4. CASE Draw
  BY <1>4, DrawStep
<1>5. ASSUME NEW enabled \in BOOLEAN, OnSetNeedsBeginFrames(enabled) PROVE IInv' /\ Stays
  BY <1>5, OnSetNeedsBeginFramesStep
<1>6. CASE Invalidate
  BY <1>6, InvalidateStep
<1>7. CASE PaintReturns
  BY <1>7, PaintReturnsStep
<1>8. ASSUME NEW size \in Size, ClientResizes(size) PROVE IInv' /\ Stays
  BY <1>8, ClientResizesStep
<1>9. CASE ClientCallsWasResized \/ RunWasResized \/ LockTimesOut \/ ResizeLockReleased
           \/ Show \/ Hide
  BY <1>9, SizeStep
<1>10. CASE (\E p \in Popup : InitAsPopup(p) \/ DestroyPopup(p))
            \/ SendMouseWheelEvent \/ RunCancelPopup
  BY <1>10, PopupStep
<1>11. CASE Destroy
  BY <1>11, DestroyStep
<1> QED BY <1>1, <1>2, <1>3, <1>4, <1>5, <1>6, <1>7, <1>8, <1>9, <1>10, <1>11 DEF Next, RunsTask

LEMMA Invariance == Spec => []IInv
<1>1. IInv /\ [Next]_vars => IInv'
  BY NextIInv
<1> QED BY InitIInv, <1>1, PTL DEF Spec

(* The view's state is well-formed, for any regions, sizes and popups.     *)
THEOREM ViewTypeCorrect == Spec => []TypeOK
<1>1. IInv => TypeOK
  BY TypeParts DEF IInv, Frames, Sizes, View
<1> QED BY <1>1, Invariance, PTL

(* No damage is lost between the renderer and the client's OnPaint, and no *)
(* copy of a frame is forgotten, however captures fail and the client      *)
(* invalidates, hides and resizes the view.                                *)
THEOREM NoFrameLost == Spec => []FrameKept
<1>1. IInv => FrameKept
  BY DEF IInv, Frames
<1> QED BY <1>1, Invariance, PTL

(* The client is shown one popup at a time, the one the view refers to,    *)
(* however popups open, close and are canceled late.                       *)
THEOREM OnePopup == Spec => []PopupShownOnce
<1>1. IInv => PopupShownOnce
  BY DEF IInv, View
<1> QED BY <1>1, Invariance, PTL

(* The size of the layer stays while the client paints, unless the client  *)
(* itself paints or hides the view meanwhile.                              *)
THEOREM SizeHeldByPaint == Spec => NoResizeDuringPaint
<1>1. IInv /\ [Next]_vars => [painting > 0 /\ ~meddled => UNCHANGED layer]_vars
  BY NextIInv DEF Stays
<1> QED BY <1>1, Invariance, PTL DEF Spec, NoResizeDuringPaint
===============================================================================
