---------------------------- MODULE OffScreenView ----------------------------
(***************************************************************************)
(* The view of a windowless browser (CefRenderWidgetHostViewOSR in         *)
(* libcef/browser/render_widget_host_view_osr.cc), on the UI thread: its   *)
(* frames, copied from the GPU (CefCopyFrameGenerator) or drawn by the     *)
(* compositor (software_output_device_osr.cc), on their way to the         *)
(* client's OnPaint; its size, which is held while a frame of it is waited *)
(* for (CefResizeLock) or painted; and the popup widgets it shows.         *)
(*                                                                         *)
(* Damage is a set of regions of the view.                                 *)
(***************************************************************************)
EXTENDS Integers, Sequences, FiniteSets

CONSTANTS
  Region,        \* regions of the view
  Size,          \* sizes of the view
  Popups,        \* bound: popup widgets, numbered as they open
  MaxTasks       \* bound: posted tasks of each kind

ASSUME TasksAssumption == MaxTasks \in Nat
ASSUME PopupsAssumption == Popups \in Nat

Popup == 1 .. Popups
NoPopup == 0

VARIABLES
  mode,          \* how frames come; it never changes
  alive,         \* the view was not deleted
  is_showing,
  generator,     \* copy_frame_generator_
  delayed,       \* posted calls of InternalGenerateCopyFrame
  copies,        \* requests for a copy of the layer: the damage of each
  device,        \* software_output_device_
  swapped,       \* damage of frames the compositor has not drawn yet
  tasks,         \* the other posted tasks
  painting,      \* calls of the client's OnPaint under way
  hold_resize, pending_resize,
  lock,          \* the resize lock of content: none, held, or over its time
  layer,         \* bounds of root_layer_
  rect,          \* what the client's GetViewRect says
  popups,        \* popup_host_view_, what became of each widget, and how many more
                 \* calls OnPopupShow(true) the client had than OnPopupShow(false)
  owed,          \* history: damage the client was not shown
  missed,        \* history: damage that was drawn while the device was inactive
  wish,          \* history: WasResized was called, and the layer not resized since
  meddled        \* history: the client painted or hid the view in its OnPaint

frameVars == <<generator, delayed, copies, device, swapped>>
sizeVars == <<hold_resize, pending_resize, lock, layer, rect>>
history == <<owed, missed, wish, meddled>>
vars == <<mode, alive, is_showing, frameVars, tasks, painting, sizeVars, popups, history>>

kFrameRetryLimit == 2

(* "gpu": frames are copied; "software": drawn by the compositor at any    *)
(* time; "begin": drawn while the renderer asks for BeginFrame.            *)
Mode == {"gpu", "software", "begin"}

Generator == [made : BOOLEAN, frame_pending : BOOLEAN, frame_in_progress : BOOLEAN,
              retries : 0 .. kFrameRetryLimit + 1, damage : SUBSET Region]
Device == [active : BOOLEAN, damage : SUBSET Region]

(* GenerateCopyFrame, WasResized, and CancelPopupWidget of a popup.        *)
Task == [op : {"Generate"}, force : BOOLEAN] \cup [op : {"WasResized"}] \cup
        [op : {"CancelPopup"}, popup : Popup]

TypeOK ==
  /\ mode \in Mode /\ alive \in BOOLEAN /\ is_showing \in BOOLEAN
  /\ generator \in Generator /\ device \in Device
  /\ delayed \in Nat /\ copies \in Seq(SUBSET Region)
  /\ swapped \subseteq Region
  /\ tasks \in Seq(Task)
  /\ painting \in 0 .. 2
  /\ hold_resize \in BOOLEAN /\ pending_resize \in BOOLEAN
  /\ lock \in {"none", "held", "over"}
  /\ layer \in Size /\ rect \in Size
  /\ popups \in [view : Popup \cup {NoPopup}, state : [Popup -> {"new", "open", "gone"}],
                 shown : Int]
  /\ owed \subseteq Region /\ missed \subseteq Region
  /\ wish \in BOOLEAN /\ meddled \in BOOLEAN

Init ==
  /\ mode \in Mode
  /\ alive = TRUE /\ is_showing = TRUE
  /\ generator = [made |-> FALSE, frame_pending |-> FALSE, frame_in_progress |-> FALSE,
                  retries |-> 0, damage |-> {}]
  /\ device = [active |-> FALSE, damage |-> {}]
  /\ delayed = 0 /\ copies = <<>> /\ swapped = {}
  /\ tasks = <<>> /\ painting = 0
  /\ hold_resize = FALSE /\ pending_resize = FALSE /\ lock = "none"
  /\ rect \in Size /\ layer = rect
  /\ popups = [view |-> NoPopup, state |-> [p \in Popup |-> "new"], shown |-> 0]
  /\ owed = {} /\ missed = {} /\ wish = FALSE /\ meddled = FALSE

-----------------------------------------------------------------------------
(* The UI thread runs a task or a notice; while the client paints it does  *)
(* only what the client calls.                                             *)
Idle == alive /\ painting = 0
Room(op) == Cardinality({k \in DOMAIN tasks : tasks[k].op = op}) < MaxTasks

(* ReleaseResize, and the tasks that wait after it: a resize that was put  *)
(* off is posted.                                                          *)
ReleaseResize ==
  /\ hold_resize' = FALSE
  /\ pending_resize' = (pending_resize /\ ~hold_resize)
(* Mutant: the resize that was put off is forgotten.                       *)
ResizeForgotten == tasks
Released ==
  IF hold_resize /\ pending_resize THEN Append(tasks, [op |-> "WasResized"]) ELSE tasks

(* Mutant: the size is not held.                                           *)
PaintUnheld(damage) ==
  /\ painting' = painting + 1
  /\ owed' = owed \ damage /\ missed' = missed \ damage
  /\ meddled' = (painting > 0)
  /\ UNCHANGED <<hold_resize, pending_resize, wish>>

(* OnPaint: "Don't execute WasResized while the OnPaint callback is        *)
(* pending."                                                               *)
OnPaint(damage) ==
  /\ painting' = painting + 1
  /\ hold_resize' = TRUE
  /\ owed' = owed \ damage /\ missed' = missed \ damage
  /\ meddled' = (painting > 0)
  /\ UNCHANGED <<pending_resize, wish>>

Quiet == UNCHANGED <<painting, hold_resize, pending_resize, wish, meddled>>
Elsewhere == UNCHANGED <<mode, alive, is_showing, lock, layer, rect, popups>>

-----------------------------------------------------------------------------
(* CefCopyFrameGenerator: InternalGenerateCopyFrame.                       *)
InternalGenerateCopyFrame(g) ==
  /\ generator' = [g EXCEPT !.frame_pending = FALSE, !.damage = {}]
  /\ copies' = Append(copies, g.damage)

(* GenerateCopyFrame asks for a copy now, or later if that is too soon, or *)
(* leaves it to the end of the copy in progress.                           *)
GenerateCopyFrame(g, force_frame, damage_rect) ==
  LET asked == [g EXCEPT !.frame_pending = TRUE, !.damage = @ \cup damage_rect]
      begun == [asked EXCEPT !.frame_in_progress = TRUE]
  IN  \/ /\ ~g.frame_pending /\ ~force_frame
         /\ generator' = g /\ UNCHANGED <<delayed, copies>>
      \/ /\ g.frame_pending \/ force_frame
         /\ g.frame_in_progress
         /\ generator' = asked /\ UNCHANGED <<delayed, copies>>
      \/ /\ g.frame_pending \/ force_frame
         /\ ~g.frame_in_progress
         /\ \/ generator' = begun /\ delayed' = delayed + 1 /\ UNCHANGED copies
            \/ InternalGenerateCopyFrame(begun) /\ UNCHANGED delayed

(* The frame rate threshold has passed.                                    *)
RunInternalGenerateCopyFrame ==
  /\ Idle /\ delayed > 0
  /\ delayed' = delayed - 1
  /\ InternalGenerateCopyFrame(generator)
  /\ Quiet /\ Elsewhere /\ UNCHANGED <<device, swapped, tasks, owed, missed>>

(* OnCopyFrameCaptureCompletion, and the tasks that wait after it.         *)
Completed(g) == [g EXCEPT !.frame_in_progress = FALSE]
AfterCompletion(queue, force_frame) ==
  IF generator.frame_pending
  THEN Append(queue, [op |-> "Generate", force |-> force_frame]) ELSE queue

(* Mutant: the damage of the copy is lost.                                 *)
FailedForgetful(g, damage_rect) ==
  [g EXCEPT !.retries = IF @ <= kFrameRetryLimit THEN @ + 1 ELSE @]

(* OnCopyFrameCaptureFailure: "Retry with the same |damage_rect|."         *)
Failed(g, damage_rect) ==
  [g EXCEPT !.damage = @ \cup damage_rect,
            !.retries = IF @ <= kFrameRetryLimit THEN @ + 1 ELSE @]

CaptureFails ==
  /\ Idle /\ copies # <<>> /\ Room("Generate")
  /\ copies' = Tail(copies)
  /\ generator' = Completed(Failed(generator, Head(copies)))
  /\ tasks' = AfterCompletion(tasks, generator.retries < kFrameRetryLimit)
  /\ Quiet /\ Elsewhere /\ UNCHANGED <<delayed, device, swapped, owed, missed>>

(* OnCopyFrameCaptureSuccess, up to the client's OnPaint.                  *)
CaptureSucceeds ==
  /\ Idle /\ copies # <<>> /\ Room("Generate")
  /\ copies' = Tail(copies)
  /\ OnPaint(Head(copies))
  /\ Elsewhere /\ UNCHANGED <<generator, delayed, device, swapped, tasks>>

-----------------------------------------------------------------------------
(* CefSoftwareOutputDeviceOSR: the device |d| calls OnPaint with all that  *)
(* is damaged.                                                             *)
DevicePaints(d, damage) ==
  /\ device' = [d EXCEPT !.damage = {}]
  /\ IF d.damage \cup damage = {}
     THEN Quiet /\ UNCHANGED <<owed, missed>>
     ELSE OnPaint(d.damage \cup damage)

(* The compositor draws what was swapped: BeginPaint, EndPaint.            *)
Draw ==
  /\ Idle /\ swapped # {}
  /\ swapped' = {}
  /\ IF device.active
     THEN DevicePaints(device, swapped)
     ELSE missed' = missed \cup swapped /\ Quiet /\ UNCHANGED <<device, owed>>
  /\ Elsewhere /\ UNCHANGED <<generator, delayed, copies, tasks>>

(* OnSetNeedsBeginFrames, with SetActive: "Call OnPaint immediately if     *)
(* deactivated while a damage rect is pending."                            *)
OnSetNeedsBeginFrames(enabled) ==
  /\ Idle /\ mode = "begin" /\ enabled # device.active
  /\ IF enabled
     THEN device' = [device EXCEPT !.active = TRUE] /\ Quiet /\ UNCHANGED <<owed, missed>>
     ELSE DevicePaints([device EXCEPT !.active = FALSE], {})
  /\ Elsewhere /\ UNCHANGED <<generator, delayed, copies, swapped, tasks>>

-----------------------------------------------------------------------------
(* OnSwapCompositorFrame: the renderer sends a frame.                      *)
OnSwapCompositorFrame(damage_rect) ==
  /\ Idle
  /\ owed' = owed \cup damage_rect
  /\ IF mode = "gpu"
     THEN /\ GenerateCopyFrame([generator EXCEPT !.made = TRUE], TRUE, damage_rect)
          /\ UNCHANGED <<device, swapped>>
     ELSE /\ swapped' = swapped \cup damage_rect
          /\ device' = IF mode = "software" THEN [device EXCEPT !.active = TRUE] ELSE device
          /\ UNCHANGED <<generator, delayed, copies>>
  /\ Quiet /\ Elsewhere /\ UNCHANGED <<tasks, missed>>

(* IsFramePending, for a device.                                           *)
IsFramePending == is_showing /\ mode = "begin" /\ device.active

(* The client calls Invalidate, also from inside OnPaint.                  *)
Invalidate ==
  /\ alive /\ painting < 2
  /\ \/ /\ mode = "gpu" /\ generator.made
        /\ GenerateCopyFrame(generator, TRUE, Region)
        /\ owed' = Region
        /\ Quiet /\ UNCHANGED <<device, missed>>
     \/ /\ mode # "gpu" /\ IsFramePending
        /\ device' = [device EXCEPT !.damage = Region]
        /\ owed' = Region
        /\ Quiet /\ UNCHANGED <<generator, delayed, copies, missed>>
     \/ /\ mode # "gpu" /\ ~IsFramePending
        /\ DevicePaints(device, Region)
        /\ UNCHANGED <<generator, delayed, copies>>
  /\ Elsewhere /\ UNCHANGED <<swapped, tasks>>

(* The client returns from OnPaint; a frame that was copied is complete.   *)
PaintReturns ==
  /\ alive /\ painting > 0
  /\ painting' = painting - 1
  /\ ReleaseResize
  /\ IF mode = "gpu"
     THEN /\ generator' = Completed([generator EXCEPT !.retries = 0])
          /\ tasks' = AfterCompletion(Released, FALSE)
     ELSE tasks' = Released /\ UNCHANGED generator
  /\ Elsewhere /\ UNCHANGED <<delayed, copies, device, swapped, history>>

-----------------------------------------------------------------------------
(* ResizeRootLayer, after which content may take a resize lock, to hold    *)
(* the size until the renderer sends a frame of it.                        *)
ResizeRootLayer ==
  /\ layer' = rect
  /\ wish' = FALSE
  /\ \/ UNCHANGED <<lock, hold_resize>>
     \/ /\ lock = "none" /\ layer # rect
        /\ lock' = "held" /\ hold_resize' = TRUE

WasResized(wished) ==
  \/ /\ hold_resize
     /\ pending_resize' = TRUE
     /\ wish' = wished
     /\ UNCHANGED <<layer, lock, hold_resize>>
  \/ /\ ~hold_resize
     /\ ResizeRootLayer
     /\ UNCHANGED pending_resize

(* The client changes its mind about the size ...                          *)
ClientResizes(size) ==
  /\ alive /\ size # rect
  /\ rect' = size
  /\ UNCHANGED <<mode, alive, is_showing, frameVars, tasks, painting, hold_resize,
                 pending_resize, lock, layer, popups, history>>

(* ... and calls WasResized, also from inside OnPaint.                     *)
ClientCallsWasResized ==
  /\ alive /\ Room("WasResized")
  /\ WasResized(TRUE)
  /\ UNCHANGED <<mode, alive, is_showing, frameVars, tasks, painting, rect, popups, owed,
                 missed, meddled>>

(* The lock is held too long, or content lets go of it.                    *)
LockTimesOut ==
  /\ Idle /\ lock = "held"
  /\ lock' = "over"
  /\ ReleaseResize /\ tasks' = Released
  /\ UNCHANGED <<mode, alive, is_showing, frameVars, painting, layer, rect, popups, history>>

UnlockResize ==
  /\ lock' = "none"
  /\ IF lock = "held"
     THEN ReleaseResize /\ tasks' = Released
     ELSE UNCHANGED <<hold_resize, pending_resize, tasks>>

ResizeLockReleased ==
  /\ Idle /\ lock # "none"
  /\ UnlockResize
  /\ UNCHANGED <<mode, alive, is_showing, frameVars, painting, layer, rect, popups, history>>

(* The client calls WasHidden, also from inside OnPaint.                   *)
Show ==
  /\ alive /\ ~is_showing
  /\ is_showing' = TRUE
  /\ UNCHANGED <<mode, alive, frameVars, tasks, painting, sizeVars, popups, history>>

Hide ==
  /\ alive /\ is_showing
  /\ is_showing' = FALSE
  /\ UnlockResize
  /\ meddled' = (meddled \/ painting > 0)
  /\ UNCHANGED <<mode, alive, frameVars, painting, layer, rect, popups, owed, missed, wish>>

-----------------------------------------------------------------------------
(* CancelPopupWidget, which ends in the deletion of the popup's view.      *)
Canceled(P, p) ==
  [view |-> NoPopup, state |-> [P.state EXCEPT ![p] = "gone"], shown |-> P.shown - 1]

(* Mutant: the previous popup stays.                                       *)
KeptAny(P) == P
CanceledAny(P) == IF P.view = NoPopup THEN P ELSE Canceled(P, P.view)

Untouched == UNCHANGED <<mode, alive, is_showing, frameVars, painting, sizeVars, history>>

(* InitAsPopup cancels the previous popup widget.                          *)
InitAsPopup(p) ==
  /\ Idle /\ popups.state[p] = "new"
  /\ \A q \in 1 .. p - 1 : popups.state[q] # "new"
  /\ popups' = [CanceledAny(popups) EXCEPT !.view = p, !.state[p] = "open", !.shown = @ + 1]
  /\ Untouched /\ UNCHANGED tasks

(* Destroy of a popup: the page closes it, or its process is gone.         *)
DestroyPopup(p) ==
  /\ Idle /\ popups.state[p] = "open"
  /\ popups' = Canceled(popups, p)
  /\ Untouched /\ UNCHANGED tasks

(* SendMouseWheelEvent outside of the popup, which is canceled later.      *)
SendMouseWheelEvent ==
  /\ Idle /\ Room("CancelPopup") /\ popups.view # NoPopup
  /\ tasks' = Append(tasks, [op |-> "CancelPopup", popup |-> popups.view])
  /\ Untouched /\ UNCHANGED popups

-----------------------------------------------------------------------------
(* The UI thread runs its next task.                                       *)
RunTask(op) ==
  /\ Idle /\ tasks # <<>> /\ Head(tasks).op = op
  /\ tasks' = Tail(tasks)

RunGenerate ==
  /\ RunTask("Generate")
  /\ GenerateCopyFrame(generator, Head(tasks).force, {})
  /\ Quiet /\ Elsewhere /\ UNCHANGED <<device, swapped, owed, missed>>

RunWasResized ==
  /\ RunTask("WasResized")
  /\ WasResized(wish)
  /\ UNCHANGED <<mode, alive, is_showing, frameVars, painting, rect, popups, owed, missed,
                 meddled>>

(* The task knows whether the popup is still there.                        *)
RunCancelPopup ==
  /\ RunTask("CancelPopup")
  /\ LET p == Head(tasks).popup
     IN  popups' = IF popups.state[p] = "open" THEN Canceled(popups, p) ELSE popups
  /\ Untouched

(* Destroy: the contents go, or the renderer process is gone.  The posted  *)
(* tasks and the requests for copies do nothing any more.                  *)
Destroy ==
  /\ Idle
  /\ alive' = FALSE /\ is_showing' = FALSE
  /\ popups' = CanceledAny(popups)
  /\ tasks' = <<>> /\ delayed' = 0 /\ copies' = <<>> /\ lock' = "none"
  /\ UNCHANGED <<mode, generator, device, swapped, painting, hold_resize, pending_resize, layer,
                 rect, history>>

-----------------------------------------------------------------------------
RunsTask == RunGenerate \/ RunWasResized \/ RunCancelPopup
CaptureEnds == CaptureFails \/ CaptureSucceeds

Next ==
  \/ \E d \in SUBSET Region : OnSwapCompositorFrame(d)
  \/ RunInternalGenerateCopyFrame \/ CaptureEnds
  \/ Draw \/ \E enabled \in BOOLEAN : OnSetNeedsBeginFrames(enabled)
  \/ Invalidate \/ PaintReturns
  \/ \E size \in Size : ClientResizes(size)
  \/ ClientCallsWasResized \/ LockTimesOut \/ ResizeLockReleased
  \/ Show \/ Hide
  \/ \E p \in Popup : InitAsPopup(p) \/ DestroyPopup(p)
  \/ SendMouseWheelEvent
  \/ RunsTask \/ Destroy

Spec == Init /\ [][Next]_vars

(* The UI thread gets to each of its tasks, though a paint may come first; *)
(* the client does not paint in its OnPaint for ever; and a request for a  *)
(* copy is answered, when the view is showing and the compositor draws it. *)
FairSpec ==
  /\ Spec
  /\ SF_vars(RunsTask) /\ SF_vars(RunInternalGenerateCopyFrame)
  /\ SF_vars(is_showing /\ CaptureEnds) /\ WF_vars(LockTimesOut)
  /\ WF_vars(PaintReturns) /\ SF_vars(painting = 1 /\ PaintReturns)

-----------------------------------------------------------------------------
(* A frame is in progress just while one copy of it is waited for or being *)
(* painted: the bitmap is used by one copy at a time, and no copy is       *)
(* forgotten, after which there would be none any more.                    *)
OneCopyAtATime ==
  mode = "gpu" /\ alive =>
    delayed + Len(copies) + painting = IF generator.frame_in_progress THEN 1 ELSE 0

(* Damage that is on its way in requests for copies.                       *)
UnderWay == UNION {copies[k] : k \in DOMAIN copies}

(* Damage the client was not shown is remembered by the generator or on    *)
(* its way; it is left there only after a capture failed.                  *)
DamageIsCopied ==
  mode = "gpu" /\ alive =>
    /\ owed \subseteq generator.damage \cup UnderWay
    /\ generator.damage # {} /\ ~generator.frame_pending => generator.retries > 0

(* ... or by the device or the compositor; only a frame that is drawn      *)
(* after BeginFrame was turned off is not shown.  Nothing waits in a       *)
(* device that is not active: there may be no frame to take it along.      *)
DamageIsDrawn ==
  mode # "gpu" /\ alive =>
    /\ owed \subseteq swapped \cup device.damage \cup missed
    /\ device.damage # {} => device.active
    /\ missed # {} => mode = "begin"

FrameKept == OneCopyAtATime /\ DamageIsCopied /\ DamageIsDrawn

(* The client is told of one popup at a time, the one the view knows, and  *)
(* once that it is shown and once that it is not.                          *)
PopupShownOnce ==
  /\ {p \in Popup : popups.state[p] = "open"} = {popups.view} \ {NoPopup}
  /\ popups.shown = IF popups.view = NoPopup THEN 0 ELSE 1

(* "Don't execute WasResized while the OnPaint callback is pending.": the  *)
(* size stays, unless the client itself paints or hides the view meanwhile.*)
NoResizeDuringPaint == [][painting > 0 /\ ~meddled => UNCHANGED layer]_vars

(* A resize that was put off is made, and a frame that is pending copied.  *)
ResizeIsMade == wish ~> ~wish \/ ~alive
PendingIsCopied == generator.frame_pending ~> ~generator.frame_pending \/ ~alive \/ ~is_showing
AskedIsDone == ResizeIsMade /\ PendingIsCopied
=============================================================================
